---------------------------- MODULE LegacyServer ----------------------------
(***************************************************************************)
(* The Windows server in IMServer/: TCPServer (one accept thread, one      *)
(* receive thread per connection) under Kernel (the map from users to      *)
(* sockets, the handlers, the heartbeat scan).  A handler runs on the      *)
(* receive thread of the connection that sent the packet; the maps are     *)
(* locked one call at a time.                                              *)
(*                                                                         *)
(* A socket is known everywhere by its handle, and Winsock gives the       *)
(* handle of a closed socket to the next connection.  The model tells      *)
(* handles from connections: open says which connection a handle stands    *)
(* for at the moment, and a thread that kept a handle over a close works   *)
(* on another client's connection.                                         *)
(***************************************************************************)
EXTENDS Integers, FiniteSets

CONSTANTS
    User,         \* accounts
    Handle,       \* values of socket handles
    Msg,          \* chat messages, numbered as offline_msg.id
    To,           \* the receiver of a message
    None,         \* no user, no handle
    Clients,      \* the users whose clients connect, in order
    MaxConn,      \* bound: connections accepted
    MaxEnds       \* bound: clients that leave or fall silent, offline requests, closeServer

ASSUME LegacyAssumption ==
    /\ To \in [Msg -> User] /\ Msg \subseteq Nat
    /\ Clients \subseteq [1..MaxConn -> User]
    /\ None \notin User \cup Handle
    /\ MaxConn \in Nat \ {0} /\ MaxEnds \in Nat

Conn == 1..MaxConn
Scanner == 0                       \* the thread of scanHeartbeatThread
Thread == Conn \cup {Scanner}

VARIABLES
    \* the clients and Winsock
    nconn,        \* connections accepted so far
    ends,         \* how many of these so far
    who,          \* the user of a connection's client
    peer,         \* "up" or "gone": the client's end
    asked,        \* connections whose client has sent its login
    sock,         \* RecvCtx::sock, the handle a receive thread works on
    open,         \* the connection a handle stands for, 0 when it is closed
    \* TCPServer
    running,      \* m_bRunning, and the stages of closeServer
    pending,      \* the connection acceptThread has not yet put into m_addrFrom
    addrFrom,     \* the threads (connections) with an entry in m_addrFrom
    \* Kernel
    idToSock,     \* m_mapIdtoSocket
    lastActive,   \* m_mapLastActive: "none", "fresh" or "stale" (past the timeout)
    row,          \* offline_msg: "none", "taken", "waiting", "delivered"
    \* where each thread is and the local variables of its handler
    th,
    \* history
    login,        \* the connection of a user's last login, 0 once it was taken offline
    wronged,      \* connections hit by a step that meant another one
    got           \* connections a message arrived at

net == <<nconn, ends, who, peer, asked, sock>>
kernel == <<idToSock, lastActive, row>>
history == <<login, wronged, got>>
vars == <<net, open, running, pending, addrFrom, kernel, th, history>>

\* A thread between two handlers.  user, to and todo are the handler's user id,
\* handle and messages, after is where closeConnection returns to, and aim
\* (history) is the connection the thread means by the handle.
At(l) == [pc |-> l, user |-> None, to |-> None, todo |-> {}, after |-> "recv", aim |-> 0]

Init ==
    /\ nconn = 0 /\ ends = 0
    /\ who \in Clients /\ peer = [c \in Conn |-> "up"] /\ asked = {}
    /\ sock = [c \in Conn |-> None] /\ open = [h \in Handle |-> 0]
    /\ running = "yes" /\ pending = 0 /\ addrFrom = {}
    /\ idToSock = [u \in User |-> None]
    /\ lastActive = [h \in Handle |-> "none"]
    /\ row = [m \in Msg |-> "none"]
    /\ th = [t \in Thread |-> At(IF t = Scanner THEN "sleep" ELSE "unborn")]
    /\ login = [u \in User |-> 0] /\ wronged = {} /\ got = [m \in Msg |-> {}]

CountEnd == ends < MaxEnds /\ ends' = ends + 1

Goto(t, l) == th' = [th EXCEPT ![t].pc = l]
Return(t, l) == th' = [th EXCEPT ![t] = At(l)]

\* A client is at the other end of the handle.
ClientAt(h) == h # None /\ open[h] # 0 /\ peer[open[h]] = "up"

\* send() on a handle: it reaches whoever the handle stands for, if anybody.
Arrive(m, h) ==
    got' = IF ClientAt(h) THEN [got EXCEPT ![m] = @ \cup {open[h]}] ELSE got

(***************************************************************************)
(* Clients.                                                                *)
(***************************************************************************)
Gone ==
    \E c \in 1..nconn :
        /\ peer[c] = "up"
        /\ CountEnd
        /\ peer' = [peer EXCEPT ![c] = "gone"]
        /\ UNCHANGED <<nconn, who, asked, sock, open, running, pending, addrFrom, kernel, th, history>>

\* More than HEARTBEAT_TIMEOUT_SEC have passed since the last packet.  A client
\* that is still there is silent for so long within the bound only.
Age ==
    \E u \in User :
        LET h == idToSock[u]
        IN  /\ h # None
            /\ lastActive[h] = "fresh"
            /\ IF ClientAt(h) THEN CountEnd ELSE UNCHANGED ends
            /\ lastActive' = [lastActive EXCEPT ![h] = "stale"]
            /\ UNCHANGED <<nconn, who, peer, asked, sock, open, running, pending, addrFrom,
                           idToSock, row, th, history>>

(***************************************************************************)
(* TCPServer.                                                              *)
(***************************************************************************)
\* Handles are interchangeable until they are used, so one unused handle will do.
Used == {sock[c] : c \in 1..nconn}

\* accept() takes a free handle; the receive thread starts before the entry exists.
Accept ==
    \E h \in Handle :
        LET c == nconn + 1
        IN  /\ running = "yes" /\ pending = 0
            /\ c \in Conn /\ open[h] = 0
            /\ h \notin Used => h = CHOOSE g \in Handle \ Used : TRUE
            /\ nconn' = c
            /\ sock' = [sock EXCEPT ![c] = h]
            /\ open' = [open EXCEPT ![h] = c]
            /\ pending' = c
            /\ Return(c, "recv")
            /\ UNCHANGED <<ends, who, peer, asked, running, addrFrom, kernel, history>>

Record ==
    /\ pending # 0
    /\ addrFrom' = addrFrom \cup {pending}
    /\ pending' = 0
    /\ UNCHANGED <<net, open, running, kernel, th, history>>

\* recv() fails, or m_bRunning is found false.
RecvEnds(c) ==
    /\ th[c].pc = "recv"
    /\ running # "yes" \/ ~ClientAt(sock[c])
    /\ Goto(c, "end")
    /\ UNCHANGED <<net, open, running, pending, addrFrom, kernel, history>>

\* The tail of recvData: the thread closes only if its entry is still there.
EndRecv(c) ==
    /\ th[c].pc = "end"
    /\ addrFrom' = addrFrom \ {c}
    /\ Goto(c, IF c \in addrFrom THEN "close" ELSE "done")
    /\ UNCHANGED <<net, open, running, pending, kernel, history>>

CloseOwn(c) ==
    /\ th[c].pc = "close"
    /\ open' = [open EXCEPT ![sock[c]] = 0]
    /\ Goto(c, "report")
    /\ UNCHANGED <<net, running, pending, addrFrom, kernel, history>>

\* closeConnection, under its lock: the entry with this handle, whoever has it
\* now.  With keep the entry is left in the map.
Find(t, keep) ==
    LET d == {c \in addrFrom : sock[c] = th[t].to}
    IN  /\ th[t].pc = "find"
        /\ addrFrom' = IF keep THEN addrFrom ELSE addrFrom \ d
        /\ wronged' = wronged \cup (d \ {th[t].aim})
        /\ IF d = {} THEN th' = [th EXCEPT ![t] = [At(@.after) EXCEPT !.user = th[t].user,
                                                                  !.todo = th[t].todo]]
           ELSE th' = [th EXCEPT ![t].pc = "shut", ![t].aim = CHOOSE c \in d : TRUE]
        /\ UNCHANGED <<net, open, running, pending, kernel, login, got>>

\* Mutant: the entry of a connection that is closed stays.
FindAndKeep(t) == Find(t, TRUE)

FindEntry(t) == Find(t, FALSE)

Shut(t) ==
    /\ th[t].pc = "shut"
    /\ open' = [open EXCEPT ![th[t].to] = 0]
    /\ th' = [th EXCEPT ![t] = [At(@.after) EXCEPT !.user = th[t].user, !.todo = th[t].todo]]
    /\ UNCHANGED <<net, running, pending, addrFrom, kernel, history>>

(***************************************************************************)
(* Kernel.  DealData notes the time of every packet, then calls a handler. *)
(***************************************************************************)
\* The packet comes from the client of the connection the handle stands for.
Packet(c, l, u, ms) ==
    /\ th[c].pc = "recv" /\ running = "yes"
    /\ ClientAt(sock[c])
    /\ lastActive' = [lastActive EXCEPT ![sock[c]] = "fresh"]
    /\ th' = [th EXCEPT ![c] = [At(l) EXCEPT !.user = u, !.todo = ms]]
    /\ UNCHANGED <<nconn, who, peer, sock, open, running, pending, addrFrom, idToSock, history>>

\* Any other packet, a heartbeat for one; it is answered and changes nothing else.
Heartbeat(c) ==
    /\ lastActive[sock[c]] = "stale"
    /\ Packet(c, "recv", None, {})
    /\ UNCHANGED <<ends, asked, row>>

LoginRq(c) ==
    LET d == open[sock[c]]
    IN  /\ d # 0 /\ d \notin asked
        /\ Packet(c, "login", who[d], {})
        /\ asked' = asked \cup {d}
        /\ UNCHANGED <<ends, row>>

\* Mutant: sender and receiver are taken for each other.
ChatRqSwapped(c) ==
    \E m \in Msg :
        LET d == open[sock[c]]
        IN  /\ d \in asked /\ row[m] = "none" /\ To[m] # who[d]
            /\ Packet(c, "chat", who[d], {m})
            /\ row' = [row EXCEPT ![m] = "taken"]
            /\ UNCHANGED <<ends, asked>>

ChatRq(c) ==
    \E m \in Msg :
        LET d == open[sock[c]]
        IN  /\ d \in asked /\ row[m] = "none" /\ To[m] # who[d]
            /\ Packet(c, "chat", To[m], {m})
            /\ row' = [row EXCEPT ![m] = "taken"]
            /\ UNCHANGED <<ends, asked>>

OfflineRq(c) ==
    LET d == open[sock[c]]
    IN  /\ d \in asked
        /\ CountEnd
        /\ Packet(c, "erase", who[d], {})
        /\ UNCHANGED <<asked, row>>

\* DealLoginRq after the password check: the old connection is told ...
Login(c) ==
    LET u == th[c].user
        old == idToSock[u]
    IN  /\ th[c].pc = "login"
        /\ th' = [th EXCEPT ![c] = [@ EXCEPT !.pc = "set", !.after = "select", !.aim = login[u],
                                             !.to = IF old = sock[c] THEN None ELSE old]]
        /\ UNCHANGED <<net, open, running, pending, addrFrom, kernel, history>>

\* ... the map is overwritten, and only then the old connection is closed.
SetSocket(c) ==
    /\ th[c].pc = "set"
    /\ idToSock' = [idToSock EXCEPT ![th[c].user] = sock[c]]
    /\ login' = [login EXCEPT ![th[c].user] = open[sock[c]]]
    /\ Goto(c, IF th[c].to = None THEN "select" ELSE "find")
    /\ UNCHANGED <<net, open, running, pending, addrFrom, lastActive, row, wronged, got>>

\* sendOfflinemsg
SelectOffline(c) ==
    LET ms == {m \in Msg : row[m] = "waiting" /\ To[m] = th[c].user}
    IN  /\ th[c].pc = "select"
        /\ th' = [th EXCEPT ![c] = IF ms = {} THEN At("recv")
                                   ELSE [At("resend") EXCEPT !.user = th[c].user, !.todo = ms]]
        /\ UNCHANGED <<net, open, running, pending, addrFrom, kernel, history>>

Oldest(ms) == CHOOSE m \in ms : \A n \in ms : m <= n

Resend(c) ==
    /\ th[c].pc = "resend"
    /\ Arrive(Oldest(th[c].todo), idToSock[th[c].user])
    /\ Goto(c, "mark")
    /\ UNCHANGED <<net, open, running, pending, addrFrom, kernel, login, wronged>>

\* The row is marked whether or not there was a socket to send to.
Mark(c) ==
    LET m == Oldest(th[c].todo)
    IN  /\ th[c].pc = "mark"
        /\ row' = [row EXCEPT ![m] = "delivered"]
        /\ th' = [th EXCEPT ![c] = IF @.todo = {m} THEN At("recv")
                                   ELSE [@ EXCEPT !.pc = "resend", !.todo = th[c].todo \ {m}]]
        /\ UNCHANGED <<net, open, running, pending, addrFrom, idToSock, lastActive, history>>

\* DealChatRq: forwarded to the handle found, or stored and answered FAIL.
ChatLookup(c) ==
    LET h == idToSock[th[c].user]
    IN  /\ th[c].pc = "chat"
        /\ th' = [th EXCEPT ![c] = [@ EXCEPT !.pc = IF h = None THEN "store" ELSE "forward",
                                             !.to = h]]
        /\ UNCHANGED <<net, open, running, pending, addrFrom, kernel, history>>

Forward(c) ==
    /\ th[c].pc = "forward"
    /\ Arrive(Oldest(th[c].todo), th[c].to)
    /\ Return(c, "recv")
    /\ UNCHANGED <<net, open, running, pending, addrFrom, kernel, login, wronged>>

Store(c) ==
    /\ th[c].pc = "store"
    /\ row' = [row EXCEPT ![Oldest(th[c].todo)] = "waiting"]
    /\ Return(c, "recv")
    /\ UNCHANGED <<net, open, running, pending, addrFrom, idToSock, lastActive, history>>

\* eraseSocket(id), for the user an offline request names or a user the scan found
\* silent, and the erasure of the handle's time: the mapping erased is the one of
\* now.
Erase(t, u, meant, back) ==
    LET h == idToSock[u]
    IN  /\ idToSock' = [idToSock EXCEPT ![u] = None]
        /\ IF h # None /\ login[u] # meant
           THEN wronged' = wronged \cup {login[u]} /\ UNCHANGED login
           ELSE login' = [login EXCEPT ![u] = 0] /\ UNCHANGED wronged
        /\ lastActive' = [g \in Handle |-> IF g = h THEN "none" ELSE lastActive[g]]
        /\ th' = [th EXCEPT ![t] = [At(IF h = None THEN back ELSE "find") EXCEPT
                                       !.to = h, !.aim = login[u], !.after = back,
                                       !.todo = th[t].todo \ {<<u, meant>>}]]
        /\ UNCHANGED <<net, open, running, pending, addrFrom, row, got>>

OfflineErase(c) == th[c].pc = "erase" /\ Erase(c, th[c].user, open[sock[c]], "recv")

\* Mutant: the user of the ended connection is erased, whatever socket it has now.
DisconnectByUser(c) ==
    /\ th[c].pc = "report"
    /\ idToSock' = [idToSock EXCEPT ![who[c]] = None]
    /\ lastActive' = [lastActive EXCEPT ![sock[c]] = "none"]
    /\ Return(c, "done")
    /\ UNCHANGED <<net, open, running, pending, addrFrom, row, history>>

\* DealDisconnect, called after the handle was closed: the user with this handle,
\* which may be the user of the connection that has it now.
Disconnect(c) ==
    LET us == {u \in User : idToSock[u] = sock[c]}
    IN  /\ th[c].pc = "report"
        /\ IF us = {} THEN UNCHANGED <<idToSock, wronged>>
           ELSE \E u \in us :
                   /\ idToSock' = [idToSock EXCEPT ![u] = None]
                   /\ wronged' = wronged \cup ({login[u]} \ {c})
        /\ lastActive' = [lastActive EXCEPT ![sock[c]] = "none"]
        /\ Return(c, "done")
        /\ UNCHANGED <<net, open, running, pending, addrFrom, row, login, got>>

(***************************************************************************)
(* The heartbeat scan.                                                     *)
(***************************************************************************)
\* Mutant: a mapping without a time stays without one.
CollectTimed ==
    LET stale == {u \in User : idToSock[u] # None /\ lastActive[idToSock[u]] = "stale"}
    IN  /\ th[Scanner].pc = "sleep" /\ running = "yes" /\ stale # {}
        /\ th' = [th EXCEPT ![Scanner] = [At("scan") EXCEPT
                                            !.todo = {<<u, login[u]>> : u \in stale}]]
        /\ UNCHANGED <<net, open, running, pending, addrFrom, kernel, history>>

\* Under both locks: who is silent; a mapping without a time gets one.
Collect ==
    LET mapped == {u \in User : idToSock[u] # None}
        stale == {u \in mapped : lastActive[idToSock[u]] = "stale"}
    IN  /\ th[Scanner].pc = "sleep" /\ running = "yes"
        /\ lastActive' = [h \in Handle |->
                             IF lastActive[h] = "none" /\ \E u \in mapped : idToSock[u] = h
                             THEN "fresh" ELSE lastActive[h]]
        /\ th' = IF stale = {} THEN th
                 ELSE [th EXCEPT ![Scanner] = [At("scan") EXCEPT
                                                 !.todo = {<<u, login[u]>> : u \in stale}]]
        /\ UNCHANGED <<net, open, running, pending, addrFrom, idToSock, row, history>>

ScanErase ==
    /\ th[Scanner].pc = "scan"
    /\ \E p \in th[Scanner].todo : Erase(Scanner, p[1], p[2], "scan")

ScanEnds ==
    /\ th[Scanner].pc = "scan" /\ th[Scanner].todo = {}
    /\ Return(Scanner, "sleep")
    /\ UNCHANGED <<net, open, running, pending, addrFrom, kernel, history>>

(***************************************************************************)
(* closeServer: the scan is joined, then the accept thread; every entry is *)
(* closed under the lock; then the receive threads are joined.             *)
(***************************************************************************)
CloseServer ==
    /\ running = "yes" /\ th[Scanner].pc = "sleep"
    /\ CountEnd
    /\ running' = "stopping"
    /\ Goto(Scanner, "done")
    /\ UNCHANGED <<nconn, who, peer, asked, sock, open, pending, addrFrom, kernel, history>>

CloseAll ==
    /\ running = "stopping" /\ pending = 0
    /\ open' = [h \in Handle |-> IF open[h] \in addrFrom THEN 0 ELSE open[h]]
    /\ addrFrom' = {}
    /\ running' = "closed"
    /\ UNCHANGED <<net, pending, kernel, th, history>>

JoinAll ==
    /\ running = "closed"
    /\ \A c \in 1..nconn : th[c].pc = "done"
    /\ running' = "ended"
    /\ UNCHANGED <<net, open, pending, addrFrom, kernel, th, history>>

ThreadStep(c) ==
    \/ RecvEnds(c) \/ EndRecv(c) \/ CloseOwn(c) \/ Disconnect(c)
    \/ Login(c) \/ SetSocket(c) \/ FindEntry(c) \/ Shut(c)
    \/ SelectOffline(c) \/ Resend(c) \/ Mark(c)
    \/ ChatLookup(c) \/ Forward(c) \/ Store(c) \/ OfflineErase(c)

ScanStep == Collect \/ ScanErase \/ ScanEnds \/ FindEntry(Scanner) \/ Shut(Scanner)

Closing == CloseAll \/ JoinAll

Packets(c) == Heartbeat(c) \/ LoginRq(c) \/ ChatRq(c) \/ OfflineRq(c)

Next ==
    \/ Gone \/ Age \/ Accept \/ Record \/ CloseServer \/ Closing \/ ScanStep
    \/ \E c \in 1..nconn : Packets(c) \/ ThreadStep(c)

\* Threads run, the scan comes round, and time passes over a silent client.
Fairness ==
    /\ \A c \in Conn : WF_vars(c <= nconn /\ ThreadStep(c))
    /\ WF_vars(ScanStep) /\ WF_vars(Record) /\ WF_vars(Closing) /\ WF_vars(Age)

Spec == Init /\ [][Next]_vars /\ Fairness

-----------------------------------------------------------------------------
\* m_addrFrom decides who may close (TCPServer.h): an entry's handle stands for
\* the connection of that entry, and so does the handle a thread is about to
\* close after it removed the entry.  No handle is closed twice, and none is
\* closed by a thread that does not own it, reused handles included.
OneClosePerConnection ==
    /\ \A c \in addrFrom : open[sock[c]] = c
    /\ \A c \in Conn : th[c].pc = "close" => open[sock[c]] = c
    /\ \A t \in Thread : th[t].pc = "shut" => open[th[t].to] = th[t].aim

\* A user who is logged in is found: the connection of the last login, while it
\* is open and served, is in m_mapIdtoSocket, unless a step that meant another
\* connection with the same handle or the same user removed it.
LoggedInIsFound ==
    \A u \in User :
        LET c == login[u]
        IN  (/\ c # 0 /\ open[sock[c]] = c /\ c \notin wronged
             /\ th[c].pc = "recv" /\ peer[c] = "up" /\ running = "yes"
             /\ \A t \in Thread : th[t].aim = c => th[t].pc \notin {"find", "shut"})
                => idToSock[u] = sock[c]

\* A message reaches another user than its receiver only over a handle that an
\* earlier connection of the receiver had (its disconnection is reported after
\* the handle is free).
MisdeliveredOnlyByReuse ==
    \A m \in Msg : \A d \in got[m] :
        who[d] # To[m] => \E c \in 1..(d - 1) : who[c] = To[m] /\ sock[c] = sock[d]

\* An entry of m_mapIdtoSocket with no client at its handle does not last, also
\* when the receive thread ended before acceptThread had made its entry and so
\* neither closed nor reported: it is erased, unless the handle goes to a new
\* client first, whose packets keep it alive.  And closeServer comes to an end.
DeadLeave ==
    /\ \A u \in User :
          (idToSock[u] # None /\ ~ClientAt(idToSock[u]))
              ~> (idToSock[u] = None \/ ClientAt(idToSock[u]) \/ running # "yes")
    /\ (running = "stopping") ~> (running = "ended")
=============================================================================
