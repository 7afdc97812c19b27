------------------------- MODULE LegacyServerProofs -------------------------
(***************************************************************************)
(* Proofs about LegacyServer for any accounts, handles, messages and       *)
(* clients and any number of connections.                                  *)
(***************************************************************************)
EXTENDS LegacyServer, WellFoundedInduction, TLAPS

Pc == {"unborn", "recv", "end", "close", "report", "done", "find", "shut", "login", "set", "select",
       "resend", "mark", "chat", "forward", "store", "erase", "sleep", "scan"}

\* A thread with the local variables of its handler; the scan's todo holds users with
\* the connection that was found silent, another thread's holds messages.
Todo(t) == IF t = Scanner THEN User \X (0..MaxConn) ELSE Msg

ThreadState(t) ==
    [pc : Pc, user : User \cup {None}, to : Handle \cup {None}, todo : SUBSET Todo(t),
     after : {"recv", "select", "scan"}, aim : 0..MaxConn]

Typed ==
    /\ nconn \in 0..MaxConn /\ who \in [Conn -> User]
    /\ sock \in [Conn -> Handle \cup {None}] /\ open \in [Handle -> 0..MaxConn]
    /\ pending \in 0..MaxConn /\ addrFrom \subseteq Conn
    /\ idToSock \in [User -> Handle \cup {None}]
    /\ th = [t \in Thread |-> th[t]]
    /\ \A t \in Thread : th[t] \in ThreadState(t)
    /\ login \in [User -> 0..MaxConn] /\ got \in [Msg -> SUBSET Conn]

\* Which handle a connection got: every accepted connection has one, and a handle
\* stands for the last connection that got it or is closed.
Handles ==
    /\ \A c \in 1..nconn : sock[c] \in Handle
    /\ \A c \in Conn : c > nconn => th[c].pc = "unborn" /\ c \notin addrFrom
    /\ pending <= nconn
    /\ \A h \in Handle : open[h] # 0 =>
          /\ open[h] <= nconn /\ sock[open[h]] = h
          /\ \A c \in 1..nconn : sock[c] = h => c <= open[h]

\* Who may close a connection: the accept thread before it made the entry, the entry,
\* the thread that took the entry out.  There is one of these at most.
Closers ==
    /\ pending # 0 => open[sock[pending]] = pending
    /\ \A c \in addrFrom : open[sock[c]] = c /\ c # pending
    /\ \A c \in Conn : th[c].pc = "close" =>
          open[sock[c]] = c /\ c # pending /\ c \notin addrFrom
    /\ \A t \in Thread : th[t].pc = "shut" =>
          /\ th[t].aim \in 1..nconn /\ sock[th[t].aim] = th[t].to
          /\ open[th[t].to] = th[t].aim
          /\ th[t].aim # pending /\ th[t].aim \notin addrFrom
          /\ th[th[t].aim].pc # "close"
    /\ \A s, t \in Thread : th[s].pc = "shut" /\ th[t].pc = "shut" /\ th[s].aim = th[t].aim => s = t

\* Some connection of the user had the handle.
Had(u, h) == \E c \in 1..nconn : who[c] = u /\ sock[c] = h

\* The map leads to handles its users had, and so do the handlers under way.
MapRoute(u) == idToSock[u] # None => Had(u, idToSock[u])

HandlerRoute(c) ==
    /\ th[c].pc \in {"login", "set"} => Had(th[c].user, sock[c])
    /\ th[c].pc = "forward" => Had(th[c].user, th[c].to)
    /\ th[c].pc \in {"login", "set", "find", "shut", "select", "resend", "mark", "chat", "forward"} =>
         \A m \in th[c].todo : To[m] = th[c].user
    /\ th[c].pc \in {"resend", "mark", "chat", "forward"} => th[c].todo # {}
    /\ th[c].pc = "erase" => th[c].user \in User /\ th[c].todo = {}

Routes == /\ \A u \in User : MapRoute(u)
          /\ \A c \in Conn : HandlerRoute(c)

\* A login stays on the map until its thread is through or a step meant another one.
FoundFor(u) ==
    login[u] # 0 =>
        /\ login[u] <= nconn
        /\ \/ login[u] \in wronged
           \/ idToSock[u] = sock[login[u]]
           \/ th[login[u]].pc = "done"

Found == \A u \in User : FoundFor(u)

Delivered == \A m \in Msg : \A d \in got[m] : d <= nconn

IInv == Typed /\ Handles /\ Closers /\ Routes /\ Found /\ Delivered /\ MisdeliveredOnlyByReuse

\* A set of message numbers has a smallest one.
LEMMA OldestFacts ==
  ASSUME NEW ms \in SUBSET Msg, ms # {}
  PROVE  Oldest(ms) \in ms
<1>1. ms \subseteq Nat
  BY LegacyAssumption
<1> DEFINE R == {p \in Nat \X Nat : p[1] < p[2]}
<1>2. R = OpToRel(<, Nat)
  BY DEF OpToRel
<1> HIDE DEF R
<1>3. IsWellFoundedOn(R, Nat)
  BY <1>2, NatLessThanWellFounded, Zenon
<1>4. \E m \in ms : \A n \in ms : ~(<<n, m>> \in R)
  BY <1>1, <1>3, WFMin
<1>5. \E m \in ms : \A n \in ms : m <= n
  <2>1. PICK m \in ms : \A n \in ms : ~(<<n, m>> \in R)
    BY <1>4
  <2>2. ASSUME NEW n \in ms
        PROVE  m <= n
    <3>1. m \in Nat /\ n \in Nat /\ <<n, m>> \notin R
      BY <1>1, <2>1
    <3>2. ~(n < m)
      BY <3>1 DEF R
    <3> QED
      BY <3>1, <3>2
  <2> QED
    BY <2>2
<1> QED
  BY <1>5 DEF Oldest


-----------------------------------------------------------------------------
(* Threads.                                                                *)

\* The constants, and which threads there are.
LEMMA ConstantFacts ==
  /\ MaxConn \in Nat /\ None \notin User /\ None \notin Handle
  /\ To \in [Msg -> User] /\ Clients \subseteq [1..MaxConn -> User]
  /\ Conn \subseteq Thread /\ Scanner \in Thread /\ Scanner = 0 /\ 0 \notin Conn
  /\ \A c \in Conn : c \in Nat \ {0} /\ c <= MaxConn /\ c \in 0..MaxConn /\ Todo(c) = Msg
  /\ Todo(Scanner) = User \X (0..MaxConn)
BY LegacyAssumption DEF Conn, Thread, Scanner, Todo

\* Only one thread moves.
Only(t) == /\ \A s \in Thread \ {t} : th'[s] = th[s]
           /\ th' = [s \in Thread |-> th'[s]]

\* A thread is given a new state.
LEMMA SetFacts ==
  ASSUME Typed, NEW t \in Thread, NEW x, th' = [th EXCEPT ![t] = x]
  PROVE  th'[t] = x /\ Only(t)
BY DEF Typed, Only

\* A thread between two handlers.
LEMMA AtFacts ==
  ASSUME NEW t \in Thread, NEW l \in Pc
  PROVE  /\ At(l) \in ThreadState(t)
         /\ At(l).pc = l /\ At(l).user = None /\ At(l).to = None /\ At(l).todo = {}
         /\ At(l).after = "recv" /\ At(l).aim = 0
BY ConstantFacts DEF At, ThreadState, Pc

\* A thread that begins a handler or goes on with one.
With(l, u, ms) == [At(l) EXCEPT !.user = u, !.todo = ms]

\* Its fields.
LEMMA AtWithFacts ==
  ASSUME NEW t \in Thread, NEW l \in Pc, NEW u \in User \cup {None}, NEW ms \in SUBSET Todo(t)
  PROVE  /\ With(l, u, ms) \in ThreadState(t)
         /\ With(l, u, ms).pc = l /\ With(l, u, ms).user = u /\ With(l, u, ms).todo = ms
<1>1. 0 \in 0..MaxConn
  BY ConstantFacts
<1> QED
  BY <1>1 DEF At, With, ThreadState, Pc

\* A thread goes on with its handler.
LEMMA GotoFacts ==
  ASSUME Typed, NEW t \in Thread, NEW l \in Pc, Goto(t, l)
  PROVE  /\ th'[t].pc = l /\ th'[t].user = th[t].user /\ th'[t].to = th[t].to
         /\ th'[t].todo = th[t].todo /\ th'[t].after = th[t].after /\ th'[t].aim = th[t].aim
         /\ th'[t] \in ThreadState(t) /\ Only(t)
<1>1. th[t] \in ThreadState(t)
  BY DEF Typed
<1>2. th'[t] = [th[t] EXCEPT !.pc = l] /\ Only(t)
  BY DEF Typed, Goto, Only
<1> QED
  BY <1>1, <1>2 DEF ThreadState

\* A thread at rest again.
LEMMA ReturnFacts ==
  ASSUME Typed, NEW t \in Thread, NEW l \in Pc, Return(t, l)
  PROVE  th'[t] = At(l) /\ th'[t].pc = l /\ th'[t].todo = {} /\ th'[t] \in ThreadState(t) /\ Only(t)
BY SetFacts, AtFacts DEF Return

\* closeConnection returns.
BackTo(t) == With(th[t].after, th[t].user, th[t].todo)

\* The handler goes on where it had called closeConnection.
LEMMA BackFacts ==
  ASSUME Typed, NEW t \in Thread
  PROVE  /\ BackTo(t) \in ThreadState(t) /\ BackTo(t).pc = th[t].after
         /\ BackTo(t).user = th[t].user /\ BackTo(t).todo = th[t].todo
<1>1. th[t] \in ThreadState(t)
  BY DEF Typed
<1>2. th[t].after \in {"recv", "select", "scan"}
  BY <1>1 DEF ThreadState
<1> QED
  <2>1. th[t].user \in User \cup {None} /\ th[t].todo \in SUBSET Todo(t) /\ th[t].after \in Pc
    BY <1>1, <1>2 DEF ThreadState, Pc
  <2> QED
    BY <2>1, AtWithFacts DEF BackTo

\* closeConnection looks for the entry.
LEMMA FindFacts ==
  ASSUME IInv, NEW t \in Thread, FindEntry(t)
  PROVE  /\ th[t].pc = "find" /\ Only(t) /\ th'[t] \in ThreadState(t)
         /\ th'[t].user = th[t].user /\ th'[t].todo = th[t].todo
         /\ \/ /\ th'[t].pc = th[t].after
               /\ \A c \in addrFrom : sock[c] # th[t].to
               /\ UNCHANGED <<addrFrom, wronged>>
            \/ /\ th'[t].pc = "shut" /\ th'[t].to = th[t].to
               /\ th'[t].aim \in addrFrom /\ sock[th'[t].aim] = th[t].to
               /\ addrFrom' = addrFrom \ {th'[t].aim}
               /\ wronged \subseteq wronged'
         /\ UNCHANGED <<net, open, running, pending, kernel, login, got>>
<1> DEFINE d == {c \in addrFrom : sock[c] = th[t].to}
<1>0. Typed /\ Closers
  BY DEF IInv
<1>1. /\ th[t].pc = "find" /\ UNCHANGED <<net, open, running, pending, kernel, login, got>>
      /\ addrFrom' = addrFrom \ d /\ wronged' = wronged \cup (d \ {th[t].aim})
  BY DEF FindEntry, Find
<1>2. CASE d = {}
  <2>1. th' = [th EXCEPT ![t] = BackTo(t)]
    BY <1>0, <1>2 DEF FindEntry, Find, BackTo, With, Typed
  <2>2. th'[t] = BackTo(t) /\ Only(t)
    BY <1>0, <2>1, SetFacts
  <2> QED
    BY <1>0, <1>1, <1>2, <2>2, BackFacts
<1>3. CASE d # {}
  <2> DEFINE x == CHOOSE c \in d : TRUE
  <2>1. x \in d
    BY <1>3
  <2>2. th' = [th EXCEPT ![t].pc = "shut", ![t].aim = x]
    BY <1>3 DEF FindEntry, Find
  <2> HIDE DEF x
  <2>3. th[t] \in ThreadState(t) /\ x \in 0..MaxConn
    BY <1>0, <2>1, ConstantFacts DEF Typed
  <2>4. th'[t] = [th[t] EXCEPT !.pc = "shut", !.aim = x] /\ Only(t)
    BY <1>0, <2>2 DEF Typed, Only
  <2>5. /\ th'[t].pc = "shut" /\ th'[t].aim = x /\ th'[t].to = th[t].to
        /\ th'[t].user = th[t].user /\ th'[t].todo = th[t].todo /\ th'[t] \in ThreadState(t)
    BY <2>3, <2>4 DEF ThreadState, Pc
  <2>6. \A c \in d : c = x
    BY <1>0, <2>1 DEF Closers
  <2>7. addrFrom' = addrFrom \ {x}
    BY <1>1, <2>1, <2>6
  <2> QED
    BY <1>1, <2>1, <2>4, <2>5, <2>7
<1> QED
  BY <1>2, <1>3

\* closeConnection closes the handle and returns.
LEMMA ShutFacts ==
  ASSUME IInv, NEW t \in Thread, Shut(t)
  PROVE  /\ th[t].pc = "shut" /\ Only(t) /\ th'[t] \in ThreadState(t)
         /\ th'[t].user = th[t].user /\ th'[t].todo = th[t].todo /\ th'[t].pc = th[t].after
         /\ open' = [open EXCEPT ![th[t].to] = 0]
         /\ UNCHANGED <<net, running, pending, addrFrom, kernel, history>>
<1>0. Typed
  BY DEF IInv
<1>1. th' = [th EXCEPT ![t] = BackTo(t)]
  BY <1>0 DEF Shut, BackTo, With, Typed
<1>2. th'[t] = BackTo(t) /\ Only(t)
  BY <1>0, <1>1, SetFacts
<1> QED
  BY <1>0, <1>2, BackFacts DEF Shut

\* A packet: which handler the thread goes to.
LEMMA PacketFacts ==
  ASSUME Typed, NEW c \in Conn, NEW l \in Pc, NEW u \in User \cup {None}, NEW ms \in SUBSET Msg,
         Packet(c, l, u, ms)
  PROVE  /\ th[c].pc = "recv" /\ Only(c) /\ th'[c] \in ThreadState(c)
         /\ th'[c].pc = l /\ th'[c].user = u /\ th'[c].todo = ms
         /\ open[sock[c]] # 0 /\ sock[c] \in Handle
         /\ UNCHANGED <<nconn, who, peer, sock, open, running, pending, addrFrom, idToSock, history>>
<1>1. th' = [th EXCEPT ![c] = With(l, u, ms)]
  BY DEF Packet, With
<1>2. th'[c] = With(l, u, ms) /\ Only(c)
  BY <1>1, ConstantFacts, SetFacts
<1>3. th'[c] \in ThreadState(c) /\ th'[c].pc = l /\ th'[c].user = u /\ th'[c].todo = ms
  BY <1>2, ConstantFacts, AtWithFacts
<1>4. sock[c] \in Handle
  BY DEF Packet, ClientAt, Typed
<1> QED
  BY <1>2, <1>3, <1>4 DEF Packet, ClientAt

\* eraseSocket.
LEMMA EraseFacts ==
  ASSUME Typed, NEW t \in Thread, NEW u \in User, NEW meant, NEW back \in {"recv", "scan"},
         Erase(t, u, meant, back)
  PROVE  /\ Only(t) /\ th'[t] \in ThreadState(t)
         /\ th'[t].pc \in {back, "find"} /\ th'[t].todo \subseteq th[t].todo
         /\ idToSock' = [idToSock EXCEPT ![u] = None]
         /\ \/ login' = login /\ login[u] \in wronged' /\ wronged \subseteq wronged'
            \/ login' = [login EXCEPT ![u] = 0] /\ wronged' = wronged
         /\ UNCHANGED <<net, open, running, pending, addrFrom, row, got>>
<1> DEFINE h == idToSock[u]
           x == [At(IF h = None THEN back ELSE "find") EXCEPT
                    !.to = h, !.aim = login[u], !.after = back, !.todo = th[t].todo \ {<<u, meant>>}]
<1>1. th' = [th EXCEPT ![t] = x]
  BY DEF Erase
<1>2. h \in Handle \cup {None} /\ login[u] \in 0..MaxConn /\ th[t].todo \in SUBSET Todo(t)
  BY DEF Typed, ThreadState
<1>3. x \in ThreadState(t) /\ x.pc \in {back, "find"} /\ x.todo \subseteq th[t].todo
  BY <1>2 DEF At, ThreadState, Pc
<1>4. th'[t] = x /\ Only(t)
  BY <1>1, SetFacts
<1>5. /\ idToSock' = [idToSock EXCEPT ![u] = None]
      /\ \/ login' = login /\ login[u] \in wronged' /\ wronged \subseteq wronged'
         \/ login' = [login EXCEPT ![u] = 0] /\ wronged' = wronged
      /\ UNCHANGED <<net, open, running, pending, addrFrom, row, got>>
  BY DEF Erase
<1> QED
  BY <1>3, <1>4, <1>5

-----------------------------------------------------------------------------
(* Types, and what a step leaves of the handles.                           *)

\* No step but accept() changes which handles the connections got; the others close
\* handles, use up the accept thread's connection and move threads that exist.
KeepsHandles ==
  /\ UNCHANGED <<nconn, who, sock>>
  /\ addrFrom' \subseteq addrFrom \cup {pending} /\ pending' \in {pending, 0}
  /\ \A h \in Handle : open'[h] \in {open[h], 0}
  /\ \A c \in Conn : c > nconn => th'[c] = th[c]

\* The threads are those of accepted connections and the scan's.
LEMMA ThreadFacts ==
  ASSUME Typed, Handles
  PROVE  /\ \A c \in 1..nconn : c \in Conn /\ c \in Thread /\ c # Scanner /\ sock[c] \in Handle
                                  /\ who[c] \in User
         /\ \A t \in Thread : t = Scanner \/ t \in Conn
         /\ \A c \in Conn : c \in 1..nconn \/ th[c].pc = "unborn"
         /\ \A t \in Thread : th[t] \in ThreadState(t)
         /\ \A t \in Thread : th[t].todo \in SUBSET Todo(t)
         /\ \A c \in addrFrom : c \in 1..nconn /\ c \in Conn /\ c \in Thread
<1>1. \A c \in 1..nconn : c \in Conn /\ c \in Thread /\ c # Scanner
  BY ConstantFacts DEF Typed, Conn
<1>2. \A c \in 1..nconn : sock[c] \in Handle /\ who[c] \in User
  BY <1>1 DEF Typed, Handles
<1>3. \A t \in Thread : t = Scanner \/ t \in Conn
  BY DEF Thread
<1>4. /\ \A c \in Conn : c \in 1..nconn \/ th[c].pc = "unborn"
      /\ \A c \in addrFrom : c \in 1..nconn
  <2>1. nconn \in Int /\ MaxConn \in Nat
    BY ConstantFacts DEF Typed
  <2>2. \A c \in Conn : c \in 1..nconn \/ c > nconn
    BY <2>1 DEF Conn
  <2>3. addrFrom \subseteq Conn
    BY DEF Typed
  <2> QED
    BY <2>2, <2>3 DEF Handles
<1>5. \A t \in Thread : th[t] \in ThreadState(t)
  BY DEF Typed
<1>6. \A t \in Thread : th[t].todo \in SUBSET Todo(t)
  BY <1>5 DEF ThreadState
<1> QED
  BY <1>1, <1>2, <1>3, <1>4, <1>5, <1>6

\* Typing of the threads after a step of one of them, which is not an unborn one.
LEMMA OnlyFacts ==
  ASSUME Typed, Handles, NEW t \in Thread, Only(t), th'[t] \in ThreadState(t), th[t].pc # "unborn"
  PROVE  /\ th' = [s \in Thread |-> th'[s]]
         /\ \A s \in Thread : th'[s] \in ThreadState(s)
         /\ \A c \in Conn : c > nconn => th'[c] = th[c]
<1>1. \A s \in Thread : th'[s] \in ThreadState(s)
  BY DEF Typed, Only
<1>2. \A c \in Conn : c > nconn => c \in Thread /\ c # t
  BY ConstantFacts DEF Handles
<1> QED
  BY <1>1, <1>2 DEF Only

\* Steps that change nothing of this but one thread.
LEMMA OnlyThread ==
  ASSUME Typed, Handles, NEW t \in Thread, Only(t), th'[t] \in ThreadState(t), th[t].pc # "unborn",
         UNCHANGED <<nconn, who, sock, open, pending, addrFrom, idToSock, login, got>>
  PROVE  Typed' /\ KeepsHandles
<1>1. /\ th' = [s \in Thread |-> th'[s]]
      /\ \A s \in Thread : th'[s] \in ThreadState(s)
      /\ \A c \in Conn : c > nconn => th'[c] = th[c]
  BY OnlyFacts
<1>2. Typed'
  BY <1>1 DEF Typed
<1> QED
  BY <1>1, <1>2 DEF KeepsHandles

\* closeConnection.
LEMMA StepTypedClose ==
  ASSUME IInv, NEW t \in Thread, FindEntry(t) \/ Shut(t)
  PROVE  Typed' /\ KeepsHandles
<1>0. Typed /\ Handles /\ Closers
  BY DEF IInv
<1>1. CASE FindEntry(t)
  <2>1. /\ th[t].pc = "find" /\ Only(t) /\ th'[t] \in ThreadState(t) /\ addrFrom' \subseteq addrFrom
        /\ UNCHANGED <<net, open, running, pending, kernel, login, got>>
    BY <1>1, FindFacts
  <2>2. /\ th' = [s \in Thread |-> th'[s]]
        /\ \A s \in Thread : th'[s] \in ThreadState(s)
        /\ \A c \in Conn : c > nconn => th'[c] = th[c]
    BY <1>0, <2>1, OnlyFacts
  <2> QED
    BY <1>0, <2>1, <2>2 DEF Typed, KeepsHandles, net, kernel
<1>2. CASE Shut(t)
  <2>1. /\ th[t].pc = "shut" /\ Only(t) /\ th'[t] \in ThreadState(t)
        /\ open' = [open EXCEPT ![th[t].to] = 0]
        /\ UNCHANGED <<net, running, pending, addrFrom, kernel, history>>
    BY <1>2, ShutFacts
  <2>2. /\ th' = [s \in Thread |-> th'[s]]
        /\ \A s \in Thread : th'[s] \in ThreadState(s)
        /\ \A c \in Conn : c > nconn => th'[c] = th[c]
    BY <1>0, <2>1, OnlyFacts
  <2>3. open' \in [Handle -> 0..MaxConn] /\ \A h \in Handle : open'[h] \in {open[h], 0}
    <3>1. 0 \in 0..MaxConn /\ open \in [Handle -> 0..MaxConn]
      BY <1>0, ConstantFacts DEF Typed
    <3> QED
      BY <2>1, <3>1
  <2> QED
    BY <1>0, <2>1, <2>2, <2>3 DEF Typed, KeepsHandles, net, kernel, history
<1> QED
  BY <1>1, <1>2

\* Steps of the clients, the accept thread and closeServer.
LEMMA StepTypedServer ==
  ASSUME IInv, Gone \/ Age \/ Accept \/ Record \/ CloseServer \/ Closing
  PROVE  Typed' /\ (Accept \/ KeepsHandles)
<1>0. Typed /\ Handles
  BY DEF IInv
<1>1. CASE Gone \/ Age \/ JoinAll
  <2>1. /\ UNCHANGED <<nconn, who, sock, open, pending, addrFrom, idToSock, login, got, th>>
    BY <1>1 DEF Gone, Age, JoinAll, kernel, history, net
  <2> QED
    BY <1>0, <2>1 DEF Typed, KeepsHandles
<1>2. CASE Accept
  <2>1. PICK h \in Handle :
          /\ nconn + 1 \in Conn /\ nconn' = nconn + 1
          /\ sock' = [sock EXCEPT ![nconn + 1] = h] /\ open' = [open EXCEPT ![h] = nconn + 1]
          /\ pending' = nconn + 1 /\ Return(nconn + 1, "recv")
          /\ UNCHANGED <<who, addrFrom, idToSock, login, got>>
    BY <1>2 DEF Accept, kernel, history
  <2>2. nconn + 1 \in Thread /\ "recv" \in Pc
    BY <2>1, ConstantFacts DEF Pc
  <2>3. th'[nconn + 1] \in ThreadState(nconn + 1) /\ Only(nconn + 1)
    BY <1>0, <2>1, <2>2, ReturnFacts
  <2>4. \A s \in Thread : th'[s] \in ThreadState(s)
    BY <1>0, <2>3 DEF Typed, Only
  <2>5. nconn' \in 0..MaxConn /\ pending' \in 0..MaxConn
    BY <2>1, ConstantFacts
  <2>6. sock' \in [Conn -> Handle \cup {None}] /\ open' \in [Handle -> 0..MaxConn]
    BY <1>0, <2>1, <2>5 DEF Typed
  <2> QED
    BY <1>0, <1>2, <2>1, <2>3, <2>4, <2>5, <2>6 DEF Typed, Only
<1>3. CASE Record
  <2>1. /\ UNCHANGED <<nconn, who, sock, open, idToSock, login, got, th>>
        /\ addrFrom' = addrFrom \cup {pending} /\ pending' = 0 /\ pending # 0
    BY <1>3 DEF Record, kernel, history, net
  <2>2. pending \in Conn
    BY <1>0, <2>1, ConstantFacts DEF Typed, Conn
  <2>3. 0 \in 0..MaxConn
    BY ConstantFacts
  <2> QED
    BY <1>0, <2>1, <2>2, <2>3 DEF Typed, KeepsHandles
<1>4. CASE CloseServer
  <2>1. /\ UNCHANGED <<nconn, who, sock, open, pending, addrFrom, idToSock, login, got>>
        /\ Goto(Scanner, "done") /\ th[Scanner].pc = "sleep"
    BY <1>4 DEF CloseServer, kernel, history
  <2>2. th'[Scanner] \in ThreadState(Scanner) /\ Only(Scanner)
    BY <1>0, <2>1, ConstantFacts, GotoFacts DEF Pc
  <2> QED
    BY <1>0, <2>1, <2>2, ConstantFacts, OnlyThread
<1>5. CASE CloseAll
  <2>1. /\ UNCHANGED <<nconn, who, sock, pending, idToSock, login, got, th>>
        /\ open' = [h \in Handle |-> IF open[h] \in addrFrom THEN 0 ELSE open[h]]
        /\ addrFrom' = {}
    BY <1>5 DEF CloseAll, kernel, history, net
  <2>2. open' \in [Handle -> 0..MaxConn]
    BY <1>0, <2>1, ConstantFacts DEF Typed
  <2> QED
    BY <1>0, <2>1, <2>2 DEF Typed, KeepsHandles
<1> QED
  BY <1>1, <1>2, <1>3, <1>4, <1>5 DEF Closing

\* Steps of the heartbeat scan.
LEMMA StepTypedScan ==
  ASSUME IInv, ScanStep
  PROVE  Typed' /\ KeepsHandles
<1>0. Typed /\ Handles /\ Scanner \in Thread
  BY ConstantFacts DEF IInv
<1>1. CASE Collect
  <2> DEFINE stale == {u \in User : idToSock[u] # None /\ lastActive[idToSock[u]] = "stale"}
             ms == {<<u, login[u]>> : u \in stale}
             x == [At("scan") EXCEPT !.todo = ms]
  <2>1. /\ UNCHANGED <<nconn, who, sock, open, pending, addrFrom, idToSock, login, got>>
        /\ th[Scanner].pc = "sleep"
        /\ th' = th \/ th' = [th EXCEPT ![Scanner] = x]
    BY <1>1 DEF Collect, history, net
  <2>2. ms \in SUBSET (User \X (0..MaxConn))
    BY <1>0 DEF Typed
  <2>3. CASE th' = th
    BY <1>0, <2>1, <2>3 DEF Typed, KeepsHandles
  <2>4. CASE th' = [th EXCEPT ![Scanner] = x]
    <3>1. ms \in SUBSET Todo(Scanner)
      BY <2>2, ConstantFacts
    <3> HIDE DEF ms
    <3>2. x \in ThreadState(Scanner)
      BY <3>1, ConstantFacts DEF At, ThreadState, Pc
    <3> HIDE DEF x
    <3>3. th'[Scanner] = x /\ Only(Scanner)
      BY <1>0, <2>4, SetFacts
    <3> QED
      BY <1>0, <2>1, <3>2, <3>3, OnlyThread
  <2> QED
    BY <2>1, <2>3, <2>4
<1>2. CASE ScanErase
  <2>1. PICK p \in th[Scanner].todo : Erase(Scanner, p[1], p[2], "scan")
    BY <1>2 DEF ScanErase
  <2>2. th[Scanner].pc = "scan" /\ th[Scanner].todo \in SUBSET (User \X (0..MaxConn))
    BY <1>0, <1>2, ThreadFacts, ConstantFacts DEF ScanErase
  <2>3. p[1] \in User
    BY <2>1, <2>2
  <2>4. /\ Only(Scanner) /\ th'[Scanner] \in ThreadState(Scanner)
        /\ idToSock' = [idToSock EXCEPT ![p[1]] = None]
        /\ login' \in {login, [login EXCEPT ![p[1]] = 0]}
        /\ UNCHANGED <<net, open, pending, addrFrom, got>>
    BY <1>0, <2>1, <2>3, EraseFacts
  <2>5. /\ th' = [s \in Thread |-> th'[s]]
        /\ \A s \in Thread : th'[s] \in ThreadState(s)
        /\ \A c \in Conn : c > nconn => th'[c] = th[c]
    BY <1>0, <2>2, <2>4, OnlyFacts
  <2>6. login' \in [User -> 0..MaxConn] /\ idToSock' \in [User -> Handle \cup {None}]
    <3>1. 0 \in 0..MaxConn /\ login \in [User -> 0..MaxConn] /\ idToSock \in [User -> Handle \cup {None}]
      BY <1>0, ConstantFacts DEF Typed
    <3>2. idToSock' \in [User -> Handle \cup {None}]
      BY <2>4, <3>1
    <3>3. [login EXCEPT ![p[1]] = 0] \in [User -> 0..MaxConn]
      BY <3>1
    <3> QED
      BY <2>4, <3>1, <3>2, <3>3
  <2> QED
    BY <1>0, <2>4, <2>5, <2>6 DEF Typed, KeepsHandles, net
<1>3. CASE ScanEnds
  <2>1. /\ UNCHANGED <<nconn, who, sock, open, pending, addrFrom, idToSock, login, got>>
        /\ Return(Scanner, "sleep") /\ th[Scanner].pc = "scan"
    BY <1>3 DEF ScanEnds, kernel, history, net
  <2>2. th'[Scanner] \in ThreadState(Scanner) /\ Only(Scanner)
    BY <1>0, <2>1, ReturnFacts DEF Pc
  <2> QED
    BY <1>0, <2>1, <2>2, OnlyThread
<1>4. CASE FindEntry(Scanner) \/ Shut(Scanner)
  BY <1>0, <1>4, StepTypedClose
<1> QED
  BY <1>1, <1>2, <1>3, <1>4 DEF ScanStep

\* The user of a handler is an account where the handler uses it.
LEMMA UserFacts ==
  ASSUME IInv, NEW c \in 1..nconn
  PROVE  /\ th[c].pc \in {"login", "set", "resend", "mark", "chat", "forward", "erase"} =>
              th[c].user \in User
         /\ th[c].pc \in {"resend", "mark", "chat", "forward"} =>
              /\ Oldest(th[c].todo) \in th[c].todo /\ Oldest(th[c].todo) \in Msg
              /\ To[Oldest(th[c].todo)] = th[c].user
<1>0. Typed /\ Handles /\ Routes
  BY DEF IInv
<1>1. c \in Conn /\ th[c].todo \in SUBSET Msg
  BY <1>0, ThreadFacts, ConstantFacts
<1>2. th[c].pc \in {"login", "set"} => th[c].user \in User
  <2>1. ASSUME th[c].pc \in {"login", "set"}
        PROVE  \E b \in 1..nconn : who[b] = th[c].user
    BY <1>0, <1>1, <2>1 DEF Routes, HandlerRoute, Had
  <2> QED
    BY <1>0, <2>1, ThreadFacts
<1>3. ASSUME th[c].pc \in {"resend", "mark", "chat", "forward"}
      PROVE  /\ Oldest(th[c].todo) \in th[c].todo /\ Oldest(th[c].todo) \in Msg
             /\ To[Oldest(th[c].todo)] = th[c].user /\ th[c].user \in User
  <2>1. th[c].todo # {} /\ \A m \in th[c].todo : To[m] = th[c].user
    BY <1>0, <1>1, <1>3 DEF Routes, HandlerRoute
  <2>2. Oldest(th[c].todo) \in th[c].todo
    BY <1>1, <2>1, OldestFacts
  <2> QED
    BY <1>1, <2>1, <2>2, ConstantFacts
<1>4. th[c].pc = "erase" => th[c].user \in User
  BY <1>0, <1>1 DEF Routes, HandlerRoute
<1> QED
  BY <1>2, <1>3, <1>4

\* What a packet leads to.
LEMMA PacketsFacts ==
  ASSUME IInv, NEW c \in 1..nconn, Packets(c)
  PROVE  /\ th[c].pc = "recv" /\ Only(c) /\ th'[c] \in ThreadState(c)
         /\ UNCHANGED <<nconn, who, sock, open, running, pending, addrFrom, idToSock, history>>
         /\ \/ th'[c].pc = "recv" /\ th'[c].todo = {}
            \/ /\ th'[c].pc \in {"login", "erase"} /\ th'[c].todo = {}
               /\ Had(th'[c].user, sock[c]) /\ th'[c].user \in User
            \/ th'[c].pc = "chat" /\ \E m \in Msg : th'[c].todo = {m} /\ th'[c].user = To[m]
<1>0. Typed /\ Handles
  BY DEF IInv
<1>1. c \in Conn
  BY <1>0, ThreadFacts
<1> DEFINE d == open[sock[c]]
<1>2. ASSUME d # 0, sock[c] \in Handle
      PROVE  d \in 1..nconn /\ who[d] \in User /\ sock[d] = sock[c] /\ Had(who[d], sock[c])
  <2>1. d \in 1..nconn /\ sock[d] = sock[c]
    BY <1>0, <1>2, ConstantFacts DEF Typed, Handles
  <2> QED
    BY <1>0, <2>1, ThreadFacts DEF Had
<1>3. CASE Heartbeat(c)
  <2>1. Packet(c, "recv", None, {})
    BY <1>3 DEF Heartbeat
  <2> QED
    BY <1>0, <1>1, <2>1, PacketFacts DEF Pc
<1>4. CASE LoginRq(c)
  <2>1. Packet(c, "login", who[d], {})
    BY <1>4 DEF LoginRq
  <2>2. d # 0 /\ sock[c] \in Handle
    BY <1>0, <1>4, ThreadFacts DEF LoginRq
  <2>3. who[d] \in User /\ Had(who[d], sock[c])
    BY <1>2, <2>2
  <2>4. "login" \in Pc /\ who[d] \in User \cup {None} /\ {} \in SUBSET Msg
    BY <2>3 DEF Pc
  <2> QED
    BY <1>0, <1>1, <2>1, <2>3, <2>4, PacketFacts
<1>5. CASE ChatRq(c)
  <2>1. PICK m \in Msg : Packet(c, "chat", To[m], {m})
    BY <1>5 DEF ChatRq
  <2>2. "chat" \in Pc /\ To[m] \in User \cup {None} /\ {m} \in SUBSET Msg
    BY ConstantFacts DEF Pc
  <2> QED
    BY <1>0, <1>1, <2>1, <2>2, PacketFacts
<1>6. CASE OfflineRq(c)
  <2>1. Packet(c, "erase", who[d], {})
    BY <1>6 DEF OfflineRq
  <2>2. d # 0 /\ sock[c] \in Handle
    BY <1>0, <2>1, ThreadFacts DEF Packet, ClientAt
  <2>3. who[d] \in User /\ Had(who[d], sock[c])
    BY <1>2, <2>2
  <2>4. "erase" \in Pc /\ who[d] \in User \cup {None} /\ {} \in SUBSET Msg
    BY <2>3 DEF Pc
  <2> QED
    BY <1>0, <1>1, <2>1, <2>3, <2>4, PacketFacts
<1> QED
  BY <1>3, <1>4, <1>5, <1>6 DEF Packets

\* The steps of a receive thread that change its local variables, rows and times only.
Local(c) == RecvEnds(c) \/ Login(c) \/ SelectOffline(c) \/ Mark(c) \/ ChatLookup(c) \/ Store(c)

\* What they do to the thread.
LEMMA LocalFacts ==
  ASSUME IInv, NEW c \in 1..nconn, Local(c)
  PROVE  /\ Only(c) /\ th'[c] \in ThreadState(c)
         /\ UNCHANGED <<nconn, who, sock, open, running, pending, addrFrom, idToSock, history>>
         /\ th[c].pc \in {"recv", "login", "select", "mark", "chat", "store"}
         /\ \/ th'[c].pc \in {"recv", "end", "store"}
            \/ /\ th[c].pc = "login" /\ th'[c].pc = "set"
               /\ th'[c].user = th[c].user /\ th'[c].todo = th[c].todo
            \/ /\ th'[c].pc = "resend" /\ th'[c].todo # {}
               /\ \A m \in th'[c].todo : To[m] = th'[c].user
            \/ /\ th[c].pc = "chat" /\ th'[c].pc = "forward" /\ th'[c].user = th[c].user
               /\ th'[c].todo = th[c].todo /\ th'[c].to = idToSock[th[c].user]
               /\ th[c].user \in User /\ th'[c].to # None
<1>0. Typed /\ Handles /\ Routes
  BY DEF IInv
<1>1. /\ c \in Conn /\ c \in Thread /\ sock[c] \in Handle /\ th[c] \in ThreadState(c)
      /\ th[c].todo \in SUBSET Msg /\ Todo(c) = Msg
  BY <1>0, ThreadFacts, ConstantFacts
<1>2. CASE RecvEnds(c)
  <2>1. /\ Goto(c, "end") /\ th[c].pc = "recv"
        /\ UNCHANGED <<nconn, who, sock, open, running, pending, addrFrom, idToSock, history>>
    BY <1>2 DEF RecvEnds, net, kernel
  <2> QED
    BY <1>0, <1>1, <2>1, GotoFacts DEF Pc
<1>3. CASE Login(c)
  <2> DEFINE u == th[c].user
             h == IF idToSock[u] = sock[c] THEN None ELSE idToSock[u]
             x == [th[c] EXCEPT !.pc = "set", !.after = "select", !.aim = login[u], !.to = h]
  <2>1. /\ th' = [th EXCEPT ![c] = x] /\ th[c].pc = "login"
        /\ UNCHANGED <<nconn, who, sock, open, running, pending, addrFrom, idToSock, history>>
    BY <1>0, <1>1, <1>3 DEF Login, net, kernel, Typed
  <2>2. u \in User
    BY <2>1, UserFacts
  <2>3. login[u] \in 0..MaxConn /\ h \in Handle \cup {None}
    BY <1>0, <2>2 DEF Typed
  <2> HIDE DEF h
  <2>4. x \in ThreadState(c) /\ x.pc = "set" /\ x.user = th[c].user /\ x.todo = th[c].todo
    BY <1>1, <2>3 DEF ThreadState, Pc
  <2>5. th'[c] = x /\ Only(c)
    BY <1>0, <1>1, <2>1, SetFacts
  <2> HIDE DEF x
  <2> QED
    BY <2>1, <2>4, <2>5
<1>4. CASE SelectOffline(c)
  <2> DEFINE ms == {m \in Msg : row[m] = "waiting" /\ To[m] = th[c].user}
  <2>1. /\ th' = [th EXCEPT ![c] = IF ms = {} THEN At("recv") ELSE With("resend", th[c].user, ms)]
        /\ th[c].pc = "select"
        /\ UNCHANGED <<nconn, who, sock, open, running, pending, addrFrom, idToSock, history>>
    BY <1>0, <1>1, <1>4 DEF SelectOffline, net, kernel, Typed, With
  <2>2. ms \in SUBSET Todo(c) /\ \A m \in ms : To[m] = th[c].user
    BY <1>1
  <2>3. th[c].user \in User \cup {None}
    BY <1>1 DEF ThreadState
  <2> HIDE DEF ms
  <2>4. CASE ms = {}
    <3>1. th'[c] = At("recv") /\ Only(c)
      BY <1>0, <1>1, <2>1, <2>4, SetFacts
    <3> QED
      BY <1>1, <2>1, <3>1, AtFacts DEF Pc
  <2>5. CASE ms # {}
    <3>1. th'[c] = With("resend", th[c].user, ms) /\ Only(c)
      BY <1>0, <1>1, <2>1, <2>5, SetFacts
    <3>2. /\ th'[c] \in ThreadState(c) /\ th'[c].pc = "resend"
          /\ th'[c].user = th[c].user /\ th'[c].todo = ms
      BY <1>1, <2>2, <2>3, <3>1, AtWithFacts DEF Pc
    <3> QED
      BY <2>1, <2>2, <2>5, <3>1, <3>2
  <2> QED
    BY <2>4, <2>5
<1>5. CASE Mark(c)
  <2> DEFINE m == Oldest(th[c].todo)
             x == [th[c] EXCEPT !.pc = "resend", !.todo = th[c].todo \ {m}]
  <2>1. /\ th' = [th EXCEPT ![c] = IF th[c].todo = {m} THEN At("recv") ELSE x]
        /\ th[c].pc = "mark"
        /\ UNCHANGED <<nconn, who, sock, open, running, pending, addrFrom, idToSock, history>>
    BY <1>0, <1>1, <1>5 DEF Mark, net, Typed
  <2>2. m \in th[c].todo
    BY <2>1, UserFacts
  <2>3. \A n \in th[c].todo : To[n] = th[c].user
    BY <1>0, <1>1, <2>1 DEF Routes, HandlerRoute
  <2> HIDE DEF m
  <2>4. CASE th[c].todo = {m}
    <3>1. th'[c] = At("recv") /\ Only(c)
      BY <1>0, <1>1, <2>1, <2>4, SetFacts
    <3> QED
      BY <1>1, <2>1, <3>1, AtFacts DEF Pc
  <2>5. CASE th[c].todo # {m}
    <3>1. x \in ThreadState(c) /\ x.pc = "resend" /\ x.user = th[c].user /\ x.todo = th[c].todo \ {m}
      BY <1>1 DEF ThreadState, Pc
    <3> HIDE DEF x
    <3>2. th'[c] = x /\ Only(c)
      BY <1>0, <1>1, <2>1, <2>5, SetFacts
    <3>3. th[c].todo \ {m} # {}
      BY <2>2, <2>5
    <3> QED
      BY <2>1, <2>3, <3>1, <3>2, <3>3
  <2> QED
    BY <2>4, <2>5
<1>6. CASE ChatLookup(c)
  <2> DEFINE h == idToSock[th[c].user]
             l == IF h = None THEN "store" ELSE "forward"
             x == [th[c] EXCEPT !.pc = l, !.to = h]
  <2>1. /\ th' = [th EXCEPT ![c] = x] /\ th[c].pc = "chat"
        /\ UNCHANGED <<nconn, who, sock, open, running, pending, addrFrom, idToSock, history>>
    BY <1>0, <1>1, <1>6 DEF ChatLookup, net, kernel, Typed
  <2>2. th[c].user \in User
    BY <2>1, UserFacts
  <2>3. h \in Handle \cup {None} /\ l \in Pc
    BY <1>0, <2>2 DEF Typed, Pc
  <2>4. l = "store" \/ (l = "forward" /\ h # None)
    OBVIOUS
  <2> HIDE DEF h, l
  <2>5. x \in ThreadState(c) /\ x.pc = l /\ x.to = h /\ x.user = th[c].user /\ x.todo = th[c].todo
    BY <1>1, <2>3 DEF ThreadState
  <2>6. th'[c] = x /\ Only(c)
    BY <1>0, <1>1, <2>1, SetFacts
  <2> HIDE DEF x
  <2> QED
    BY <2>1, <2>2, <2>4, <2>5, <2>6 DEF h
<1>7. CASE Store(c)
  <2>1. /\ Return(c, "recv") /\ th[c].pc = "store"
        /\ UNCHANGED <<nconn, who, sock, open, running, pending, addrFrom, idToSock, history>>
    BY <1>7 DEF Store, net, kernel
  <2> QED
    BY <1>0, <1>1, <2>1, ReturnFacts DEF Pc
<1> QED
  BY <1>2, <1>3, <1>4, <1>5, <1>6, <1>7 DEF Local

\* send() reaches the connection its handle stands for.
LEMMA ArriveFacts ==
  ASSUME Typed, NEW m \in Msg, NEW h \in Handle \cup {None}, Arrive(m, h)
  PROVE  /\ got' \in [Msg -> SUBSET Conn]
         /\ \A n \in Msg : \A d \in got'[n] :
               d \in got[n] \/ (n = m /\ h \in Handle /\ d = open[h] /\ d # 0)
<1>1. got \in [Msg -> SUBSET Conn]
  BY DEF Typed
<1>2. CASE ClientAt(h)
  <2>1. h \in Handle /\ open[h] # 0 /\ got' = [got EXCEPT ![m] = got[m] \cup {open[h]}]
    BY <1>2 DEF Arrive, ClientAt
  <2>2. open[h] \in Conn
    BY <2>1, ConstantFacts DEF Typed, Conn
  <2> QED
    BY <1>1, <2>1, <2>2
<1>3. CASE ~ClientAt(h)
  BY <1>1, <1>3 DEF Arrive
<1> QED
  BY <1>2, <1>3

\* The receive thread takes its entry out, or finds it gone.
LEMMA EndRecvFacts ==
  ASSUME IInv, NEW c \in 1..nconn, EndRecv(c)
  PROVE  /\ th[c].pc = "end" /\ Only(c) /\ th'[c] \in ThreadState(c)
         /\ addrFrom' = addrFrom \ {c}
         /\ (c \in addrFrom /\ th'[c].pc = "close") \/ (c \notin addrFrom /\ th'[c].pc = "done")
         /\ UNCHANGED <<nconn, who, sock, open, running, pending, idToSock, history>>
<1>1. Typed /\ c \in Thread
  BY ThreadFacts DEF IInv
<1>2. /\ "close" \in Pc /\ "done" \in Pc /\ Goto(c, IF c \in addrFrom THEN "close" ELSE "done")
      /\ th[c].pc = "end" /\ addrFrom' = addrFrom \ {c}
      /\ UNCHANGED <<nconn, who, sock, open, running, pending, idToSock, history>>
  BY DEF EndRecv, net, kernel, Pc
<1>3. CASE c \in addrFrom
  <2>1. Goto(c, "close")
    BY <1>2, <1>3
  <2> QED
    BY <1>1, <1>2, <1>3, <2>1, GotoFacts
<1>4. CASE c \notin addrFrom
  <2>1. Goto(c, "done")
    BY <1>2, <1>4
  <2> QED
    BY <1>1, <1>2, <1>4, <2>1, GotoFacts
<1> QED
  BY <1>3, <1>4

\* ... closes the handle ...
LEMMA CloseOwnFacts ==
  ASSUME IInv, NEW c \in 1..nconn, CloseOwn(c)
  PROVE  /\ th[c].pc = "close" /\ Only(c) /\ th'[c] \in ThreadState(c) /\ th'[c].pc = "report"
         /\ open' = [open EXCEPT ![sock[c]] = 0]
         /\ UNCHANGED <<nconn, who, sock, addrFrom, running, pending, idToSock, history>>
<1>1. Typed /\ c \in Thread
  BY ThreadFacts DEF IInv
<1> QED
  BY <1>1, GotoFacts DEF CloseOwn, net, kernel, Pc

\* ... and reports the end: a user with this handle loses its mapping.
LEMMA DisconnectFacts ==
  ASSUME IInv, NEW c \in 1..nconn, Disconnect(c)
  PROVE  /\ th[c].pc = "report" /\ Only(c) /\ th'[c] \in ThreadState(c) /\ th'[c].pc = "done"
         /\ \/ UNCHANGED <<idToSock, wronged>>
            \/ \E u \in User : /\ idToSock' = [idToSock EXCEPT ![u] = None]
                               /\ wronged' = wronged \cup ({login[u]} \ {c})
         /\ UNCHANGED <<nconn, who, sock, open, addrFrom, running, pending, login, got>>
<1>1. Typed /\ c \in Thread
  BY ThreadFacts DEF IInv
<1>2. Return(c, "done") /\ "done" \in Pc
  BY DEF Disconnect, Pc
<1>3. Only(c) /\ th'[c] \in ThreadState(c) /\ th'[c].pc = "done"
  BY <1>1, <1>2, ReturnFacts
<1>4. \/ UNCHANGED <<idToSock, wronged>>
      \/ \E u \in User : /\ idToSock' = [idToSock EXCEPT ![u] = None]
                         /\ wronged' = wronged \cup ({login[u]} \ {c})
  BY DEF Disconnect
<1> QED
  BY <1>3, <1>4 DEF Disconnect, net

\* A login: the map is overwritten.
LEMMA SetSocketFacts ==
  ASSUME IInv, NEW c \in 1..nconn, SetSocket(c)
  PROVE  /\ th[c].pc = "set" /\ Only(c) /\ th'[c] \in ThreadState(c)
         /\ th'[c].pc \in {"select", "find"}
         /\ th'[c].user = th[c].user /\ th'[c].todo = th[c].todo
         /\ th[c].user \in User
         /\ idToSock' = [idToSock EXCEPT ![th[c].user] = sock[c]]
         /\ login' = [login EXCEPT ![th[c].user] = open[sock[c]]]
         /\ UNCHANGED <<nconn, who, sock, open, addrFrom, running, pending, wronged, got>>
<1>1. Typed /\ c \in Thread
  BY ThreadFacts DEF IInv
<1>2. PICK l \in Pc : Goto(c, l) /\ l \in {"select", "find"}
  BY DEF SetSocket, Pc
<1>3. th[c].pc = "set" /\ th[c].user \in User
  BY UserFacts DEF SetSocket
<1>4. /\ Only(c) /\ th'[c] \in ThreadState(c) /\ th'[c].pc \in {"select", "find"}
      /\ th'[c].user = th[c].user /\ th'[c].todo = th[c].todo
  BY <1>1, <1>2, GotoFacts
<1> QED
  BY <1>3, <1>4 DEF SetSocket, net

\* A message is sent to the handle the map or an earlier look at it gave.
LEMMA SendFacts ==
  ASSUME IInv, NEW c \in 1..nconn, Resend(c) \/ Forward(c)
  PROVE  /\ Only(c) /\ th'[c] \in ThreadState(c)
         /\ \/ /\ th[c].pc = "resend" /\ th'[c].pc = "mark"
               /\ th'[c].user = th[c].user /\ th'[c].todo = th[c].todo
            \/ th[c].pc = "forward" /\ th'[c].pc = "recv"
         /\ \E m \in Msg : \E h \in Handle \cup {None} :
               Arrive(m, h) /\ (h \in Handle => Had(To[m], h))
         /\ UNCHANGED <<nconn, who, sock, open, addrFrom, running, pending, idToSock, login, wronged>>
<1>0. Typed /\ Handles /\ Routes
  BY DEF IInv
<1>1. c \in Conn /\ c \in Thread /\ th[c] \in ThreadState(c)
  BY <1>0, ThreadFacts
<1> DEFINE m == Oldest(th[c].todo)
<1>2. CASE Resend(c)
  <2> DEFINE h == idToSock[th[c].user]
  <2>1. th[c].pc = "resend" /\ Goto(c, "mark") /\ Arrive(m, h)
    BY <1>2 DEF Resend
  <2>2. m \in Msg /\ To[m] = th[c].user /\ th[c].user \in User
    BY <2>1, UserFacts
  <2>3. h \in Handle \cup {None} /\ (h # None => Had(To[m], h))
    BY <1>0, <2>2 DEF Typed, Routes, MapRoute
  <2>4. /\ Only(c) /\ th'[c] \in ThreadState(c) /\ th'[c].pc = "mark"
        /\ th'[c].user = th[c].user /\ th'[c].todo = th[c].todo
    BY <1>0, <1>1, <2>1, GotoFacts DEF Pc
  <2>5. UNCHANGED <<nconn, who, sock, open, addrFrom, running, pending, idToSock, login, wronged>>
    BY <1>2 DEF Resend, net, kernel
  <2> HIDE DEF m, h
  <2>6. h \in Handle => Had(To[m], h)
    BY <2>3, ConstantFacts
  <2> QED
    BY <2>1, <2>2, <2>3, <2>4, <2>5, <2>6
<1>3. CASE Forward(c)
  <2> DEFINE h == th[c].to
  <2>1. th[c].pc = "forward" /\ Return(c, "recv") /\ Arrive(m, h)
    BY <1>3 DEF Forward
  <2>2. m \in Msg /\ To[m] = th[c].user
    BY <2>1, UserFacts
  <2>3. h \in Handle \cup {None} /\ Had(To[m], h)
    BY <1>0, <1>1, <2>1, <2>2 DEF Routes, HandlerRoute, ThreadState
  <2>4. Only(c) /\ th'[c] \in ThreadState(c) /\ th'[c].pc = "recv"
    BY <1>0, <1>1, <2>1, ReturnFacts DEF Pc
  <2>5. UNCHANGED <<nconn, who, sock, open, addrFrom, running, pending, idToSock, login, wronged>>
    BY <1>3 DEF Forward, net, kernel
  <2> HIDE DEF m, h
  <2> QED
    BY <2>1, <2>2, <2>3, <2>4, <2>5
<1> QED
  BY <1>2, <1>3

\* An offline request.
LEMMA OfflineEraseFacts ==
  ASSUME IInv, NEW c \in 1..nconn, OfflineErase(c)
  PROVE  /\ th[c].pc = "erase" /\ Only(c) /\ th'[c] \in ThreadState(c)
         /\ th'[c].pc \in {"recv", "find"} /\ th'[c].todo = {}
         /\ \E u \in User :
               /\ idToSock' = [idToSock EXCEPT ![u] = None]
               /\ \/ login' = login /\ login[u] \in wronged' /\ wronged \subseteq wronged'
                  \/ login' = [login EXCEPT ![u] = 0] /\ wronged' = wronged
         /\ UNCHANGED <<nconn, who, sock, open, addrFrom, running, pending, got>>
<1>1. Typed /\ Routes /\ c \in Conn /\ c \in Thread
  BY ThreadFacts DEF IInv
<1>2. th[c].pc = "erase" /\ Erase(c, th[c].user, open[sock[c]], "recv")
  BY DEF OfflineErase
<1>3. th[c].user \in User /\ th[c].todo = {}
  BY <1>1, <1>2 DEF Routes, HandlerRoute
<1>4. /\ Only(c) /\ th'[c] \in ThreadState(c)
      /\ th'[c].pc \in {"recv", "find"} /\ th'[c].todo \subseteq th[c].todo
      /\ idToSock' = [idToSock EXCEPT ![th[c].user] = None]
      /\ \/ login' = login /\ login[th[c].user] \in wronged' /\ wronged \subseteq wronged'
         \/ login' = [login EXCEPT ![th[c].user] = 0] /\ wronged' = wronged
      /\ UNCHANGED <<net, open, running, pending, addrFrom, row, got>>
  BY <1>1, <1>2, <1>3, EraseFacts
<1> QED
  BY <1>2, <1>3, <1>4 DEF net

\* Steps of the receive threads.
LEMMA StepTypedThread ==
  ASSUME IInv, NEW c \in 1..nconn, Packets(c) \/ ThreadStep(c)
  PROVE  Typed' /\ KeepsHandles
<1>0. Typed /\ Handles /\ c \in Conn /\ c \in Thread /\ sock[c] \in Handle /\ 0 \in 0..MaxConn
  BY ThreadFacts, ConstantFacts DEF IInv
<1>1. CASE Packets(c) \/ Local(c)
  <2>1. /\ th[c].pc # "unborn" /\ Only(c) /\ th'[c] \in ThreadState(c)
        /\ UNCHANGED <<nconn, who, sock, open, pending, addrFrom, idToSock, history>>
    BY <1>1, PacketsFacts, LocalFacts
  <2> QED
    BY <1>0, <2>1, OnlyThread DEF history
<1>2. CASE EndRecv(c)
  <2>1. /\ th[c].pc # "unborn" /\ Only(c) /\ th'[c] \in ThreadState(c)
        /\ addrFrom' = addrFrom \ {c}
        /\ UNCHANGED <<nconn, who, sock, open, pending, idToSock, history>>
    BY <1>2, EndRecvFacts
  <2> QED
    BY <1>0, <2>1, OnlyFacts DEF history, Typed, KeepsHandles
<1>3. CASE CloseOwn(c)
  <2>1. /\ th[c].pc # "unborn" /\ Only(c) /\ th'[c] \in ThreadState(c)
        /\ open' = [open EXCEPT ![sock[c]] = 0]
        /\ UNCHANGED <<nconn, who, sock, pending, addrFrom, idToSock, history>>
    BY <1>3, CloseOwnFacts
  <2>2. open' \in [Handle -> 0..MaxConn] /\ \A h \in Handle : open'[h] \in {open[h], 0}
    BY <1>0, <2>1 DEF Typed
  <2> QED
    BY <1>0, <2>1, <2>2, OnlyFacts DEF history, Typed, KeepsHandles
<1>4. CASE Disconnect(c)
  <2>1. /\ th[c].pc # "unborn" /\ Only(c) /\ th'[c] \in ThreadState(c)
        /\ idToSock' = idToSock \/ \E u \in User : idToSock' = [idToSock EXCEPT ![u] = None]
        /\ UNCHANGED <<nconn, who, sock, open, pending, addrFrom, login, got>>
    BY <1>4, DisconnectFacts
  <2>2. idToSock' \in [User -> Handle \cup {None}]
    BY <1>0, <2>1 DEF Typed
  <2> QED
    BY <1>0, <2>1, <2>2, OnlyFacts DEF Typed, KeepsHandles
<1>5. CASE SetSocket(c)
  <2>1. /\ th[c].pc # "unborn" /\ Only(c) /\ th'[c] \in ThreadState(c) /\ th[c].user \in User
        /\ idToSock' = [idToSock EXCEPT ![th[c].user] = sock[c]]
        /\ login' = [login EXCEPT ![th[c].user] = open[sock[c]]]
        /\ UNCHANGED <<nconn, who, sock, open, pending, addrFrom, got>>
    BY <1>5, SetSocketFacts
  <2>2. idToSock' \in [User -> Handle \cup {None}] /\ login' \in [User -> 0..MaxConn]
    BY <1>0, <2>1 DEF Typed
  <2> QED
    BY <1>0, <2>1, <2>2, OnlyFacts DEF Typed, KeepsHandles
<1>6. CASE FindEntry(c) \/ Shut(c)
  BY <1>0, <1>6, StepTypedClose
<1>7. CASE Resend(c) \/ Forward(c)
  <2>1. /\ th[c].pc # "unborn" /\ Only(c) /\ th'[c] \in ThreadState(c)
        /\ \E m \in Msg : \E h \in Handle \cup {None} : Arrive(m, h)
        /\ UNCHANGED <<nconn, who, sock, open, pending, addrFrom, idToSock, login>>
    BY <1>7, SendFacts
  <2>2. got' \in [Msg -> SUBSET Conn]
    BY <1>0, <2>1, ArriveFacts
  <2> QED
    BY <1>0, <2>1, <2>2, OnlyFacts DEF Typed, KeepsHandles
<1>8. CASE OfflineErase(c)
  <2>1. PICK u \in User :
           /\ idToSock' = [idToSock EXCEPT ![u] = None]
           /\ login' = login \/ login' = [login EXCEPT ![u] = 0]
    BY <1>8, OfflineEraseFacts
  <2>2. /\ th[c].pc # "unborn" /\ Only(c) /\ th'[c] \in ThreadState(c)
        /\ UNCHANGED <<nconn, who, sock, open, pending, addrFrom, got>>
    BY <1>8, OfflineEraseFacts
  <2>3. idToSock' \in [User -> Handle \cup {None}] /\ login' \in [User -> 0..MaxConn]
    BY <1>0, <2>1 DEF Typed
  <2> QED
    BY <1>0, <2>2, <2>3, OnlyFacts DEF Typed, KeepsHandles
<1> QED
  BY <1>1, <1>2, <1>3, <1>4, <1>5, <1>6, <1>7, <1>8 DEF ThreadStep, Local

\* Every step keeps the types, and the handles or is an accept().
LEMMA StepTyped ==
  ASSUME IInv, Next
  PROVE  Typed' /\ (Accept \/ KeepsHandles)
BY StepTypedServer, StepTypedScan, StepTypedThread DEF Next

-----------------------------------------------------------------------------
(* Handles and who may close them.                                         *)

\* accept(): the new connection and its thread.
LEMMA AcceptFacts ==
  ASSUME IInv, Accept
  PROVE  \E h \in Handle :
           /\ nconn + 1 \in Conn /\ nconn' = nconn + 1 /\ open[h] = 0 /\ pending = 0
           /\ sock' = [sock EXCEPT ![nconn + 1] = h] /\ open' = [open EXCEPT ![h] = nconn + 1]
           /\ pending' = nconn + 1
           /\ Only(nconn + 1) /\ th[nconn + 1].pc = "unborn"
           /\ th'[nconn + 1].pc = "recv" /\ th'[nconn + 1].todo = {}
           /\ UNCHANGED <<who, addrFrom, idToSock, login, wronged, got>>
<1>0. Typed /\ Handles
  BY DEF IInv
<1>1. PICK h \in Handle :
        /\ nconn + 1 \in Conn /\ nconn' = nconn + 1 /\ open[h] = 0 /\ pending = 0
        /\ sock' = [sock EXCEPT ![nconn + 1] = h] /\ open' = [open EXCEPT ![h] = nconn + 1]
        /\ pending' = nconn + 1 /\ Return(nconn + 1, "recv")
        /\ UNCHANGED <<who, addrFrom, idToSock, login, wronged, got>>
  BY DEF Accept, kernel, history
<1>2. nconn + 1 \in Thread /\ "recv" \in Pc
  BY <1>1, ConstantFacts DEF Pc
<1>3. Only(nconn + 1) /\ th'[nconn + 1].pc = "recv" /\ th'[nconn + 1].todo = {}
  BY <1>0, <1>1, <1>2, ReturnFacts
<1>4. th[nconn + 1].pc = "unborn"
  <2>1. nconn + 1 > nconn
    BY <1>0 DEF Typed
  <2> QED
    BY <1>0, <1>1, <2>1 DEF Handles
<1> QED
  BY <1>1, <1>3, <1>4

\* A handle stands for the last connection that got it, after every step.
LEMMA HandlesStep ==
  ASSUME IInv, Next
  PROVE  Handles'
<1>0. Typed /\ Handles /\ nconn \in Nat /\ Typed'
  BY ConstantFacts, StepTyped DEF IInv, Typed
<1>1. CASE KeepsHandles
  <2>1. UNCHANGED <<nconn, sock>> /\ pending' <= nconn
    BY <1>0, <1>1 DEF KeepsHandles, Handles
  <2>2. \A c \in Conn : c > nconn => th'[c].pc = "unborn" /\ c \notin addrFrom'
    <3>1. ASSUME NEW c \in Conn, c > nconn
          PROVE  c # pending /\ th'[c] = th[c] /\ th[c].pc = "unborn" /\ c \notin addrFrom
      <4>1. pending \in Int /\ c \in Int /\ pending <= nconn
        BY <1>0, ConstantFacts DEF Typed, Handles
      <4> QED
        BY <1>0, <1>1, <3>1, <4>1 DEF KeepsHandles, Handles
    <3> QED
      BY <1>1, <3>1 DEF KeepsHandles
  <2>3. \A h \in Handle : open'[h] # 0 => open'[h] = open[h]
    BY <1>1 DEF KeepsHandles
  <2> QED
    BY <1>0, <2>1, <2>2, <2>3 DEF Handles
<1>2. CASE Accept
  <2>1. PICK h \in Handle :
           /\ nconn + 1 \in Conn /\ nconn' = nconn + 1
           /\ sock' = [sock EXCEPT ![nconn + 1] = h] /\ open' = [open EXCEPT ![h] = nconn + 1]
           /\ pending' = nconn + 1 /\ Only(nconn + 1) /\ addrFrom' = addrFrom
    BY <1>2, AcceptFacts
  <2>2. /\ sock'[nconn + 1] = h /\ open'[h] = nconn + 1
        /\ \A c \in 1..nconn : sock'[c] = sock[c]
        /\ \A g \in Handle \ {h} : open'[g] = open[g]
    BY <1>0, <2>1, ConstantFacts DEF Typed, Conn
  <2>3. \A c \in 1..nconn' : c = nconn + 1 \/ c \in 1..nconn
    BY <1>0, <2>1
  <2>4. \A c \in 1..nconn' : sock'[c] \in Handle
    BY <1>0, <2>2, <2>3 DEF Handles
  <2>5. \A c \in Conn : c > nconn' => th'[c].pc = "unborn" /\ c \notin addrFrom'
    BY <1>0, <2>1, ConstantFacts DEF Handles, Only
  <2>6. ASSUME NEW g \in Handle, open'[g] # 0
        PROVE  /\ open'[g] <= nconn' /\ sock'[open'[g]] = g
               /\ \A c \in 1..nconn' : sock'[c] = g => c <= open'[g]
    <3>1. CASE g = h
      BY <1>0, <2>1, <2>2, <3>1
    <3>2. CASE g # h
      <4>1. open'[g] = open[g] /\ open[g] \in 1..nconn /\ sock[open[g]] = g
        BY <1>0, <2>2, <2>6, <3>2 DEF Handles, Typed
      <4>2. \A c \in 1..nconn' : sock'[c] = g => c \in 1..nconn
        BY <2>2, <2>3, <3>2
      <4> QED
        BY <1>0, <2>1, <2>2, <4>1, <4>2 DEF Handles
    <3> QED
      BY <3>1, <3>2
  <2> QED
    BY <1>0, <2>1, <2>4, <2>5, <2>6 DEF Handles
<1> QED
  BY <1>1, <1>2, StepTyped

\* A step that closes nothing and begins no close.
KeepsClosers ==
  /\ UNCHANGED <<nconn, sock, open, pending, addrFrom>>
  /\ \A t \in Thread : th'[t].pc \in {"close", "shut"} => th'[t] = th[t]

\* Such a step changes nothing about who may close.
LEMMA KeepsClosersFacts ==
  ASSUME IInv, KeepsClosers
  PROVE  Closers'
<1>0. Typed /\ Handles /\ Closers
  BY DEF IInv
<1>1. \A c \in Conn : c \in Thread
  BY ConstantFacts
<1>2. \A c \in 1..nconn : c \in Thread
  BY <1>0, ThreadFacts
<1> QED
  BY <1>0, <1>1, <1>2 DEF Closers, KeepsClosers

\* ... as a step of one thread is that does not get there.
LEMMA OnlyCloses ==
  ASSUME NEW t \in Thread, Only(t), th'[t].pc \notin {"close", "shut"},
         UNCHANGED <<nconn, sock, open, pending, addrFrom>>
  PROVE  KeepsClosers
BY DEF Only, KeepsClosers

\* accept() and the entry for the connection.
LEMMA ClosersAccept ==
  ASSUME IInv, Accept \/ Record
  PROVE  Closers'
<1>0. Typed /\ Handles /\ Closers /\ nconn \in Nat
  BY ConstantFacts DEF IInv, Typed
<1>a. /\ \A c \in Conn : c \in Thread
      /\ \A c \in 1..nconn : c \in Thread /\ c \in Conn
  BY <1>0, ThreadFacts, ConstantFacts
<1>1. CASE Accept
  <2> DEFINE n == nconn + 1
  <2>1. PICK h \in Handle :
           /\ n \in Conn /\ nconn' = n /\ open[h] = 0 /\ pending = 0
           /\ sock' = [sock EXCEPT ![n] = h] /\ open' = [open EXCEPT ![h] = n]
           /\ pending' = n /\ Only(n) /\ th[n].pc = "unborn" /\ th'[n].pc = "recv"
           /\ addrFrom' = addrFrom
    BY <1>1, AcceptFacts
  <2>2. \A c \in 1..nconn : c # n /\ c \in 1..nconn'
    BY <1>0, <2>1
  <2> HIDE DEF n
  <2>3. /\ sock'[n] = h /\ open'[h] = n
        /\ \A c \in 1..nconn : sock'[c] = sock[c]
        /\ \A g \in Handle : open[g] # 0 => open'[g] = open[g]
    BY <1>0, <2>1, <2>2, <1>a DEF Typed
  <2>4. \A c \in Conn : c \in addrFrom \/ th[c].pc = "close" => c \in 1..nconn /\ c # 0
    <3>1. \A c \in Conn : c \in addrFrom => c \in 1..nconn
      BY <1>0, ConstantFacts DEF Handles
    <3> QED
      BY <1>0, <3>1, ConstantFacts, ThreadFacts
  <2>5. \A c \in addrFrom : open'[sock'[c]] = c /\ c # n
    <3>1. \A c \in addrFrom : c \in 1..nconn /\ c # 0 /\ open[sock[c]] = c /\ sock[c] \in Handle
      BY <1>0, <2>4, ThreadFacts DEF Closers, Typed
    <3> QED
      BY <2>2, <2>3, <3>1
  <2>6. \A t \in Thread : th'[t].pc \in {"close", "shut"} => th'[t] = th[t] /\ t # n
    BY <2>1 DEF Only
  <2>7. ASSUME NEW c \in Conn, th'[c].pc = "close"
        PROVE  open'[sock'[c]] = c /\ c # n /\ c \notin addrFrom
    <3>1. th[c].pc = "close"
      BY <2>6, <2>7, <1>a
    <3>2. c \in 1..nconn /\ c # 0 /\ open[sock[c]] = c /\ sock[c] \in Handle /\ c \notin addrFrom
      BY <1>0, <2>4, <3>1, ThreadFacts DEF Closers
    <3> QED
      BY <2>2, <2>3, <3>2
  <2>8. ASSUME NEW t \in Thread, th'[t].pc = "shut"
        PROVE  /\ th'[t].aim \in 1..nconn' /\ sock'[th'[t].aim] = th'[t].to
               /\ open'[th'[t].to] = th'[t].aim
               /\ th'[t].aim # n /\ th'[t].aim \notin addrFrom
               /\ th'[th'[t].aim].pc # "close"
    <3> DEFINE a == th[t].aim
    <3>1. th'[t] = th[t] /\ th[t].pc = "shut"
      BY <2>6, <2>8
    <3>2. /\ a \in 1..nconn /\ sock[a] = th[t].to /\ open[th[t].to] = a /\ a \notin addrFrom
          /\ th[a].pc # "close"
      BY <1>0, <3>1 DEF Closers
    <3>3. a # 0 /\ sock[a] \in Handle
      BY <1>0, <3>2, ThreadFacts
    <3>4. th'[a].pc # "close"
      BY <2>6, <3>2, <1>a
    <3> HIDE DEF a
    <3>5. th'[t].aim = a /\ th'[t].to = th[t].to
      BY <3>1 DEF a
    <3> QED
      BY <2>2, <2>3, <3>2, <3>3, <3>4, <3>5
  <2>9. \A s, t \in Thread : th'[s].pc = "shut" /\ th'[t].pc = "shut" /\ th'[s].aim = th'[t].aim => s = t
    BY <1>0, <2>6 DEF Closers
  <2> QED
    BY <2>1, <2>3, <2>5, <2>7, <2>8, <2>9 DEF Closers
<1>2. CASE Record
  <2>1. /\ addrFrom' = addrFrom \cup {pending} /\ pending' = 0 /\ pending # 0
        /\ UNCHANGED <<nconn, sock, open, th>>
    BY <1>2 DEF Record, net
  <2>2. \A c \in Conn : c # 0
    BY ConstantFacts
  <2>3. \A c \in 1..nconn : c # 0
    BY <1>0
  <2>4. \A c \in addrFrom' : open[sock[c]] = c /\ c # 0
    BY <1>0, <2>1, <2>2 DEF Closers, Typed
  <2> QED
    BY <1>0, <2>1, <2>2, <2>3, <2>4 DEF Closers
<1> QED
  BY <1>1, <1>2

\* The thread that takes an entry out may close from then on.
LEMMA ClosersTake ==
  ASSUME IInv, NEW t \in Thread, FindEntry(t) \/ (t \in 1..nconn /\ EndRecv(t))
  PROVE  Closers'
<1>0. Typed /\ Handles /\ Closers /\ nconn \in Nat
  BY ConstantFacts DEF IInv, Typed
<1>a. /\ \A c \in Conn : c \in Thread
      /\ \A c \in 1..nconn : c \in Thread /\ c \in Conn
  BY <1>0, ThreadFacts, ConstantFacts
<1>b. \A c \in addrFrom : c \in 1..nconn /\ c \in Thread
  BY <1>0, ThreadFacts
<1>1. CASE t \in 1..nconn /\ EndRecv(t)
  <2>1. /\ Only(t) /\ addrFrom' = addrFrom \ {t}
        /\ (t \in addrFrom /\ th'[t].pc = "close") \/ (t \notin addrFrom /\ th'[t].pc = "done")
        /\ UNCHANGED <<nconn, sock, open, pending>>
    BY <1>1, EndRecvFacts
  <2>2. ASSUME NEW c \in Conn, th'[c].pc = "close"
        PROVE  open[sock[c]] = c /\ c # pending /\ c \notin addrFrom'
    <3>1. CASE c = t
      BY <1>0, <2>1, <2>2, <3>1 DEF Closers
    <3>2. CASE c # t
      BY <1>0, <2>1, <2>2, <3>2, <1>a DEF Closers, Only
    <3> QED
      BY <3>1, <3>2
  <2>3. \A s \in Thread : th'[s].pc = "shut" => th'[s] = th[s] /\ s # t
    BY <2>1 DEF Only
  <2>4. ASSUME NEW s \in Thread, th[s].pc = "shut"
        PROVE  th'[th[s].aim].pc # "close"
    <3>1. th[s].aim \in 1..nconn /\ th[s].aim \notin addrFrom /\ th[th[s].aim].pc # "close"
      BY <1>0, <2>4 DEF Closers
    <3>2. CASE th[s].aim = t
      BY <2>1, <3>1, <3>2
    <3>3. CASE th[s].aim # t
      BY <2>1, <3>1, <3>3, <1>a DEF Only
    <3> QED
      BY <3>2, <3>3
  <2> QED
    BY <1>0, <2>1, <2>2, <2>3, <2>4 DEF Closers
<1>2. CASE FindEntry(t)
  <2>1. CASE th'[t].pc = th[t].after /\ addrFrom' = addrFrom
    <3>1. th[t].after \in {"recv", "select", "scan"}
      BY <1>0 DEF Typed, ThreadState
    <3>2. Only(t) /\ UNCHANGED <<nconn, sock, open, pending, addrFrom>>
      BY <1>2, <2>1, FindFacts DEF net
    <3>3. th'[t].pc \notin {"close", "shut"}
      BY <2>1, <3>1
    <3> QED
      BY <3>2, <3>3, OnlyCloses, KeepsClosersFacts
  <2>2. CASE ~(th'[t].pc = th[t].after /\ addrFrom' = addrFrom)
    <3> DEFINE a == th'[t].aim
    <3>1. /\ Only(t) /\ th'[t].pc = "shut" /\ th'[t].to = th[t].to
          /\ a \in addrFrom /\ sock[a] = th[t].to /\ addrFrom' = addrFrom \ {a}
          /\ UNCHANGED <<nconn, sock, open, pending>>
      BY <1>2, <2>2, FindFacts DEF net
    <3> HIDE DEF a
    <3>2. a \in 1..nconn /\ a \in Thread /\ open[sock[a]] = a /\ a # pending /\ th[a].pc # "close"
      BY <1>0, <1>b, <3>1 DEF Closers, Typed
    <3>3. \A s \in Thread : s # t => th'[s] = th[s]
      BY <3>1 DEF Only
    <3>4. \A s \in Thread : th'[s].pc = "close" => th[s].pc = "close" /\ s # t
      BY <3>1, <3>3
    <3>5. \A s \in Thread : s # t /\ th'[s].pc = "shut" => th[s].aim \notin addrFrom
      BY <1>0, <3>3 DEF Closers
    <3>6. ASSUME NEW s \in Thread, th'[s].pc = "shut"
          PROVE  /\ th'[s].aim \in 1..nconn /\ sock[th'[s].aim] = th'[s].to
                 /\ open[th'[s].to] = th'[s].aim
                 /\ th'[s].aim # pending /\ th'[s].aim \notin addrFrom'
                 /\ th'[th'[s].aim].pc # "close"
      <4>1. CASE s = t
        <5>1. th'[a].pc # "close"
          BY <3>2, <3>4
        <5> QED
          BY <3>1, <3>2, <4>1, <5>1 DEF a
      <4>2. CASE s # t
        <5>1. th'[s] = th[s] /\ th[s].pc = "shut"
          BY <3>3, <3>6, <4>2
        <5>2. /\ th[s].aim \in 1..nconn /\ sock[th[s].aim] = th[s].to
              /\ open[th[s].to] = th[s].aim
              /\ th[s].aim # pending /\ th[s].aim \notin addrFrom
              /\ th[th[s].aim].pc # "close"
          BY <1>0, <5>1 DEF Closers
        <5>3. th'[th[s].aim].pc # "close"
          BY <1>a, <3>4, <5>2
        <5> QED
          BY <3>1, <5>1, <5>2, <5>3
      <4> QED
        BY <4>1, <4>2
    <3>7. \A r, s \in Thread : th'[r].pc = "shut" /\ th'[s].pc = "shut" /\ th'[r].aim = th'[s].aim => r = s
      <4>1. \A s \in Thread : s # t /\ th'[s].pc = "shut" => th'[s].aim # a
        BY <3>1, <3>3, <3>5
      <4> QED
        BY <1>0, <3>3, <4>1 DEF Closers, a
    <3>8. \A c \in Conn : th'[c].pc = "close" => open[sock[c]] = c /\ c # pending /\ c \notin addrFrom'
      BY <1>0, <1>a, <3>1, <3>4 DEF Closers
    <3>9. /\ pending # 0 => open[sock[pending]] = pending
          /\ \A c \in addrFrom' : open[sock[c]] = c /\ c # pending
      BY <1>0, <3>1 DEF Closers
    <3> QED
      BY <3>1, <3>6, <3>7, <3>8, <3>9 DEF Closers
  <2> QED
    BY <2>1, <2>2
<1> QED
  BY <1>1, <1>2

\* The handle that was closed was nobody else's.
LEMMA ClosersClose ==
  ASSUME IInv, NEW t \in Thread, NEW k \in Conn, Only(t), th'[t].pc \notin {"close", "shut"},
         open[sock[k]] = k, sock[k] \in Handle, open' = [open EXCEPT ![sock[k]] = 0],
         UNCHANGED <<nconn, sock, pending, addrFrom>>,
         k # pending, k \notin addrFrom,
         \A c \in Conn : c # t /\ th[c].pc = "close" => c # k,
         \A s \in Thread : s # t /\ th[s].pc = "shut" => th[s].aim # k
  PROVE  Closers'
<1>0. Typed /\ Handles /\ Closers /\ nconn \in Nat
  BY ConstantFacts DEF IInv, Typed
<1>a. /\ \A c \in Conn : c \in Thread
      /\ \A c \in 1..nconn : c \in Thread /\ c \in Conn
  BY <1>0, ThreadFacts, ConstantFacts
<1>1. \A h \in Handle : open[h] # k => open'[h] = open[h]
  BY <1>0 DEF Typed
<1>2. \A s \in Thread : th'[s].pc \in {"close", "shut"} => th'[s] = th[s] /\ s # t
  BY DEF Only
<1>3. pending # 0 => open'[sock[pending]] = pending
  <2>1. pending # 0 => pending \in 1..nconn
    BY <1>0 DEF Handles, Typed
  <2> QED
    BY <1>0, <1>1, <2>1, ThreadFacts DEF Closers
<1>4. \A c \in addrFrom : open'[sock[c]] = c /\ c # pending
  <2>1. \A c \in addrFrom : c \in 1..nconn
    BY <1>0, ThreadFacts
  <2> QED
    BY <1>0, <1>1, <2>1, ThreadFacts DEF Closers
<1>5. ASSUME NEW c \in Conn, th'[c].pc = "close"
      PROVE  open'[sock[c]] = c /\ c # pending /\ c \notin addrFrom
  <2>1. th[c].pc = "close" /\ c # t
    BY <1>2, <1>5, <1>a
  <2>2. open[sock[c]] = c /\ c # pending /\ c \notin addrFrom /\ c # k /\ sock[c] \in Handle
    BY <1>0, <2>1, ThreadFacts DEF Closers
  <2> QED
    BY <1>1, <2>2
<1>6. ASSUME NEW s \in Thread, th'[s].pc = "shut"
      PROVE  /\ th'[s].aim \in 1..nconn /\ sock[th'[s].aim] = th'[s].to
             /\ open'[th'[s].to] = th'[s].aim
             /\ th'[s].aim # pending /\ th'[s].aim \notin addrFrom
             /\ th'[th'[s].aim].pc # "close"
  <2>1. th'[s] = th[s] /\ th[s].pc = "shut" /\ s # t
    BY <1>2, <1>6
  <2>2. /\ th[s].aim \in 1..nconn /\ sock[th[s].aim] = th[s].to
        /\ open[th[s].to] = th[s].aim
        /\ th[s].aim # pending /\ th[s].aim \notin addrFrom
        /\ th[th[s].aim].pc # "close"
    BY <1>0, <2>1 DEF Closers
  <2>3. th'[th[s].aim].pc # "close"
    BY <1>a, <1>2, <2>2
  <2>4. th[s].aim # k /\ th[s].to \in Handle
    BY <1>0, <2>1, <2>2, ThreadFacts
  <2> QED
    BY <1>1, <2>1, <2>2, <2>3, <2>4
<1>7. \A r, s \in Thread : th'[r].pc = "shut" /\ th'[s].pc = "shut" /\ th'[r].aim = th'[s].aim => r = s
  BY <1>0, <1>2 DEF Closers
<1> QED
  BY <1>3, <1>4, <1>5, <1>6, <1>7 DEF Closers

\* CloseOwn closes its own connection, Shut the one whose entry it took out.
LEMMA ClosersOwn ==
  ASSUME IInv, NEW t \in Thread, Shut(t) \/ (t \in 1..nconn /\ CloseOwn(t))
  PROVE  Closers'
<1>0. Typed /\ Handles /\ Closers
  BY DEF IInv
<1>a. \A c \in 1..nconn : c \in Thread /\ c \in Conn /\ sock[c] \in Handle
  BY <1>0, ThreadFacts
<1>1. CASE t \in 1..nconn /\ CloseOwn(t)
  <2>1. /\ th[t].pc = "close" /\ Only(t) /\ th'[t].pc = "report"
        /\ open' = [open EXCEPT ![sock[t]] = 0]
        /\ UNCHANGED <<nconn, sock, pending, addrFrom>>
    BY <1>1, CloseOwnFacts
  <2>2. t \in Conn /\ sock[t] \in Handle /\ open[sock[t]] = t /\ t # pending /\ t \notin addrFrom
    BY <1>0, <1>1, <1>a, <2>1 DEF Closers
  <2>3. \A s \in Thread : s # t /\ th[s].pc = "shut" => th[s].aim # t
    BY <1>0, <2>1 DEF Closers
  <2>4. th'[t].pc \notin {"close", "shut"}
    BY <2>1
  <2> QED
    BY <2>1, <2>2, <2>3, <2>4, ClosersClose
<1>2. CASE Shut(t)
  <2> DEFINE k == th[t].aim
  <2>1. /\ th[t].pc = "shut" /\ Only(t) /\ th'[t].pc = th[t].after
        /\ open' = [open EXCEPT ![th[t].to] = 0]
        /\ UNCHANGED <<nconn, sock, pending, addrFrom>>
    BY <1>2, ShutFacts DEF net
  <2>2. th[t].after \in {"recv", "select", "scan"}
    BY <1>0 DEF Typed, ThreadState
  <2>3. /\ k \in 1..nconn /\ sock[k] = th[t].to /\ open[th[t].to] = k
        /\ k # pending /\ k \notin addrFrom /\ th[k].pc # "close"
    BY <1>0, <2>1 DEF Closers
  <2>4. \A s \in Thread : s # t /\ th[s].pc = "shut" => th[s].aim # k
    BY <1>0, <2>1 DEF Closers
  <2>5. th'[t].pc \notin {"close", "shut"}
    BY <2>1, <2>2
  <2> HIDE DEF k
  <2>6. k \in Conn /\ sock[k] \in Handle /\ open[sock[k]] = k /\ open' = [open EXCEPT ![sock[k]] = 0]
    BY <1>a, <2>1, <2>3
  <2>7. \A c \in Conn : c # t /\ th[c].pc = "close" => c # k
    BY <2>3
  <2> QED
    BY <2>1, <2>3, <2>4, <2>5, <2>6, <2>7, ClosersClose
<1> QED
  BY <1>1, <1>2

\* Who may close is one of these at most, after every step.
LEMMA ClosersStep ==
  ASSUME IInv, Next
  PROVE  Closers'
<1>0. Typed /\ Handles /\ Closers /\ Scanner \in Thread
  BY ConstantFacts DEF IInv
<1>a. \A c \in 1..nconn : c \in Thread /\ c \in Conn
  BY <1>0, ThreadFacts
<1>1. CASE Accept \/ Record
  BY <1>1, ClosersAccept
<1>2. CASE Gone \/ Age \/ JoinAll
  <2>1. UNCHANGED <<nconn, sock, open, pending, addrFrom, th>>
    BY <1>2 DEF Gone, Age, JoinAll, net
  <2> QED
    BY <2>1, KeepsClosersFacts DEF KeepsClosers
<1>3. CASE CloseServer
  <2>1. UNCHANGED <<nconn, sock, open, pending, addrFrom>> /\ Goto(Scanner, "done")
    BY <1>3 DEF CloseServer
  <2>2. Only(Scanner) /\ th'[Scanner].pc = "done"
    BY <1>0, <2>1, GotoFacts DEF Pc
  <2> QED
    BY <1>0, <2>1, <2>2, OnlyCloses, KeepsClosersFacts
<1>4. CASE CloseAll
  <2>1. /\ UNCHANGED <<nconn, sock, pending, th>> /\ pending = 0 /\ addrFrom' = {}
        /\ open' = [h \in Handle |-> IF open[h] \in addrFrom THEN 0 ELSE open[h]]
    BY <1>4 DEF CloseAll, net
  <2>2. \A h \in Handle : open[h] \notin addrFrom => open'[h] = open[h]
    BY <2>1
  <2>3. \A c \in Conn : th[c].pc = "close" => sock[c] \in Handle
    BY <1>0, ThreadFacts
  <2>4. \A t \in Thread : th[t].pc = "shut" => th[t].to \in Handle
    BY <1>0, ThreadFacts DEF Closers
  <2> QED
    BY <1>0, <2>1, <2>2, <2>3, <2>4 DEF Closers
<1>5. CASE FindEntry(Scanner) \/ Shut(Scanner)
  BY <1>0, <1>5, ClosersTake, ClosersOwn
<1>6. CASE Collect \/ ScanErase \/ ScanEnds
  <2>1. CASE Collect
    <3>1. /\ UNCHANGED <<nconn, sock, open, pending, addrFrom>>
          /\ \/ th' = th
             \/ \E ms : th' = [th EXCEPT ![Scanner] = [At("scan") EXCEPT !.todo = ms]]
      BY <2>1 DEF Collect, net
    <3>2. CASE th' = th
      BY <3>1, <3>2, KeepsClosersFacts DEF KeepsClosers
    <3>3. CASE \E ms : th' = [th EXCEPT ![Scanner] = [At("scan") EXCEPT !.todo = ms]]
      <4>1. PICK ms : th' = [th EXCEPT ![Scanner] = [At("scan") EXCEPT !.todo = ms]]
        BY <3>3
      <4>2. th'[Scanner] = [At("scan") EXCEPT !.todo = ms] /\ Only(Scanner)
        BY <1>0, <4>1, SetFacts
      <4>3. th'[Scanner].pc = "scan"
        BY <4>2 DEF At
      <4> QED
        BY <1>0, <3>1, <4>2, <4>3, OnlyCloses, KeepsClosersFacts
    <3> QED
      BY <3>1, <3>2, <3>3
  <2>2. CASE ScanErase
    <3>1. PICK p \in th[Scanner].todo : Erase(Scanner, p[1], p[2], "scan")
      BY <2>2 DEF ScanErase
    <3>2. th[Scanner].todo \in SUBSET (User \X (0..MaxConn))
      BY <1>0, ThreadFacts, ConstantFacts
    <3>3. p[1] \in User
      BY <3>1, <3>2
    <3>4. /\ Only(Scanner) /\ th'[Scanner].pc \in {"scan", "find"}
          /\ UNCHANGED <<net, open, pending, addrFrom>>
      BY <1>0, <3>1, <3>3, EraseFacts
    <3> QED
      BY <1>0, <3>4, OnlyCloses, KeepsClosersFacts DEF net
  <2>3. CASE ScanEnds
    <3>1. UNCHANGED <<nconn, sock, open, pending, addrFrom>> /\ Return(Scanner, "sleep")
      BY <2>3 DEF ScanEnds, net
    <3>2. Only(Scanner) /\ th'[Scanner].pc = "sleep"
      BY <1>0, <3>1, ReturnFacts DEF Pc
    <3> QED
      BY <1>0, <3>1, <3>2, OnlyCloses, KeepsClosersFacts
  <2> QED
    BY <1>6, <2>1, <2>2, <2>3
<1>7. ASSUME NEW c \in 1..nconn, Packets(c) \/ ThreadStep(c)
      PROVE  Closers'
  <2>1. CASE FindEntry(c) \/ Shut(c) \/ EndRecv(c) \/ CloseOwn(c)
    BY <1>a, <2>1, ClosersTake, ClosersOwn
  <2>2. CASE \/ Packets(c) \/ Local(c) \/ Disconnect(c) \/ SetSocket(c) \/ Resend(c) \/ Forward(c)
             \/ OfflineErase(c)
    <3>1. /\ Only(c) /\ th'[c].pc \notin {"close", "shut"}
          /\ UNCHANGED <<nconn, sock, open, pending, addrFrom>>
      <4>1. CASE Packets(c)
        BY <4>1, PacketsFacts
      <4>2. CASE Local(c)
        BY <4>2, LocalFacts
      <4>3. CASE Disconnect(c)
        BY <4>3, DisconnectFacts
      <4>4. CASE SetSocket(c)
        BY <4>4, SetSocketFacts
      <4>5. CASE Resend(c) \/ Forward(c)
        BY <4>5, SendFacts
      <4>6. CASE OfflineErase(c)
        BY <4>6, OfflineEraseFacts
      <4> QED
        BY <2>2, <4>1, <4>2, <4>3, <4>4, <4>5, <4>6
    <3> QED
      BY <1>a, <3>1, OnlyCloses, KeepsClosersFacts
  <2> QED
    BY <1>7, <2>1, <2>2 DEF ThreadStep, Local
<1> QED
  BY <1>1, <1>2, <1>3, <1>4, <1>5, <1>6, <1>7 DEF Next, Closing, ScanStep

-----------------------------------------------------------------------------
(* The map from users to handles, and where messages arrive.               *)

\* A step seen from the map: one thread moves, which was not at its end; a mapping or a
\* login that changes is in order afterwards; a message arrives where a handle leads
\* that its receiver had.
Moves(t) ==
  /\ Only(t) /\ (t \in Conn => th[t].pc # "done" /\ HandlerRoute(t)')
  /\ wronged \subseteq wronged'
  /\ \A u \in User : (idToSock'[u] = idToSock[u] /\ login'[u] = login[u]) \/ (MapRoute(u)' /\ FoundFor(u)')
  /\ \A m \in Msg : \A d \in got'[m] :
        d \in got[m] \/ \E h \in Handle : d = open[h] /\ d # 0 /\ Had(To[m], h)

\* Connections keep their users and handles.
LEMMA KeptFacts ==
  ASSUME IInv, Next
  PROVE  /\ nconn \in Nat /\ nconn' \in Nat /\ nconn <= nconn' /\ who' = who
         /\ \A c \in 1..nconn : c \in 1..nconn' /\ sock'[c] = sock[c]
         /\ \A u, h : Had(u, h) => Had(u, h)'
<1>0. Typed /\ Typed' /\ (Accept \/ KeepsHandles)
  BY StepTyped DEF IInv
<1>1. /\ nconn \in Nat /\ nconn' \in Nat /\ nconn <= nconn' /\ who' = who
      /\ \A c \in 1..nconn : c \in 1..nconn' /\ sock'[c] = sock[c]
  <2>1. CASE KeepsHandles
    BY <1>0, <2>1 DEF KeepsHandles, Typed
  <2>2. CASE Accept
    <3>1. /\ nconn + 1 \in Conn /\ nconn' = nconn + 1 /\ who' = who
          /\ \E h \in Handle : sock' = [sock EXCEPT ![nconn + 1] = h]
      BY <2>2, AcceptFacts
    <3>2. nconn \in Nat /\ \A c \in 1..nconn : c \in Conn /\ c # nconn + 1
      BY <1>0, ConstantFacts DEF Typed, Conn
    <3> QED
      BY <1>0, <3>1, <3>2 DEF Typed
  <2> QED
    BY <1>0, <2>1, <2>2
<1> QED
  BY <1>1 DEF Had

\* After such a move the map, the logins and what arrived are in order.
LEMMA MovesFacts ==
  ASSUME IInv, Next, NEW t \in Thread, Moves(t)
  PROVE  Routes' /\ Found' /\ Delivered' /\ MisdeliveredOnlyByReuse'
<1>0. Typed /\ Handles /\ Routes /\ Found /\ Delivered /\ MisdeliveredOnlyByReuse /\ Typed'
  BY StepTyped DEF IInv
<1>1. /\ nconn \in Nat /\ nconn' \in Nat /\ nconn <= nconn' /\ who' = who
      /\ \A c \in 1..nconn : c \in 1..nconn' /\ sock'[c] = sock[c]
      /\ \A u, h : Had(u, h) => Had(u, h)'
  BY KeptFacts
<1>2. \A c \in Conn : c # t => th'[c] = th[c]
  BY ConstantFacts DEF Moves, Only
<1>3. ASSUME NEW c \in Conn
      PROVE  HandlerRoute(c)'
  <2>1. CASE c = t
    BY <2>1 DEF Moves
  <2>2. CASE c # t
    <3>1. th'[c] = th[c] /\ HandlerRoute(c)
      BY <1>0, <1>2, <2>2 DEF Routes
    <3>2. CASE c \in 1..nconn
      BY <1>1, <3>1, <3>2 DEF HandlerRoute
    <3>3. CASE c \notin 1..nconn
      <4>1. th'[c].pc = "unborn"
        BY <1>0, <3>1, <3>3, ThreadFacts
      <4> QED
        BY <4>1 DEF HandlerRoute
    <3> QED
      BY <3>2, <3>3
  <2> QED
    BY <2>1, <2>2
<1>4. ASSUME NEW u \in User
      PROVE  MapRoute(u)' /\ FoundFor(u)'
  <2>1. CASE MapRoute(u)' /\ FoundFor(u)'
    BY <2>1
  <2>2. CASE idToSock'[u] = idToSock[u] /\ login'[u] = login[u]
    <3>1. MapRoute(u) /\ FoundFor(u)
      BY <1>0 DEF Routes, Found
    <3>2. MapRoute(u)'
      BY <1>1, <2>2, <3>1 DEF MapRoute
    <3>3. CASE login[u] # 0
      <4>1. login[u] \in 1..nconn
        BY <1>0, <1>1, <3>1, <3>3 DEF FoundFor, Typed
      <4>2. login[u] \in Conn
        BY <1>0, <4>1, ThreadFacts
      <4>3. th[login[u]].pc = "done" => th'[login[u]].pc = "done"
        BY <1>2, <4>2 DEF Moves
      <4>4. login[u] <= nconn' /\ sock'[login[u]] = sock[login[u]]
        BY <1>1, <4>1
      <4> QED
        BY <2>2, <3>1, <3>2, <3>3, <4>3, <4>4 DEF FoundFor, Moves
    <3>4. CASE login[u] = 0
      BY <2>2, <3>2, <3>4 DEF FoundFor
    <3> QED
      BY <3>3, <3>4
  <2> QED
    BY <2>1, <2>2 DEF Moves
<1>5. ASSUME NEW m \in Msg, NEW d \in got'[m]
      PROVE  /\ d <= nconn'
             /\ who'[d] # To[m] => \E c \in 1..(d - 1) : who'[c] = To[m] /\ sock'[c] = sock'[d]
  <2>1. CASE d \in got[m]
    <3>1. d \in 1..nconn
      BY <1>0, <1>1, <2>1, ConstantFacts DEF Delivered, Typed
    <3>2. who[d] # To[m] => \E c \in 1..(d - 1) : who[c] = To[m] /\ sock[c] = sock[d]
      BY <1>0, <2>1 DEF MisdeliveredOnlyByReuse
    <3>3. \A c \in 1..(d - 1) : c \in 1..nconn
      BY <1>1, <3>1
    <3> QED
      BY <1>1, <3>1, <3>2, <3>3
  <2>2. CASE \E h \in Handle : d = open[h] /\ d # 0 /\ Had(To[m], h)
    <3>1. PICK h \in Handle : d = open[h] /\ d # 0 /\ Had(To[m], h)
      BY <2>2
    <3>2. d \in 1..nconn /\ sock[d] = h /\ \A c \in 1..nconn : sock[c] = h => c <= d
      BY <1>0, <1>1, <3>1 DEF Handles, Typed
    <3>3. PICK c \in 1..nconn : who[c] = To[m] /\ sock[c] = h
      BY <3>1 DEF Had
    <3>4. c <= d /\ (c = d \/ c \in 1..(d - 1))
      BY <1>1, <3>2, <3>3
    <3>5. sock'[c] = h /\ sock'[d] = h /\ d <= nconn'
      BY <1>1, <3>2, <3>3
    <3> QED
      BY <1>1, <3>3, <3>4, <3>5
  <2> QED
    BY <2>1, <2>2 DEF Moves
<1> QED
  BY <1>3, <1>4, <1>5 DEF Routes, Found, Delivered, MisdeliveredOnlyByReuse

\* A step that leaves the map, the logins and what arrived alone.
LEMMA MovesAlone ==
  ASSUME IInv, NEW t \in Thread, Only(t), t \in Conn => th[t].pc # "done" /\ HandlerRoute(t)',
         UNCHANGED <<idToSock, login, got>>, wronged \subseteq wronged'
  PROVE  Moves(t)
BY DEF Moves

\* eraseSocket seen from the map: the user's mapping is gone, and so is the login, or its
\* connection is among those that another step hit.
LEMMA ErasedFacts ==
  ASSUME IInv, NEW u \in User, nconn' = nconn,
         idToSock' = [idToSock EXCEPT ![u] = None],
         \/ login' = login /\ login[u] \in wronged'
         \/ login' = [login EXCEPT ![u] = 0]
  PROVE  \A v \in User :
            \/ idToSock'[v] = idToSock[v] /\ login'[v] = login[v]
            \/ MapRoute(v)' /\ FoundFor(v)'
<1>0. /\ idToSock \in [User -> Handle \cup {None}] /\ login \in [User -> 0..MaxConn]
      /\ FoundFor(u)
  BY DEF IInv, Typed, Found
<1>1. \A v \in User \ {u} : idToSock'[v] = idToSock[v] /\ login'[v] = login[v]
  BY <1>0
<1>2. MapRoute(u)'
  BY <1>0 DEF MapRoute
<1>3. FoundFor(u)'
  BY <1>0 DEF FoundFor
<1> QED
  BY <1>1, <1>2, <1>3

\* Every step of a receive thread is such a move.
LEMMA ThreadMoves ==
  ASSUME IInv, Next, NEW c \in 1..nconn, Packets(c) \/ ThreadStep(c)
  PROVE  c \in Thread /\ Moves(c)
<1>0. Typed /\ Handles /\ Routes /\ Found
  BY DEF IInv
<1>1. c \in Conn /\ c \in Thread /\ sock[c] \in Handle /\ sock'[c] = sock[c] /\ HandlerRoute(c)
  BY <1>0, ThreadFacts, KeptFacts DEF Routes
<1>2. \A u, h : Had(u, h) => Had(u, h)'
  BY KeptFacts
<1>3. CASE Packets(c)
  <2>1. /\ th[c].pc = "recv" /\ Only(c) /\ UNCHANGED <<idToSock, login, wronged, got>>
    BY <1>3, PacketsFacts DEF history
  <2>2. CASE th'[c].pc = "recv" /\ th'[c].todo = {}
    <3>1. HandlerRoute(c)'
      BY <2>2 DEF HandlerRoute
    <3> QED
      BY <1>1, <2>1, <3>1, MovesAlone
  <2>3. CASE /\ th'[c].pc \in {"login", "erase"} /\ th'[c].todo = {}
             /\ Had(th'[c].user, sock[c]) /\ th'[c].user \in User
    <3>1. \A u, h : u = th'[c].user /\ h = sock[c] => Had(u, h)'
      BY <1>2, <2>3
    <3>2. HandlerRoute(c)'
      BY <1>1, <2>3, <3>1 DEF HandlerRoute
    <3> QED
      BY <1>1, <2>1, <3>2, MovesAlone
  <2>4. CASE th'[c].pc = "chat" /\ \E m \in Msg : th'[c].todo = {m} /\ th'[c].user = To[m]
    <3>1. HandlerRoute(c)'
      BY <2>4 DEF HandlerRoute
    <3> QED
      BY <1>1, <2>1, <3>1, MovesAlone
  <2> QED
    BY <1>3, <2>2, <2>3, <2>4, PacketsFacts
<1>4. CASE Local(c)
  <2>1. /\ th[c].pc # "done" /\ Only(c) /\ UNCHANGED <<idToSock, login, wronged, got>>
    BY <1>4, LocalFacts DEF history
  <2>2. HandlerRoute(c)'
    <3>1. CASE th'[c].pc \in {"recv", "end", "store"}
      BY <3>1 DEF HandlerRoute
    <3>2. CASE /\ th[c].pc = "login" /\ th'[c].pc = "set"
               /\ th'[c].user = th[c].user /\ th'[c].todo = th[c].todo
      BY <1>1, <1>2, <3>2 DEF HandlerRoute
    <3>3. CASE /\ th'[c].pc = "resend" /\ th'[c].todo # {}
               /\ \A m \in th'[c].todo : To[m] = th'[c].user
      BY <3>3 DEF HandlerRoute
    <3>4. CASE /\ th[c].pc = "chat" /\ th'[c].pc = "forward" /\ th'[c].user = th[c].user
               /\ th'[c].todo = th[c].todo /\ th'[c].to = idToSock[th[c].user]
               /\ th[c].user \in User /\ th'[c].to # None
      <4>1. Had(th[c].user, idToSock[th[c].user])
        BY <1>0, <3>4 DEF Routes, MapRoute
      <4>2. \A u, h : u = th[c].user /\ h = idToSock[th[c].user] => Had(u, h)'
        BY <1>2, <4>1
      <4> QED
        BY <1>1, <3>4, <4>2 DEF HandlerRoute
    <3> QED
      BY <1>4, <3>1, <3>2, <3>3, <3>4, LocalFacts
  <2> QED
    BY <1>1, <2>1, <2>2, MovesAlone
<1>5. CASE EndRecv(c) \/ CloseOwn(c)
  <2>1. /\ th[c].pc # "done" /\ Only(c) /\ th'[c].pc \in {"close", "done", "report"}
        /\ UNCHANGED <<idToSock, login, wronged, got>>
    BY <1>5, EndRecvFacts, CloseOwnFacts DEF history
  <2>2. HandlerRoute(c)'
    BY <2>1 DEF HandlerRoute
  <2> QED
    BY <1>1, <2>1, <2>2, MovesAlone
<1>6. CASE Disconnect(c)
  <2>1. /\ th[c].pc = "report" /\ Only(c) /\ th'[c].pc = "done"
        /\ UNCHANGED <<nconn, sock, login, got>>
    BY <1>6, DisconnectFacts
  <2>2. HandlerRoute(c)'
    BY <2>1 DEF HandlerRoute
  <2>3. CASE UNCHANGED <<idToSock, wronged>>
    BY <1>1, <2>1, <2>2, <2>3, MovesAlone
  <2>4. CASE \E u \in User : /\ idToSock' = [idToSock EXCEPT ![u] = None]
                             /\ wronged' = wronged \cup ({login[u]} \ {c})
    <3>1. PICK u \in User : /\ idToSock' = [idToSock EXCEPT ![u] = None]
                            /\ wronged' = wronged \cup ({login[u]} \ {c})
      BY <2>4
    <3>2. idToSock \in [User -> Handle \cup {None}] /\ FoundFor(u)
      BY <1>0 DEF Typed, Found
    <3>3. \A v \in User \ {u} : idToSock'[v] = idToSock[v] /\ login'[v] = login[v]
      BY <2>1, <3>1, <3>2
    <3>4. MapRoute(u)'
      BY <3>1, <3>2 DEF MapRoute
    <3>5. login[u] \in wronged' \/ th'[login[u]].pc = "done"
      BY <2>1, <3>1
    <3>6. FoundFor(u)'
      BY <2>1, <3>2, <3>5 DEF FoundFor
    <3>7. wronged \subseteq wronged'
      BY <3>1
    <3> QED
      BY <1>1, <2>1, <2>2, <3>3, <3>4, <3>6, <3>7 DEF Moves
  <2> QED
    BY <1>6, <2>3, <2>4, DisconnectFacts
<1>7. CASE SetSocket(c)
  <2> DEFINE u == th[c].user
             d == open[sock[c]]
  <2>1. /\ th[c].pc = "set" /\ Only(c) /\ th'[c].pc \in {"select", "find"}
        /\ th'[c].user = u /\ th'[c].todo = th[c].todo /\ u \in User
        /\ idToSock' = [idToSock EXCEPT ![u] = sock[c]] /\ login' = [login EXCEPT ![u] = d]
        /\ UNCHANGED <<nconn, sock, wronged, got>>
    BY <1>7, SetSocketFacts
  <2>2. HandlerRoute(c)'
    BY <1>1, <2>1 DEF HandlerRoute
  <2>3. Had(u, sock[c])
    BY <1>1, <2>1 DEF HandlerRoute
  <2>4. d # 0 => d <= nconn /\ sock[d] = sock[c]
    BY <1>0, <1>1 DEF Handles
  <2>5. idToSock \in [User -> Handle \cup {None}] /\ login \in [User -> 0..MaxConn]
    BY <1>0 DEF Typed
  <2> HIDE DEF u, d
  <2>6. \A v \in User \ {u} : idToSock'[v] = idToSock[v] /\ login'[v] = login[v]
    BY <2>1, <2>5
  <2>7. idToSock'[u] = sock[c] /\ login'[u] = d
    BY <2>1, <2>5
  <2>8. \A v : v = u => MapRoute(v)' /\ FoundFor(v)'
    BY <1>2, <2>1, <2>3, <2>4, <2>7 DEF MapRoute, FoundFor
  <2> QED
    BY <1>1, <2>1, <2>2, <2>6, <2>8 DEF Moves
<1>8. CASE FindEntry(c) \/ Shut(c)
  <2>1. /\ th[c].pc \in {"find", "shut"} /\ Only(c)
        /\ th'[c].user = th[c].user /\ th'[c].todo = th[c].todo
        /\ th'[c].pc \in {th[c].after, "shut"}
        /\ UNCHANGED <<idToSock, login, got>> /\ wronged \subseteq wronged'
    <3>1. CASE FindEntry(c)
      BY <1>1, <3>1, FindFacts DEF kernel
    <3>2. CASE Shut(c)
      BY <1>1, <3>2, ShutFacts DEF kernel, history
    <3> QED
      BY <1>8, <3>1, <3>2
  <2>2. th[c].after \in {"recv", "select", "scan"}
    BY <1>0, <1>1 DEF Typed, ThreadState
  <2>3. HandlerRoute(c)'
    BY <1>1, <2>1, <2>2 DEF HandlerRoute
  <2> QED
    BY <1>1, <2>1, <2>3, MovesAlone
<1>9. CASE Resend(c) \/ Forward(c)
  <2>1. /\ th[c].pc \in {"resend", "forward"} /\ Only(c)
        /\ \/ /\ th[c].pc = "resend" /\ th'[c].pc = "mark"
              /\ th'[c].user = th[c].user /\ th'[c].todo = th[c].todo
           \/ th[c].pc = "forward" /\ th'[c].pc = "recv"
        /\ UNCHANGED <<idToSock, login, wronged>>
    BY <1>9, SendFacts
  <2>2. HandlerRoute(c)'
    BY <1>1, <2>1 DEF HandlerRoute
  <2>3. PICK m \in Msg, h \in Handle \cup {None} :
            Arrive(m, h) /\ (h \in Handle => Had(To[m], h))
    BY <1>9, SendFacts
  <2>4. \A n \in Msg : \A d \in got'[n] :
            d \in got[n] \/ (n = m /\ h \in Handle /\ d = open[h] /\ d # 0)
    BY <1>0, <2>3, ArriveFacts
  <2> QED
    BY <1>1, <2>1, <2>2, <2>3, <2>4 DEF Moves
<1>10. CASE OfflineErase(c)
  <2>1. /\ th[c].pc = "erase" /\ Only(c) /\ th'[c].pc \in {"recv", "find"} /\ th'[c].todo = {}
        /\ UNCHANGED <<nconn, got>>
    BY <1>10, OfflineEraseFacts
  <2>2. PICK u \in User :
               /\ idToSock' = [idToSock EXCEPT ![u] = None]
               /\ \/ login' = login /\ login[u] \in wronged' /\ wronged \subseteq wronged'
                  \/ login' = [login EXCEPT ![u] = 0] /\ wronged' = wronged
    BY <1>10, OfflineEraseFacts
  <2>3. HandlerRoute(c)'
    BY <2>1 DEF HandlerRoute
  <2>4. \A v \in User :
            \/ idToSock'[v] = idToSock[v] /\ login'[v] = login[v]
            \/ MapRoute(v)' /\ FoundFor(v)'
    BY <2>1, <2>2, ErasedFacts
  <2> QED
    BY <1>1, <2>1, <2>2, <2>3, <2>4 DEF Moves
<1> QED
  BY <1>1, <1>3, <1>4, <1>5, <1>6, <1>7, <1>8, <1>9, <1>10 DEF ThreadStep, Local

\* So is every step of the scan and of the rest of the server and its clients.
LEMMA ServerMoves ==
  ASSUME IInv, Next, Gone \/ Age \/ Accept \/ Record \/ CloseServer \/ Closing \/ ScanStep
  PROVE  \E t \in Thread : Moves(t)
<1>0. Typed /\ Handles /\ Scanner \in Thread /\ Scanner \notin Conn
  BY ConstantFacts DEF IInv
<1>1. CASE Gone \/ Age \/ Record \/ Closing
  <2>1. UNCHANGED <<th, idToSock, login, wronged, got>>
    BY <1>1 DEF Gone, Age, Record, Closing, CloseAll, JoinAll, kernel, history
  <2>2. Only(Scanner)
    BY <1>0, <2>1 DEF Only, Typed
  <2> QED
    BY <1>0, <2>1, <2>2, MovesAlone
<1>2. CASE Accept
  <2>1. /\ nconn + 1 \in Conn /\ Only(nconn + 1) /\ th[nconn + 1].pc = "unborn"
        /\ th'[nconn + 1].pc = "recv" /\ UNCHANGED <<idToSock, login, wronged, got>>
    BY <1>2, AcceptFacts
  <2>2. PICK t \in Conn : t = nconn + 1
    BY <2>1
  <2>3. HandlerRoute(t)'
    BY <2>1, <2>2 DEF HandlerRoute
  <2>4. t \in Thread
    BY ConstantFacts
  <2> QED
    BY <2>1, <2>2, <2>3, <2>4, MovesAlone
<1>3. CASE CloseServer
  <2>1. Goto(Scanner, "done") /\ UNCHANGED <<idToSock, login, wronged, got>>
    BY <1>3 DEF CloseServer, kernel, history
  <2>2. Only(Scanner)
    BY <1>0, <2>1, GotoFacts DEF Pc
  <2> QED
    BY <1>0, <2>1, <2>2, MovesAlone
<1>4. CASE Collect
  <2>1. /\ UNCHANGED <<idToSock, login, wronged, got>>
        /\ \/ th' = th
           \/ \E ms : th' = [th EXCEPT ![Scanner] = [At("scan") EXCEPT !.todo = ms]]
    BY <1>4 DEF Collect, history
  <2>2. Only(Scanner)
    BY <1>0, <2>1, SetFacts DEF Only, Typed
  <2> QED
    BY <1>0, <2>1, <2>2, MovesAlone
<1>5. CASE ScanErase
  <2>1. PICK p \in th[Scanner].todo : Erase(Scanner, p[1], p[2], "scan")
    BY <1>5 DEF ScanErase
  <2>2. th[Scanner].todo \in SUBSET (User \X (0..MaxConn))
    BY <1>0, ThreadFacts, ConstantFacts
  <2>3. PICK u \in User : u = p[1]
    BY <2>1, <2>2
  <2>4. /\ Only(Scanner) /\ idToSock' = [idToSock EXCEPT ![u] = None]
        /\ \/ login' = login /\ login[u] \in wronged' /\ wronged \subseteq wronged'
           \/ login' = [login EXCEPT ![u] = 0] /\ wronged' = wronged
        /\ UNCHANGED <<net, got>>
    BY <1>0, <2>1, <2>3, EraseFacts
  <2>5. \A v \in User :
            \/ idToSock'[v] = idToSock[v] /\ login'[v] = login[v]
            \/ MapRoute(v)' /\ FoundFor(v)'
    BY <2>4, ErasedFacts DEF net
  <2> QED
    BY <1>0, <2>4, <2>5 DEF Moves
<1>6. CASE ScanEnds
  <2>1. Return(Scanner, "sleep") /\ UNCHANGED <<idToSock, login, wronged, got>>
    BY <1>6 DEF ScanEnds, kernel, history
  <2>2. Only(Scanner)
    BY <1>0, <2>1, ReturnFacts DEF Pc
  <2> QED
    BY <1>0, <2>1, <2>2, MovesAlone
<1>7. CASE FindEntry(Scanner) \/ Shut(Scanner)
  <2>1. Only(Scanner) /\ UNCHANGED <<idToSock, login, got>> /\ wronged \subseteq wronged'
    <3>1. CASE FindEntry(Scanner)
      BY <1>0, <3>1, FindFacts DEF kernel
    <3>2. CASE Shut(Scanner)
      BY <1>0, <3>2, ShutFacts DEF kernel, history
    <3> QED
      BY <1>7, <3>1, <3>2
  <2> QED
    BY <1>0, <2>1, MovesAlone
<1> QED
  BY <1>1, <1>2, <1>3, <1>4, <1>5, <1>6, <1>7 DEF ScanStep

-----------------------------------------------------------------------------
(* The invariant.                                                          *)

\* The server starts in the invariant.
LEMMA InitIInv == Init => IInv
<1> SUFFICES ASSUME Init
             PROVE  IInv
  OBVIOUS
<1>1. /\ nconn = 0 /\ who \in Clients /\ sock = [c \in Conn |-> None] /\ open = [h \in Handle |-> 0]
      /\ pending = 0 /\ addrFrom = {} /\ idToSock = [u \in User |-> None]
      /\ th = [t \in Thread |-> At(IF t = Scanner THEN "sleep" ELSE "unborn")]
      /\ login = [u \in User |-> 0] /\ got = [m \in Msg |-> {}]
  BY DEF Init
<1>2. \A t \in Thread : th[t] \in ThreadState(t) /\ th[t].pc \in {"sleep", "unborn"}
  BY <1>1, AtFacts DEF Pc
<1>3. \A c \in Conn : th[c].pc = "unborn"
  BY <1>1, ConstantFacts, AtFacts DEF Pc
<1>4. Typed
  <2>1. 0 \in 0..MaxConn /\ who \in [Conn -> User]
    BY <1>1, ConstantFacts DEF Conn
  <2>2. th = [t \in Thread |-> th[t]]
    BY <1>1
  <2> QED
    BY <1>1, <1>2, <2>1, <2>2 DEF Typed
<1>5. Handles
  BY <1>1, <1>3 DEF Handles
<1>6. Closers
  BY <1>1, <1>2, ConstantFacts DEF Closers
<1>7. Routes
  BY <1>1, <1>3 DEF Routes, MapRoute, HandlerRoute
<1>8. Found /\ Delivered /\ MisdeliveredOnlyByReuse
  BY <1>1 DEF Found, FoundFor, Delivered, MisdeliveredOnlyByReuse
<1> QED
  BY <1>4, <1>5, <1>6, <1>7, <1>8 DEF IInv

\* Every step keeps the invariant.
LEMMA StepIInv ==
  ASSUME IInv, [Next]_vars
  PROVE  IInv'
<1>1. CASE Next
  <2>1. \E t \in Thread : Moves(t)
    BY <1>1, ThreadMoves, ServerMoves DEF Next
  <2>2. Routes' /\ Found' /\ Delivered' /\ MisdeliveredOnlyByReuse'
    BY <1>1, <2>1, MovesFacts
  <2> QED
    BY <1>1, <2>2, StepTyped, HandlesStep, ClosersStep DEF IInv
<1>2. CASE UNCHANGED vars
  <2>1. UNCHANGED <<nconn, who, sock, open, pending, addrFrom, idToSock, th, login, wronged, got>>
    BY <1>2 DEF vars, net, kernel, history
  <2>2. Typed' /\ Handles' /\ Closers' /\ Delivered' /\ MisdeliveredOnlyByReuse'
    <3>1. Typed'
      BY <2>1 DEF IInv, Typed
    <3>2. Handles'
      BY <2>1 DEF IInv, Handles
    <3>3. Closers'
      BY <2>1 DEF IInv, Closers
    <3>4. Delivered' /\ MisdeliveredOnlyByReuse'
      BY <2>1 DEF IInv, Delivered, MisdeliveredOnlyByReuse
    <3> QED
      BY <3>1, <3>2, <3>3, <3>4
  <2>3. \A u, h : Had(u, h)' <=> Had(u, h)
    BY <2>1 DEF Had
  <2>4. Routes'
    BY <2>1, <2>3 DEF IInv, Routes, MapRoute, HandlerRoute
  <2>5. Found'
    BY <2>1 DEF IInv, Found, FoundFor
  <2> QED
    BY <2>2, <2>4, <2>5 DEF IInv
<1> QED
  BY <1>1, <1>2

\* The invariant holds throughout.
LEMMA InvariantIInv == Spec => []IInv
<1>1. Init => IInv
  BY InitIInv
<1>2. IInv /\ [Next]_vars => IInv'
  BY StepIInv
<1> QED
  BY <1>1, <1>2, PTL DEF Spec

-----------------------------------------------------------------------------
\* m_addrFrom decides who may close (TCPServer.h): whoever takes the entry out closes the
\* handle, and it still stands for the connection of that entry, however often handles
\* are closed and given out again.
THEOREM LegacyOneClosePerConnection == Spec => []OneClosePerConnection
<1>1. IInv => OneClosePerConnection
  BY DEF IInv, Closers, OneClosePerConnection
<1> QED
  BY <1>1, InvariantIInv, PTL

\* The connection of a user's last login is in m_mapIdtoSocket for as long as it is open
\* and served, unless DealDisconnect, eraseSocket or closeConnection meant another one.
THEOREM LegacyLoggedInIsFound == Spec => []LoggedInIsFound
<1>1. ASSUME IInv
      PROVE  LoggedInIsFound
  <2>1. \A u \in User : FoundFor(u)
    BY <1>1 DEF IInv, Found
  <2> QED
    BY <2>1 DEF FoundFor, LoggedInIsFound
<1> QED
  BY <1>1, InvariantIInv, PTL

\* A chat or offline message reaches another user than its receiver only over a handle
\* that an earlier connection of the receiver had.
THEOREM LegacyMisdeliveredOnlyByReuse == Spec => []MisdeliveredOnlyByReuse
<1>1. IInv => MisdeliveredOnlyByReuse
  BY DEF IInv
<1> QED
  BY <1>1, InvariantIInv, PTL
=============================================================================
