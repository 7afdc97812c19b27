----------------------------- MODULE ChatServer -----------------------------
(***************************************************************************)
(* Presence, login, kick and message delivery of im_server: Presence.cpp,  *)
(* AuthHandler.cpp (activateSession), MessageHandler.cpp (onChat),         *)
(* SystemHandler.cpp and Server.cpp (dispatchPacket, onSessionClosed), with*)
(* the message table of Database.cpp.                                      *)
(*                                                                         *)
(* Requests of a session are tasks of the business strand the session was  *)
(* given at accept; strands run in parallel, the tasks of one strand in    *)
(* order.  A handler is cut into steps at every access to shared state     *)
(* (the presence map, the database): each of those is atomic (a mutex or   *)
(* one SQL transaction), nothing holds between two of them.  Session is    *)
(* reduced to what other code can see of it: deliver() takes a frame while *)
(* the connection is open and drops it once it is closed; the client gets  *)
(* what was taken, except a tail that a closing connection may still lose. *)
(*                                                                         *)
(* Abstractions: credentials and tokens are valid (TokenService), users    *)
(* are friends of one another, time is absent (a heartbeat timeout is a    *)
(* Close that may happen at any time), contents are the message itself.    *)
(***************************************************************************)
EXTENDS Naturals, Sequences, FiniteSets, FiniteSetsExt

CONSTANTS
  Users, Sessions, Msgs,
  Client,          \* the user whose client opens each connection
  From, To,        \* sender and receiver of each message
  Strands,         \* the business strands m_bizStrands
  BizOf,           \* the strand given to each session at accept (round robin)
  UserStrand,      \* the strand uid % size that broadcasts a user's offline notice
  None,            \* no session, no user, no message
  MaxAsk,          \* bound: logins and offline requests of all connections
  MaxSend,         \* bound: times a client sends one message
  MaxCrash         \* bound: crashes of the server

ASSUME RoutingAssumption ==
  /\ Client \in [Sessions -> Users]
  /\ From \in [Msgs -> Users] /\ To \in [Msgs -> Users]
  /\ \A m \in Msgs : From[m] # To[m]
  /\ BizOf \in [Sessions -> Strands] /\ UserStrand \in [Users -> Strands]
  /\ None \notin Users \cup Sessions \cup Msgs
  /\ {MaxAsk, MaxSend, MaxCrash} \subseteq Nat

VARIABLES
  conn,      \* conn[s]: "unused", "open" or "closed"
  userId,    \* Session::m_userId
  closing,   \* sessions asked to close (close, closeAfterWrite)
  presence,  \* Presence::m_map: the session recorded for a user
  biz,       \* biz[k]: the tasks of a strand, the first one running
  rows,      \* the messages table, in insertion order
  log,       \* log[s]: the frames deliver() has taken for the client of s, see Empty
  asked,     \* logins and offline requests sent so far (bounded by MaxAsk)
  sends,     \* sends[m]: times m was sent (bounded by MaxSend)
  crashes,   \* crashes so far (bounded by MaxCrash)
  overtaken  \* history: messages saved for nobody though a login had pulled before

vars == <<conn, userId, closing, presence, biz, rows, log, asked, sends, crashes, overtaken>>
counters == <<asked, sends, crashes, overtaken>>

Friends(u) == Users \ {u}

\* A task: its kind, where it stands, and the local variables of its handler: the
\* friend in turn, the friends left, the session looked up, the rows pulled and those
\* of them that are still to be pushed.
NewTask(kind, pc, s, u, m) ==
  [kind |-> kind, pc |-> pc, s |-> s, u |-> u, m |-> m,
   friend |-> None, todo |-> {}, target |-> None, pulled |-> {}, left |-> {}]

\* What the client of a session makes of its frames: the last news of each user, which
\* it forgets with the connection, how often each message came, and which answers and
\* orders (Ack, Kicked) there were.
NoNews == [u \in Users |-> None]
Empty == [told |-> NoNews, got |-> [m \in Msgs |-> 0], notes |-> {}]

Chat(m) == [type |-> "CHAT", u |-> None, m |-> m]
Ack(m, result) == [type |-> result, u |-> None, m |-> m]
FriendInfo(u, online) == [type |-> IF online THEN "ONLINE" ELSE "OFFLINE", u |-> u, m |-> None]
FriendOffline(u) == [type |-> "FRIEND_OFFLINE", u |-> u, m |-> None]
Kicked == [type |-> "KICKED", u |-> None, m |-> None]

Init ==
  /\ conn = [s \in Sessions |-> "unused"]
  /\ userId = [s \in Sessions |-> None]
  /\ closing = {}
  /\ presence = [u \in Users |-> None]
  /\ biz = [k \in Strands |-> <<>>]
  /\ rows = <<>>
  /\ log = [s \in Sessions |-> Empty]
  /\ asked = 0 /\ sends = [m \in Msgs |-> 0]
  /\ crashes = 0 /\ overtaken = {}

-----------------------------------------------------------------------------
(* Presence.  The map holds weak references: a session object lives while  *)
(* its connection is open or a task still refers to it.                    *)

Tasks == UNION {{biz[k][i] : i \in DOMAIN biz[k]} : k \in Strands}
Alive(s) == conn[s] = "open" \/ \E t \in Tasks : t.s = s \/ t.target = s
Get(u) == IF presence[u] # None /\ Alive(presence[u]) THEN presence[u] ELSE None

\* Slip: the entry goes whatever session it holds.
OfflineAny(u, s) == [v \in Users |-> IF v = u THEN None ELSE presence[v]]

\* Presence::offline(): only the session on record is removed; no user, no entry.
OfflineMap(u, s) == [v \in Users |-> IF v = u /\ presence[v] = s THEN None ELSE presence[v]]

Take(seen, frame) ==
  CASE frame.u # None      -> [seen EXCEPT !.told[frame.u] = frame.type]
    [] frame.type = "CHAT" -> [seen EXCEPT !.got[frame.m] = @ + 1]
    [] OTHER               -> [seen EXCEPT !.notes = @ \cup {frame}]

\* deliver(frame): l is the log so far; dropped where there is no open connection.
Deliver(l, s, frame) ==
  IF s # None /\ conn[s] = "open" THEN [l EXCEPT ![s] = Take(@, frame)] ELSE l

-----------------------------------------------------------------------------
(* Connections.                                                            *)

Connect(s) ==
  /\ conn[s] = "unused"
  /\ conn' = [conn EXCEPT ![s] = "open"]
  /\ UNCHANGED <<userId, closing, presence, biz, rows, log, counters>>

\* A request of the client of s, dispatched on the strand of s (dispatchPacket).
Post(s, t) ==
  /\ conn[s] = "open"
  /\ biz' = [biz EXCEPT ![BizOf[s]] = Append(@, t)]
  /\ UNCHANGED <<conn, userId, closing, presence, rows, log, crashes, overtaken>>

Ask(s, t) ==
  /\ asked < MaxAsk
  /\ asked' = asked + 1
  /\ Post(s, t)
  /\ UNCHANGED sends

SendLogin(s) == Ask(s, NewTask("login", "bind", s, Client[s], None))
SendOffline(s) == Ask(s, NewTask("offline", "offline", s, None, None))

\* A logged-in client sends one of its user's messages, or sends it again.
SendChat(s, m) ==
  /\ userId[s] = From[m] /\ sends[m] < MaxSend
  /\ sends' = [sends EXCEPT ![m] = @ + 1]
  /\ Post(s, NewTask("chat", "get", s, None, m))
  /\ UNCHANGED asked

\* Session::onClosed: the peer left, an error, a heartbeat timeout or a requested
\* close; then Server::onSessionClosed.
Close(s) ==
  /\ conn[s] = "open"
  /\ conn' = [conn EXCEPT ![s] = "closed"]
  /\ IF userId[s] = None
     THEN UNCHANGED <<presence, biz>>
     ELSE /\ presence' = OfflineMap(userId[s], s)
          /\ biz' = [biz EXCEPT ![UserStrand[userId[s]]] =
                       Append(@, [NewTask("bcast", "friends", None, userId[s], None)
                                    EXCEPT !.todo = Friends(userId[s])])]
  /\ log' = [log EXCEPT ![s].told = NoNews]
  /\ UNCHANGED <<userId, closing, rows, counters>>

\* The server process dies and is started again: only the database survives.
Crash ==
  /\ crashes < MaxCrash
  /\ crashes' = crashes + 1
  /\ conn' = [s \in Sessions |-> IF conn[s] = "open" THEN "closed" ELSE conn[s]]
  /\ presence' = [u \in Users |-> None]
  /\ biz' = [k \in Strands |-> <<>>]
  /\ log' = [s \in Sessions |-> [log[s] EXCEPT !.told = NoNews]]
  /\ UNCHANGED <<userId, closing, rows, asked, sends, overtaken>>

-----------------------------------------------------------------------------
(* Steps of the task at the front of strand k.                             *)

Running(k, kind, pc) == biz[k] # <<>> /\ Head(biz[k]).kind = kind /\ Head(biz[k]).pc = pc
Done(k) == biz' = [biz EXCEPT ![k] = Tail(@)]
Goto(k, t) == biz' = [biz EXCEPT ![k] = <<t>> \o Tail(@)]

\* onLogin / onTokenLogin: a session logs in once; bindAuth.
LoginBind(k) ==
  /\ Running(k, "login", "bind")
  /\ LET t == Head(biz[k]) IN
       IF userId[t.s] # None
       THEN Done(k) /\ UNCHANGED userId
       ELSE /\ userId' = [userId EXCEPT ![t.s] = t.u]
            /\ Goto(k, [t EXCEPT !.pc = "replace"])
  /\ UNCHANGED <<conn, closing, presence, rows, log, counters>>

\* activateSession: Presence::replace, then the old session is told and closed
\* once its queue has drained.
LoginReplace(k) ==
  /\ Running(k, "login", "replace")
  /\ LET t == Head(biz[k])
         old == Get(t.u)
     IN /\ presence' = [presence EXCEPT ![t.u] = t.s]
        /\ log' = Deliver(log, old, Kicked)
        /\ closing' = IF old = None THEN closing ELSE closing \cup {old}
        /\ Goto(k, [t EXCEPT !.pc = "friend", !.todo = Friends(t.u)])
  /\ UNCHANGED <<conn, userId, rows, counters>>

\* The friend's status to the new session...
LoginFriend(k) ==
  /\ Running(k, "login", "friend")
  /\ LET t == Head(biz[k]) IN
       \/ /\ t.todo = {}
          /\ Goto(k, [t EXCEPT !.pc = "pull"])
          /\ UNCHANGED log
       \/ \E f \in t.todo :
            /\ log' = Deliver(log, t.s, FriendInfo(f, Get(f) # None))
            /\ Goto(k, [t EXCEPT !.pc = "tell", !.todo = @ \ {f}, !.friend = f])
  /\ UNCHANGED <<conn, userId, closing, presence, rows, counters>>

\* Slip: the notice goes to the session that logs in.
TellSelf(k) ==
  /\ Running(k, "login", "tell")
  /\ LET t == Head(biz[k]) IN
       /\ log' = Deliver(log, t.s, FriendInfo(t.u, TRUE))
       /\ Goto(k, [t EXCEPT !.pc = "friend", !.friend = None])
  /\ UNCHANGED <<conn, userId, closing, presence, rows, counters>>

\* ... and, after a second look at the map, the new status to the friend.
LoginTell(k) ==
  /\ Running(k, "login", "tell")
  /\ LET t == Head(biz[k]) IN
       /\ log' = Deliver(log, Get(t.friend), FriendInfo(t.u, TRUE))
       /\ Goto(k, [t EXCEPT !.pc = "friend", !.friend = None])
  /\ UNCHANGED <<conn, userId, closing, presence, rows, counters>>

Undelivered(u) == {i \in DOMAIN rows : To[rows[i].m] = u /\ ~rows[i].delivered}

\* Database::pullUndelivered: one read.
LoginPull(k) ==
  /\ Running(k, "login", "pull")
  /\ LET t == Head(biz[k])
         found == Undelivered(t.u)
     IN IF found = {}
        THEN Done(k)
        ELSE Goto(k, [t EXCEPT !.pc = "push", !.pulled = found, !.left = found])
  /\ UNCHANGED <<conn, userId, closing, presence, rows, log, counters>>

\* One pulled message to the new session and its receipt to the sender.  They go out
\* in the order of their times, which the senders' strands took before they saved.
LoginPush(k) ==
  /\ Running(k, "login", "push")
  /\ LET t == Head(biz[k]) IN
       \E i \in t.left :
         LET m == rows[i].m
         IN /\ log' = Deliver(Deliver(log, t.s, Chat(m)), Get(From[m]), Ack(m, "SUCC"))
            /\ Goto(k, [t EXCEPT !.left = @ \ {i}, !.pc = IF t.left = {i} THEN "mark" ELSE "push"])
  /\ UNCHANGED <<conn, userId, closing, presence, rows, counters>>

\* Those of the rows that are marked.
Marked(ids) == [i \in DOMAIN rows |->
                  IF i \in ids THEN [rows[i] EXCEPT !.delivered = TRUE] ELSE rows[i]]

\* Slip: the last id of the list is left out.
MarkAllButLast(k) ==
  /\ Running(k, "login", "mark")
  /\ LET t == Head(biz[k]) IN rows' = Marked(t.pulled \ {Max(t.pulled)})
  /\ Done(k)
  /\ UNCHANGED <<conn, userId, closing, presence, log, counters>>

\* Database::markDelivered of everything that was pulled.
LoginMark(k) ==
  /\ Running(k, "login", "mark")
  /\ LET t == Head(biz[k]) IN rows' = Marked(t.pulled)
  /\ Done(k)
  /\ UNCHANGED <<conn, userId, closing, presence, log, counters>>

\* onChat: is the receiver online?
ChatGet(k) ==
  /\ Running(k, "chat", "get")
  /\ LET t == Head(biz[k]) IN
       Goto(k, [t EXCEPT !.pc = "save", !.target = Get(To[t.m])])
  /\ UNCHANGED <<conn, userId, closing, presence, rows, log, counters>>

\* The conversation of two users, whoever sends.
Conversation(m) == {From[m], To[m]}

NextSeq(m) ==
  LET used == {rows[i].seq : i \in {j \in DOMAIN rows : Conversation(rows[j].m) = Conversation(m)}}
  IN 1 + Max(used \cup {0})

\* Slip: is_delivered is left for markDelivered to set.
SaveUndelivered(m, delivered) ==
  IF \E i \in DOMAIN rows : rows[i].m = m
  THEN UNCHANGED rows
  ELSE rows' = Append(rows, [m |-> m, seq |-> NextSeq(m), delivered |-> FALSE])

\* Database::saveMessage: a known msg_id is left as it is; a new row takes the next
\* sequence number of its conversation and is "delivered" if a target was found.
SaveMessage(m, delivered) ==
  IF \E i \in DOMAIN rows : rows[i].m = m
  THEN UNCHANGED rows
  ELSE rows' = Append(rows, [m |-> m, seq |-> NextSeq(m), delivered |-> delivered])

\* Sessions of u whose login is through with pullUndelivered (a second login request
\* of such a session is still at "bind", where it is refused).
Pulled(u) ==
  {s \in Sessions : /\ userId[s] = u /\ conn[s] = "open"
                    /\ \A t \in Tasks : t.kind = "login" /\ t.s = s =>
                                          t.pc \in {"bind", "push", "mark"}}

ChatSave(k) ==
  /\ Running(k, "chat", "save")
  /\ LET t == Head(biz[k]) IN
       /\ SaveMessage(t.m, t.target # None)
       /\ overtaken' = IF t.target = None /\ Pulled(To[t.m]) # {} THEN overtaken \cup {t.m}
                       ELSE overtaken
       /\ Goto(k, [t EXCEPT !.pc = "deliver"])
  /\ UNCHANGED <<conn, userId, closing, presence, log, asked, sends, crashes>>

\* Slip: the result of saveMessage is not looked at.
SaveFailsUnseen(k) ==
  /\ Running(k, "chat", "save")
  /\ Goto(k, [Head(biz[k]) EXCEPT !.pc = "deliver"])
  /\ UNCHANGED <<conn, userId, closing, presence, rows, log, counters>>

\* The database refused the row: the sender is told, nothing is stored.
ChatSaveFails(k) ==
  /\ Running(k, "chat", "save")
  /\ LET t == Head(biz[k]) IN log' = Deliver(log, t.s, Ack(t.m, "ERROR"))
  /\ Done(k)
  /\ UNCHANGED <<conn, userId, closing, presence, rows, counters>>

\* The message to the target found before it was saved, the result to the sender.
ChatDeliver(k) ==
  /\ Running(k, "chat", "deliver")
  /\ LET t == Head(biz[k]) IN
       log' = Deliver(Deliver(log, t.target, Chat(t.m)), t.s,
                      Ack(t.m, IF t.target # None THEN "SUCC" ELSE "FAIL"))
  /\ Done(k)
  /\ UNCHANGED <<conn, userId, closing, presence, rows, counters>>

\* SystemHandler::onOffline: off the map, then close.
Offline(k) ==
  /\ Running(k, "offline", "offline")
  /\ LET t == Head(biz[k]) IN
       /\ presence' = OfflineMap(userId[t.s], t.s)
       /\ closing' = closing \cup {t.s}
  /\ Done(k)
  /\ UNCHANGED <<conn, userId, rows, log, counters>>

\* The offline notice of onSessionClosed, to one friend after the other.
Broadcast(k) ==
  /\ Running(k, "bcast", "friends")
  /\ LET t == Head(biz[k]) IN
       \E f \in t.todo :
         /\ log' = Deliver(log, Get(f), FriendOffline(t.u))
         /\ IF t.todo = {f} THEN Done(k) ELSE Goto(k, [t EXCEPT !.todo = @ \ {f}])
  /\ UNCHANGED <<conn, userId, closing, presence, rows, counters>>

Step(k) ==
  \/ LoginBind(k) \/ LoginReplace(k) \/ LoginFriend(k) \/ LoginTell(k)
  \/ LoginPull(k) \/ LoginPush(k) \/ LoginMark(k)
  \/ ChatGet(k) \/ ChatSave(k) \/ ChatSaveFails(k) \/ ChatDeliver(k)
  \/ Offline(k) \/ Broadcast(k)

Next ==
  \/ \E s \in Sessions :
       \/ Connect(s) \/ Close(s) \/ SendLogin(s) \/ SendOffline(s)
       \/ \E m \in Msgs : SendChat(s, m)
  \/ \E k \in Strands : Step(k)
  \/ Crash

Spec == Init /\ [][Next]_vars

-----------------------------------------------------------------------------
(* Properties.                                                             *)

Stored(m) == \E i \in DOMAIN rows : rows[i].m = m
Quiet == \A k \in Strands : biz[k] = <<>>
LoggingIn(s) == \E t \in Tasks : t.kind = "login" /\ t.s = s
\* A session through with its login, open, neither kicked nor asked to close.
Active(s) == conn[s] = "open" /\ userId[s] # None /\ s \notin closing /\ ~LoggingIn(s)

TypeOK ==
  /\ conn \in [Sessions -> {"unused", "open", "closed"}]
  /\ userId \in [Sessions -> Users \cup {None}]
  /\ closing \subseteq Sessions
  /\ presence \in [Users -> Sessions \cup {None}]
  /\ \A i \in DOMAIN rows : rows[i] \in [m : Msgs, seq : 1..Len(rows), delivered : BOOLEAN]
  /\ \A t \in Tasks : /\ t.kind \in {"login", "chat", "offline", "bcast"}
                      /\ {t.s, t.target} \subseteq Sessions \cup {None}
                      /\ {t.u, t.friend} \subseteq Users \cup {None}
                      /\ t.todo \subseteq Users
  /\ asked \in 0..MaxAsk /\ sends \in [Msgs -> 0..MaxSend] /\ crashes \in 0..MaxCrash
  /\ overtaken \subseteq Msgs
  /\ \A s \in Sessions :
       log[s].told \in [Users -> {None, "ONLINE", "OFFLINE", "FRIEND_OFFLINE"}]

\* Whatever logins, kicks and disconnects race, a user's session that nobody has
\* told to go is the one the presence map leads to: no login is lost and no late
\* onSessionClosed of an old connection takes the new one off the map.
ActiveIsReachable == \A s \in Sessions : Active(s) => Get(userId[s]) = s

\* A message a client has received, or was told was sent, is in the database, also
\* after a crash: history (roaming) can always bring it back.  (With the types.)
SeenIsStored ==
  /\ TypeOK
  /\ \A s \in Sessions :
       /\ \A m \in Msgs : log[s].got[m] > 0 => Stored(m)
       /\ \A f \in log[s].notes : f.type \in {"SUCC", "FAIL"} => Stored(f.m)

\* One connection never gets a message more often than its sender sent it: live
\* forwarding by onChat and the resend of activateSession do not overlap.
NoDuplicateOnSession ==
  \A s \in Sessions, m \in Msgs : log[s].got[m] <= sends[m]

SessionsOf(u) == {s \in Sessions : userId[s] = u}

\* Of two users who log in at the same time, each learns that the other is online:
\* activateSession records itself before it looks for its friends.  (A user who has
\* only ever had this one connection: for others see the README on kicks.)
LoginsSeeEachOther ==
  Quiet =>
    \A s, t \in Sessions :
      /\ Active(s) /\ Active(t) /\ userId[s] # userId[t]
      /\ SessionsOf(userId[s]) = {s}
      => log[t].told[userId[s]] = "ONLINE"

\* No message waits in the database for a user who is online, also after a crash
\* between pushing it and marking it, or between saving and delivering; except one
\* that onChat looked up a receiver for, in vain, before a login of the receiver and
\* saved after that login's pullUndelivered.
NothingWaitsForActive ==
  Quiet => \A i \in DOMAIN rows : ~rows[i].delivered /\ rows[i].m \notin overtaken =>
             \A s \in SessionsOf(To[rows[i].m]) : ~Active(s)

=============================================================================
