-------------------------- MODULE ChatServerProofs --------------------------
(***************************************************************************)
(* Proofs about ChatServer for any users, sessions, messages and strands,  *)
(* any distribution of sessions over strands and any number of requests    *)
(* and crashes.                                                            *)
(***************************************************************************)
EXTENDS ChatServer, FiniteSetTheorems, TLAPS

Kind == {"login", "chat", "offline", "bcast"}
Pc == {"bind", "replace", "friend", "tell", "pull", "push", "mark", "get", "save", "deliver",
       "offline", "friends"}
Status == {"ONLINE", "OFFLINE", "FRIEND_OFFLINE"}
News == Status \cup {None}

Task == [kind : Kind, pc : Pc, s : Sessions \cup {None}, u : Users \cup {None}, m : Msgs \cup {None},
         friend : Users \cup {None}, todo : SUBSET Users, target : Sessions \cup {None},
         pulled : SUBSET Nat, left : SUBSET Nat]

Row == [m : Msgs, seq : Nat \ {0}, delivered : BOOLEAN]

FrameType == Status \cup {"CHAT", "SUCC", "FAIL", "ERROR", "KICKED"}
Frame == [type : FrameType, u : Users \cup {None}, m : Msgs \cup {None}]

\* What a client makes of its frames.
Log == [Sessions -> [told : [Users -> News], got : [Msgs -> Nat], notes : SUBSET Frame]]

Typed ==
  /\ conn \in [Sessions -> {"unused", "open", "closed"}]
  /\ userId \in [Sessions -> Users \cup {None}]
  /\ closing \subseteq Sessions
  /\ presence \in [Users -> Sessions \cup {None}]
  /\ biz \in [Strands -> Seq(Task)]
  /\ rows \in Seq(Row) /\ \A i \in DOMAIN rows : rows[i].seq <= Len(rows)
  /\ log \in Log
  /\ asked \in 0..MaxAsk /\ sends \in [Msgs -> 0..MaxSend] /\ crashes \in 0..MaxCrash
  /\ overtaken \subseteq Msgs

\* What holds of a task on a strand, whatever has happened since it was posted: its
\* session was accepted, a login past "bind" is that of its session's user, a message
\* past "save" is in the table, rows are not deleted, and a user whose end is announced
\* had a connection that has ended.
TaskHolds(t) ==
  /\ t.kind = "login" =>
       /\ t.pc \in {"bind", "replace", "friend", "tell", "pull", "push", "mark"}
       /\ t.s \in Sessions /\ t.u \in Users /\ conn[t.s] # "unused"
       /\ t.pc # "bind" => userId[t.s] = t.u
       /\ t.pc = "tell" => t.friend \in Users
  /\ t.kind = "chat" =>
       /\ t.s \in Sessions /\ t.m \in Msgs
       /\ t.pc = "deliver" => Stored(t.m)
  /\ t.kind = "offline" => t.s \in Sessions
  /\ t.kind = "bcast" => t.u \in Users /\ \E s \in Sessions : conn[s] = "closed" /\ userId[s] = t.u
  /\ t.left \subseteq t.pulled /\ t.pulled \subseteq DOMAIN rows

TasksHold == \A t \in Tasks : TaskHolds(t)

\* A session gets its user after it was accepted.
UnusedHasNoUser == \A s \in Sessions : conn[s] = "unused" => userId[s] = None

\* An open session of user u that nobody has told to go.
Fresh(s, u) == conn[s] = "open" /\ userId[s] = u /\ s \notin closing

LoginTask(t, s) == t.kind = "login" /\ t.s = s

\* A login of s that has not come to Presence::replace.
Replaces(t, s) == LoginTask(t, s) /\ t.pc = "replace"
Replacing(s) == \E t \in Tasks : Replaces(t, s)

\* Such a session is the one on the map, or about to be.
Reachable ==
  \A s \in Sessions, u \in Users : Fresh(s, u) => presence[u] = s \/ Replacing(s)

\* What clients saw is in the table.
Seen ==
  \A s \in Sessions :
    /\ \A m \in Msgs : log[s].got[m] > 0 => Stored(m)
    /\ \A f \in log[s].notes : f.type \in {"SUCC", "FAIL"} => Stored(f.m)

\* A login of s that will still push row i, or has pushed it and will mark it.
Pushes(t, s, i) ==
  /\ LoginTask(t, s)
  /\ \/ t.pc \in {"replace", "friend", "tell", "pull"}
     \/ t.pc \in {"push", "mark"} /\ i \in t.pulled
WillPush(s, i) == \E t \in Tasks : Pushes(t, s, i)

\* A row that waits for a user with an open connection is in the hands of its login.
Waiting ==
  \A i \in DOMAIN rows, s \in Sessions :
    (/\ ~rows[i].delivered /\ rows[i].m \notin overtaken
     /\ userId[s] = To[rows[i].m] /\ conn[s] = "open") => WillPush(s, i)

\* A login of s that will still tell user v, or look at user v.
Tells(t, s, v) ==
  /\ LoginTask(t, s)
  /\ \/ t.pc = "replace"
     \/ t.pc \in {"friend", "tell"} /\ v \in t.todo
     \/ t.pc = "tell" /\ t.friend = v
Looks(t, s, v) ==
  /\ LoginTask(t, s)
  /\ \/ t.pc = "replace"
     \/ t.pc \in {"friend", "tell"} /\ v \in t.todo
WillTell(s, v) == \E t \in Tasks : Tells(t, s, v)
WillLook(s, v) == \E t \in Tasks : Looks(t, s, v)

OnlySession(s, u) == \A r \in Sessions : userId[r] = u => r = s

\* Of two sessions the one knows of the other, or one of the logins will see to it.
Told ==
  \A s, t \in Sessions, u, v \in Users :
    Fresh(s, u) /\ Fresh(t, v) /\ u # v /\ OnlySession(s, u) =>
      log[t].told[u] = "ONLINE" \/ WillTell(s, v) \/ WillLook(t, u)

IInv == Typed /\ TasksHold /\ UnusedHasNoUser /\ Reachable /\ Seen /\ Waiting /\ Told

-----------------------------------------------------------------------------
(* Strands and tasks.                                                      *)

\* The constants.
LEMMA ConstantFacts ==
  /\ Client \in [Sessions -> Users] /\ From \in [Msgs -> Users] /\ To \in [Msgs -> Users]
  /\ BizOf \in [Sessions -> Strands] /\ UserStrand \in [Users -> Strands]
  /\ None \notin Users /\ None \notin Sessions /\ None \notin Msgs
BY RoutingAssumption

\* A step seen from the tasks: h leaves, those of X come.
Turn(h, X) ==
  /\ biz' \in [Strands -> Seq(Task)]
  /\ Tasks' \subseteq Tasks \cup X /\ X \subseteq Tasks'
  /\ \A t \in Tasks : t = h \/ t \in Tasks'

\* The running task of a strand.
LEMMA HeadFacts ==
  ASSUME Typed, NEW k \in Strands, biz[k] # <<>>
  PROVE  Head(biz[k]) \in Tasks /\ Head(biz[k]) \in Task
<1>1. biz[k] \in Seq(Task)
  BY DEF Typed
<1>2. Head(biz[k]) = biz[k][1] /\ 1 \in DOMAIN biz[k] /\ biz[k][1] \in Task
  BY <1>1
<1> QED
  BY <1>2 DEF Tasks

\* Tasks are typed.
LEMMA TaskFacts ==
  ASSUME Typed, NEW t \in Tasks
  PROVE  t \in Task
<1>1. PICK k \in Strands : t \in {biz[k][i] : i \in DOMAIN biz[k]}
  BY DEF Tasks
<1>2. biz[k] \in Seq(Task)
  BY DEF Typed
<1> QED
  BY <1>1, <1>2

\* The running task is through.
LEMMA DoneFacts ==
  ASSUME Typed, NEW k \in Strands, biz[k] # <<>>, Done(k)
  PROVE  Turn(Head(biz[k]), {})
<1>1. biz \in [Strands -> Seq(Task)] /\ biz[k] \in Seq(Task)
  BY DEF Typed
<1>2. biz' = [biz EXCEPT ![k] = Tail(biz[k])]
  BY DEF Done
<1>3. Tail(biz[k]) \in Seq(Task)
  BY <1>1
<1>4. biz' \in [Strands -> Seq(Task)] /\ biz'[k] = Tail(biz[k])
      /\ \A j \in Strands : j # k => biz'[j] = biz[j]
  BY <1>1, <1>2, <1>3
<1>5. \A i \in DOMAIN Tail(biz[k]) : i + 1 \in DOMAIN biz[k] /\ Tail(biz[k])[i] = biz[k][i + 1]
  BY <1>1
<1>6. \A i \in DOMAIN biz[k] : i = 1 \/ (i - 1 \in DOMAIN Tail(biz[k]) /\ Tail(biz[k])[i - 1] = biz[k][i])
  BY <1>1
<1>7. Tasks' \subseteq Tasks
  BY <1>4, <1>5 DEF Tasks
<1>8. ASSUME NEW t \in Tasks
      PROVE  t = Head(biz[k]) \/ t \in Tasks'
  <2>1. PICK j \in Strands : \E i \in DOMAIN biz[j] : t = biz[j][i]
    BY DEF Tasks
  <2>2. CASE j # k
    BY <1>4, <2>1, <2>2 DEF Tasks
  <2>3. CASE j = k
    <3>1. PICK i \in DOMAIN biz[k] : t = biz[k][i]
      BY <2>1, <2>3
    <3>2. CASE i = 1
      BY <1>1, <3>1, <3>2
    <3>3. CASE i # 1
      <4>1. i - 1 \in DOMAIN biz'[k] /\ biz'[k][i - 1] = t
        BY <1>4, <1>6, <3>1, <3>3
      <4> QED
        BY <4>1 DEF Tasks
    <3> QED
      BY <3>2, <3>3
  <2> QED
    BY <2>2, <2>3
<1> QED
  BY <1>4, <1>7, <1>8 DEF Turn

\* The running task goes on.
LEMMA GotoFacts ==
  ASSUME Typed, NEW k \in Strands, biz[k] # <<>>, NEW x \in Task, Goto(k, x)
  PROVE  Turn(Head(biz[k]), {x})
<1>1. biz \in [Strands -> Seq(Task)] /\ biz[k] \in Seq(Task)
  BY DEF Typed
<1> DEFINE q == <<x>> \o Tail(biz[k])
<1>2. biz' = [biz EXCEPT ![k] = q]
  BY DEF Goto
<1>3. q \in Seq(Task) /\ Len(q) = Len(biz[k]) /\ q[1] = x /\ 1 \in DOMAIN q /\ DOMAIN q = DOMAIN biz[k]
  BY <1>1
<1>4. \A i \in DOMAIN biz[k] : i # 1 => q[i] = biz[k][i]
  BY <1>1
<1> HIDE DEF q
<1>5. biz' \in [Strands -> Seq(Task)] /\ biz'[k] = q
      /\ \A j \in Strands : j # k => biz'[j] = biz[j]
  BY <1>1, <1>2, <1>3
<1>6. Tasks' \subseteq Tasks \cup {x}
  <2>1. ASSUME NEW t \in Tasks'
        PROVE  t \in Tasks \cup {x}
    <3>1. PICK j \in Strands : \E i \in DOMAIN biz'[j] : t = biz'[j][i]
      BY <2>1 DEF Tasks
    <3>2. CASE j # k
      BY <1>5, <3>1, <3>2 DEF Tasks
    <3>3. CASE j = k
      BY <1>3, <1>4, <1>5, <3>1, <3>3 DEF Tasks
    <3> QED
      BY <3>2, <3>3
  <2> QED
    BY <2>1
<1>7. x \in Tasks'
  BY <1>3, <1>5 DEF Tasks
<1>8. ASSUME NEW t \in Tasks
      PROVE  t = Head(biz[k]) \/ t \in Tasks'
  <2>1. PICK j \in Strands : \E i \in DOMAIN biz[j] : t = biz[j][i]
    BY DEF Tasks
  <2>2. CASE j # k
    BY <1>5, <2>1, <2>2 DEF Tasks
  <2>3. CASE j = k
    <3>1. Head(biz[k]) = biz[k][1]
      BY <1>1
    <3> QED
      BY <1>3, <1>4, <1>5, <2>1, <2>3, <3>1 DEF Tasks
  <2> QED
    BY <2>2, <2>3
<1> QED
  BY <1>5, <1>6, <1>7, <1>8 DEF Turn

\* A task is posted.
LEMMA PostFacts ==
  ASSUME Typed, NEW k \in Strands, NEW x \in Task, biz' = [biz EXCEPT ![k] = Append(@, x)]
  PROVE  Turn(x, {x})
<1>1. biz \in [Strands -> Seq(Task)] /\ biz[k] \in Seq(Task)
  BY DEF Typed
<1> DEFINE q == Append(biz[k], x)
<1>2. biz' = [biz EXCEPT ![k] = q]
  OBVIOUS
<1>3. /\ q \in Seq(Task) /\ Len(biz[k]) + 1 \in DOMAIN q /\ q[Len(biz[k]) + 1] = x
      /\ \A i \in DOMAIN biz[k] : i \in DOMAIN q /\ q[i] = biz[k][i]
      /\ \A i \in DOMAIN q : i \in DOMAIN biz[k] \/ i = Len(biz[k]) + 1
  BY <1>1
<1> HIDE DEF q
<1>4. biz' \in [Strands -> Seq(Task)] /\ biz'[k] = q
      /\ \A j \in Strands : j # k => biz'[j] = biz[j]
  BY <1>1, <1>2, <1>3
<1>5. Tasks' \subseteq Tasks \cup {x}
  <2>1. ASSUME NEW t \in Tasks'
        PROVE  t \in Tasks \cup {x}
    <3>1. PICK j \in Strands : \E i \in DOMAIN biz'[j] : t = biz'[j][i]
      BY <2>1 DEF Tasks
    <3>2. CASE j # k
      BY <1>4, <3>1, <3>2 DEF Tasks
    <3>3. CASE j = k
      BY <1>3, <1>4, <3>1, <3>3 DEF Tasks
    <3> QED
      BY <3>2, <3>3
  <2> QED
    BY <2>1
<1>6. x \in Tasks'
  BY <1>3, <1>4 DEF Tasks
<1>7. ASSUME NEW t \in Tasks
      PROVE  t \in Tasks'
  <2>1. PICK j \in Strands : \E i \in DOMAIN biz[j] : t = biz[j][i]
    BY DEF Tasks
  <2>2. CASE j # k
    BY <1>4, <2>1, <2>2 DEF Tasks
  <2>3. CASE j = k
    BY <1>3, <1>4, <2>1, <2>3 DEF Tasks
  <2> QED
    BY <2>2, <2>3
<1> QED
  BY <1>4, <1>5, <1>6, <1>7 DEF Turn

-----------------------------------------------------------------------------
(* Frames and rows.                                                        *)

\* What deliver() changes: only what the client of an open session knows.
LEMMA DeliverFacts ==
  ASSUME Typed, NEW l \in Log, NEW s \in Sessions \cup {None}, NEW f \in Frame,
         f.u # None => f.type \in Status,
         f.u = None /\ f.type = "CHAT" => f.m \in Msgs
  PROVE  /\ Deliver(l, s, f) \in Log
         /\ \A r \in Sessions :
              /\ \A m \in Msgs : \/ Deliver(l, s, f)[r].got[m] = l[r].got[m]
                                 \/ /\ f.u = None /\ f.type = "CHAT" /\ f.m = m /\ r = s
                                    /\ Deliver(l, s, f)[r].got[m] = l[r].got[m] + 1
              /\ \A g \in Deliver(l, s, f)[r].notes :
                    g \in l[r].notes \/ (g = f /\ f.u = None /\ f.type # "CHAT")
              /\ \A v \in Users : \/ Deliver(l, s, f)[r].told[v] = l[r].told[v]
                                  \/ v = f.u /\ r = s /\ Deliver(l, s, f)[r].told[v] = f.type
         /\ s \in Sessions /\ conn[s] = "open" /\ f.u # None =>
              Deliver(l, s, f)[s].told[f.u] = f.type
<1> DEFINE d == Deliver(l, s, f)
<1>1. CASE ~(s # None /\ conn[s] = "open")
  <2>1. d = l
    BY <1>1 DEF Deliver
  <2>2. ~(s \in Sessions /\ conn[s] = "open")
    BY <1>1, ConstantFacts
  <2> QED
    BY <2>1, <2>2
<1>2. CASE s # None /\ conn[s] = "open"
  <2>1. d = [l EXCEPT ![s] = Take(l[s], f)] /\ s \in Sessions
    BY <1>2 DEF Deliver
  <2>2. /\ l[s] \in [told : [Users -> News], got : [Msgs -> Nat], notes : SUBSET Frame]
        /\ f.u \in Users \cup {None} /\ f.m \in Msgs \cup {None}
    BY <2>1 DEF Log, Frame
  <2> DEFINE n == Take(l[s], f)
  <2>3. CASE f.u # None
    <3>1. n = [l[s] EXCEPT !.told = [l[s].told EXCEPT ![f.u] = f.type]]
      BY <2>3 DEF Take, Status
    <3>2. /\ n \in [told : [Users -> News], got : [Msgs -> Nat], notes : SUBSET Frame]
          /\ n.got = l[s].got /\ n.notes = l[s].notes /\ n.told[f.u] = f.type
          /\ \A v \in Users : v # f.u => n.told[v] = l[s].told[v]
      BY <2>2, <2>3, <3>1 DEF News
    <3> HIDE DEF n
    <3>3. d = [l EXCEPT ![s] = n]
      BY <2>1 DEF n
    <3>4. d[s] = n /\ \A r \in Sessions : r # s => d[r] = l[r]
      BY <2>1, <3>3 DEF Log
    <3>5. d \in Log
      BY <3>2, <3>3 DEF Log
    <3> HIDE DEF d
    <3> QED
      BY <2>1, <2>3, <3>2, <3>4, <3>5 DEF d
  <2>4. CASE f.u = None /\ f.type = "CHAT"
    <3>1. n = [l[s] EXCEPT !.got = [l[s].got EXCEPT ![f.m] = l[s].got[f.m] + 1]] /\ f.m \in Msgs
      BY <2>4 DEF Take
    <3>2. /\ n \in [told : [Users -> News], got : [Msgs -> Nat], notes : SUBSET Frame]
          /\ n.told = l[s].told /\ n.notes = l[s].notes
          /\ \A m \in Msgs : m # f.m => n.got[m] = l[s].got[m]
          /\ n.got[f.m] = l[s].got[f.m] + 1
      BY <2>2, <3>1
    <3> HIDE DEF n
    <3>3. d = [l EXCEPT ![s] = n]
      BY <2>1 DEF n
    <3>4. d[s] = n /\ \A r \in Sessions : r # s => d[r] = l[r]
      BY <2>1, <3>3 DEF Log
    <3>5. d \in Log
      BY <3>2, <3>3 DEF Log
    <3> HIDE DEF d
    <3> QED
      BY <2>1, <2>4, <3>2, <3>4, <3>5 DEF d
  <2>5. CASE f.u = None /\ f.type # "CHAT"
    <3>1. n = [l[s] EXCEPT !.notes = l[s].notes \cup {f}]
      BY <2>5 DEF Take
    <3>2. /\ n \in [told : [Users -> News], got : [Msgs -> Nat], notes : SUBSET Frame]
          /\ n.told = l[s].told /\ n.got = l[s].got /\ n.notes = l[s].notes \cup {f}
      BY <2>2, <3>1
    <3> HIDE DEF n
    <3>3. d = [l EXCEPT ![s] = n]
      BY <2>1 DEF n
    <3>4. d[s] = n /\ \A r \in Sessions : r # s => d[r] = l[r]
      BY <2>1, <3>3 DEF Log
    <3>5. d \in Log
      BY <3>2, <3>3 DEF Log
    <3> HIDE DEF d
    <3> QED
      BY <2>1, <2>5, <3>2, <3>4, <3>5 DEF d
  <2> QED
    BY <2>3, <2>4, <2>5
<1> QED
  BY <1>1, <1>2

\* Presence::get() is a session or None, and finds the open session on record.
LEMMA GetFacts ==
  ASSUME Typed, NEW u \in Users
  PROVE  /\ Get(u) \in Sessions \cup {None}
         /\ Get(u) # None => Get(u) = presence[u]
         /\ \A s \in Sessions : presence[u] = s /\ conn[s] = "open" => Get(u) = s
BY ConstantFacts DEF Typed, Get, Alive

\* A set of numbers with a bound has a largest one.
LEMMA MaxFacts ==
  ASSUME NEW n \in Nat, NEW S \in SUBSET (0..n), S # {}
  PROVE  Max(S) \in S
<1> DEFINE D == {n - x : x \in S}
           R == {p \in Nat \X Nat : p[1] < p[2]}
<1>1. D \subseteq Nat /\ D # {}
  <2>1. \A x \in S : n - x \in Nat
    OBVIOUS
  <2>2. PICK x \in S : TRUE
    OBVIOUS
  <2> QED
    BY <2>1, <2>2
<1>2. R = OpToRel(<, Nat)
  BY DEF OpToRel
<1> HIDE DEF R
<1>3. IsWellFoundedOn(R, Nat)
  BY <1>2, NatLessThanWellFounded, Zenon
<1> HIDE DEF D
<1>4. \E d \in D : \A e \in D : ~(<<e, d>> \in R)
  BY <1>1, <1>3, WFMin
<1>5. \E x \in S : \A y \in S : x >= y
  <2>1. PICK d \in D : \A e \in D : ~(<<e, d>> \in R)
    BY <1>4
  <2>2. PICK x \in S : d = n - x
    BY <2>1 DEF D
  <2>3. ASSUME NEW y \in S
        PROVE  x >= y
    <3>1. n - y \in D /\ n - y \in Nat /\ d \in Nat /\ <<n - y, d>> \notin R
      BY <1>1, <2>1 DEF D
    <3>2. ~(n - y < d)
      BY <3>1 DEF R
    <3> QED
      BY <2>2, <3>1, <3>2
  <2> QED
    BY <2>3
<1> QED
  BY <1>5 DEF Max

\* The rows of the table.
LEMMA RowFacts ==
  ASSUME Typed, NEW i \in DOMAIN rows
  PROVE  rows[i] \in Row /\ rows[i].m \in Msgs
<1>1. rows \in Seq(Row)
  BY DEF Typed
<1>2. rows[i] \in Row
  BY <1>1
<1> QED
  BY <1>2 DEF Row

\* The next sequence number of a conversation is at most the number of the new row.
LEMMA NextSeqFacts ==
  ASSUME Typed, NEW m \in Msgs
  PROVE  NextSeq(m) \in Nat \ {0} /\ NextSeq(m) <= Len(rows) + 1
<1> DEFINE S == {rows[i].seq : i \in {j \in DOMAIN rows : Conversation(rows[j].m) = Conversation(m)}} \cup {0}
<1>1. Len(rows) \in Nat /\ \A i \in DOMAIN rows : rows[i].seq \in 0..Len(rows)
  <2>1. rows \in Seq(Row) /\ \A i \in DOMAIN rows : rows[i].seq <= Len(rows)
    BY DEF Typed
  <2>2. \A i \in DOMAIN rows : rows[i] \in Row
    BY <2>1
  <2>3. \A i \in DOMAIN rows : rows[i].seq \in Nat
    BY <2>2 DEF Row
  <2>4. Len(rows) \in Nat
    BY <2>1
  <2> QED
    BY <2>1, <2>3, <2>4
<1>2. S \in SUBSET (0..Len(rows)) /\ S # {}
  BY <1>1
<1>3. NextSeq(m) = 1 + Max(S)
  BY DEF NextSeq
<1> HIDE DEF S
<1>4. Max(S) \in S
  BY <1>1, <1>2, MaxFacts
<1>5. Max(S) \in 0..Len(rows)
  BY <1>2, <1>4
<1> QED
  BY <1>1, <1>3, <1>5

-----------------------------------------------------------------------------
(* What each step does, in terms of the task that moves.                   *)

\* The frames of the handlers.
LEMMA FrameFacts ==
  /\ Kicked \in Frame /\ Kicked.u = None /\ Kicked.type = "KICKED"
  /\ \A m \in Msgs : Chat(m) \in Frame /\ Chat(m).u = None /\ Chat(m).type = "CHAT" /\ Chat(m).m = m
  /\ \A m \in Msgs, r \in {"SUCC", "FAIL", "ERROR"} :
        Ack(m, r) \in Frame /\ Ack(m, r).u = None /\ Ack(m, r).type = r /\ Ack(m, r).m = m
  /\ \A u \in Users : /\ FriendOffline(u) \in Frame /\ FriendOffline(u).u = u
                      /\ FriendOffline(u).type = "FRIEND_OFFLINE"
  /\ \A u \in Users : /\ FriendInfo(u, TRUE) \in Frame /\ FriendInfo(u, TRUE).u = u
                      /\ FriendInfo(u, TRUE).type = "ONLINE"
                      /\ FriendInfo(u, FALSE) \in Frame /\ FriendInfo(u, FALSE).u = u
                      /\ FriendInfo(u, FALSE).type = "OFFLINE"
<1>1. Kicked \in Frame /\ Kicked.u = None /\ Kicked.type = "KICKED"
  BY DEF Frame, FrameType, Status, Kicked
<1>2. ASSUME NEW m \in Msgs
      PROVE  Chat(m) \in Frame /\ Chat(m).u = None /\ Chat(m).type = "CHAT" /\ Chat(m).m = m
  BY DEF Frame, FrameType, Status, Chat
<1>3. ASSUME NEW m \in Msgs, NEW r \in {"SUCC", "FAIL", "ERROR"}
      PROVE  Ack(m, r) \in Frame /\ Ack(m, r).u = None /\ Ack(m, r).type = r /\ Ack(m, r).m = m
  BY DEF Frame, FrameType, Ack
<1>4. ASSUME NEW u \in Users
      PROVE  /\ FriendOffline(u) \in Frame /\ FriendOffline(u).u = u
             /\ FriendOffline(u).type = "FRIEND_OFFLINE"
  BY DEF Frame, FrameType, Status, FriendOffline
<1>5. ASSUME NEW u \in Users
      PROVE  /\ FriendInfo(u, TRUE) \in Frame /\ FriendInfo(u, TRUE).u = u
             /\ FriendInfo(u, TRUE).type = "ONLINE"
             /\ FriendInfo(u, FALSE) \in Frame /\ FriendInfo(u, FALSE).u = u
             /\ FriendInfo(u, FALSE).type = "OFFLINE"
  <2>1. /\ FriendInfo(u, TRUE) \in Frame /\ FriendInfo(u, TRUE).u = u
        /\ FriendInfo(u, TRUE).type = "ONLINE"
    BY DEF Frame, FrameType, Status, FriendInfo
  <2>2. /\ FriendInfo(u, FALSE) \in Frame /\ FriendInfo(u, FALSE).u = u
        /\ FriendInfo(u, FALSE).type = "OFFLINE"
    BY DEF Frame, FrameType, Status, FriendInfo
  <2> QED
    BY <2>1, <2>2
<1> QED
  BY <1>1, <1>2, <1>3, <1>4, <1>5

\* deliver() of a note, of a message and of news.
LEMMA DeliverNote ==
  ASSUME Typed, NEW l \in Log, NEW s \in Sessions \cup {None}, NEW f \in Frame,
         f.u = None, f.type # "CHAT"
  PROVE  /\ Deliver(l, s, f) \in Log
         /\ \A r \in Sessions :
              /\ \A m \in Msgs : Deliver(l, s, f)[r].got[m] = l[r].got[m]
              /\ \A g \in Deliver(l, s, f)[r].notes : g \in l[r].notes \/ g = f
              /\ \A v \in Users : Deliver(l, s, f)[r].told[v] = l[r].told[v]
<1>1. ~(f.u # None) /\ ~(f.u = None /\ f.type = "CHAT") /\ \A v \in Users : v # f.u
  BY ConstantFacts
<1>2. /\ Deliver(l, s, f) \in Log
      /\ \A r \in Sessions :
           /\ \A m \in Msgs : \/ Deliver(l, s, f)[r].got[m] = l[r].got[m]
                              \/ /\ f.u = None /\ f.type = "CHAT" /\ f.m = m /\ r = s
                                 /\ Deliver(l, s, f)[r].got[m] = l[r].got[m] + 1
           /\ \A g \in Deliver(l, s, f)[r].notes :
                 g \in l[r].notes \/ (g = f /\ f.u = None /\ f.type # "CHAT")
           /\ \A v \in Users : \/ Deliver(l, s, f)[r].told[v] = l[r].told[v]
                               \/ v = f.u /\ r = s /\ Deliver(l, s, f)[r].told[v] = f.type
  BY <1>1, DeliverFacts
<1> QED
  BY <1>1, <1>2

\* A message.
LEMMA DeliverChat ==
  ASSUME Typed, NEW l \in Log, NEW s \in Sessions \cup {None}, NEW m \in Msgs
  PROVE  /\ Deliver(l, s, Chat(m)) \in Log
         /\ \A r \in Sessions :
              /\ \A n \in Msgs : \/ Deliver(l, s, Chat(m))[r].got[n] = l[r].got[n]
                                 \/ /\ n = m /\ r = s
                                    /\ Deliver(l, s, Chat(m))[r].got[n] = l[r].got[n] + 1
              /\ \A g \in Deliver(l, s, Chat(m))[r].notes : g \in l[r].notes
              /\ \A v \in Users : Deliver(l, s, Chat(m))[r].told[v] = l[r].told[v]
<1>1. /\ Chat(m) \in Frame /\ Chat(m).u = None /\ Chat(m).type = "CHAT" /\ Chat(m).m = m
      /\ \A v \in Users : v # Chat(m).u
  BY FrameFacts, ConstantFacts
<1>2. PICK f \in Frame : f = Chat(m)
  BY <1>1
<1>3. ~(f.u # None) /\ f.m \in Msgs /\ ~(f.type # "CHAT")
  BY <1>1, <1>2
<1> QED
  BY <1>1, <1>2, <1>3, DeliverFacts

\* A message and its receipt.
LEMMA DeliverBoth ==
  ASSUME Typed, NEW s \in Sessions \cup {None}, NEW g \in Sessions \cup {None}, NEW m \in Msgs,
         NEW res \in {"SUCC", "FAIL", "ERROR"},
         log' = Deliver(Deliver(log, s, Chat(m)), g, Ack(m, res))
  PROVE  /\ log' \in Log
         /\ \A r \in Sessions :
              /\ \A n \in Msgs : \/ log'[r].got[n] = log[r].got[n]
                                 \/ n = m /\ r = s /\ log'[r].got[n] = log[r].got[n] + 1
              /\ \A e \in log'[r].notes : e \in log[r].notes \/ e.m = m
              /\ \A v \in Users : log'[r].told[v] = log[r].told[v]
<1>1. log \in Log
  BY DEF Typed
<1>2. PICK a \in Frame : a = Ack(m, res) /\ a.u = None /\ a.type = res /\ a.m = m
  BY FrameFacts
<1>3. /\ Deliver(log, s, Chat(m)) \in Log
      /\ \A r \in Sessions :
           /\ \A n \in Msgs : \/ Deliver(log, s, Chat(m))[r].got[n] = log[r].got[n]
                              \/ /\ n = m /\ r = s
                                 /\ Deliver(log, s, Chat(m))[r].got[n] = log[r].got[n] + 1
           /\ \A e \in Deliver(log, s, Chat(m))[r].notes : e \in log[r].notes
           /\ \A v \in Users : Deliver(log, s, Chat(m))[r].told[v] = log[r].told[v]
  BY <1>1, DeliverChat
<1> DEFINE l == Deliver(log, s, Chat(m))
<1>4. /\ l \in Log
      /\ \A r \in Sessions :
           /\ \A n \in Msgs : \/ l[r].got[n] = log[r].got[n]
                              \/ n = m /\ r = s /\ l[r].got[n] = log[r].got[n] + 1
           /\ \A e \in l[r].notes : e \in log[r].notes
           /\ \A v \in Users : l[r].told[v] = log[r].told[v]
  BY <1>3
<1>5. log' = Deliver(l, g, a) /\ a.u = None /\ a.type # "CHAT"
  BY <1>2
<1> HIDE DEF l
<1>6. PICK d \in Log : d = l
  BY <1>4
<1>7. /\ Deliver(d, g, a) \in Log
      /\ \A r \in Sessions :
           /\ \A n \in Msgs : Deliver(d, g, a)[r].got[n] = d[r].got[n]
           /\ \A e \in Deliver(d, g, a)[r].notes : e \in d[r].notes \/ e = a
           /\ \A v \in Users : Deliver(d, g, a)[r].told[v] = d[r].told[v]
  <2>1. a.u = None
    BY <1>2
  <2>2. a.type # "CHAT"
    BY <1>2
  <2>3. Deliver(d, g, a) \in Log
    BY <2>1, <2>2, DeliverNote
  <2>4. \A r \in Sessions, n \in Msgs : Deliver(d, g, a)[r].got[n] = d[r].got[n]
    BY <2>1, <2>2, DeliverNote
  <2>5. \A r \in Sessions : \A e \in Deliver(d, g, a)[r].notes : e \in d[r].notes \/ e = a
    BY <2>1, <2>2, DeliverNote
  <2>6. \A r \in Sessions : \A v \in Users : Deliver(d, g, a)[r].told[v] = d[r].told[v]
    BY <2>1, <2>2, DeliverNote
  <2> QED
    BY <2>3, <2>4, <2>5, <2>6
<1> QED
  BY <1>2, <1>4, <1>5, <1>6, <1>7

\* News.
LEMMA DeliverNews ==
  ASSUME Typed, NEW l \in Log, NEW s \in Sessions \cup {None}, NEW f \in Frame,
         f.u \in Users, f.type \in Status
  PROVE  /\ Deliver(l, s, f) \in Log
         /\ \A r \in Sessions :
              /\ \A m \in Msgs : Deliver(l, s, f)[r].got[m] = l[r].got[m]
              /\ \A g \in Deliver(l, s, f)[r].notes : g \in l[r].notes
              /\ \A v \in Users : \/ Deliver(l, s, f)[r].told[v] = l[r].told[v]
                                  \/ v = f.u /\ r = s /\ Deliver(l, s, f)[r].told[v] = f.type
         /\ s \in Sessions /\ conn[s] = "open" => Deliver(l, s, f)[s].told[f.u] = f.type
<1>1. f.u # None
  BY ConstantFacts
<1> QED
  BY <1>1, DeliverFacts

\* The task a handler runs.
LEMMA RunningFacts ==
  ASSUME IInv, NEW k \in Strands, NEW kind, NEW pc, Running(k, kind, pc)
  PROVE  \E h \in Tasks : /\ h = Head(biz[k]) /\ biz[k] # <<>> /\ h \in Task /\ TaskHolds(h)
                          /\ h.kind = kind /\ h.pc = pc
<1>1. Typed /\ TasksHold /\ biz[k] # <<>>
  BY DEF IInv, Running
<1>2. Head(biz[k]) \in Tasks /\ Head(biz[k]) \in Task
  BY <1>1, HeadFacts
<1> QED
  BY <1>1, <1>2 DEF Running, TasksHold

\* A posted request.
LEMMA NewTaskFacts ==
  ASSUME NEW kind \in Kind, NEW pc \in Pc, NEW s \in Sessions \cup {None},
         NEW u \in Users \cup {None}, NEW m \in Msgs \cup {None}
  PROVE  /\ NewTask(kind, pc, s, u, m) \in Task
         /\ NewTask(kind, pc, s, u, m).kind = kind /\ NewTask(kind, pc, s, u, m).pc = pc
         /\ NewTask(kind, pc, s, u, m).s = s /\ NewTask(kind, pc, s, u, m).u = u
         /\ NewTask(kind, pc, s, u, m).m = m
         /\ NewTask(kind, pc, s, u, m).pulled = {} /\ NewTask(kind, pc, s, u, m).left = {}
BY DEF NewTask, Task

\* A client's request comes to the strand of its session.
LEMMA SendFacts ==
  ASSUME IInv, NEW s \in Sessions,
         SendLogin(s) \/ SendOffline(s) \/ \E m \in Msgs : SendChat(s, m)
  PROVE  /\ \E x \in Task : /\ Turn(x, {x}) /\ TaskHolds(x)
                            /\ x.pc \in {"bind", "offline", "get"} /\ x.pulled = {} /\ x.left = {}
         /\ UNCHANGED <<conn, userId, closing, presence, rows, log, crashes, overtaken>>
         /\ asked' \in 0..MaxAsk /\ sends' \in [Msgs -> 0..MaxSend]
<1>0. Typed /\ BizOf[s] \in Strands
  BY ConstantFacts DEF IInv
<1>1. CASE SendLogin(s)
  <2> DEFINE x == NewTask("login", "bind", s, Client[s], None)
  <2>1. /\ conn[s] = "open" /\ biz' = [biz EXCEPT ![BizOf[s]] = Append(@, x)]
        /\ UNCHANGED <<conn, userId, closing, presence, rows, log, crashes, overtaken, sends>>
        /\ asked < MaxAsk /\ asked' = asked + 1
    BY <1>1 DEF SendLogin, Ask, Post
  <2>2. /\ x \in Task /\ x.kind = "login" /\ x.pc = "bind" /\ x.s = s /\ x.u = Client[s]
        /\ x.pulled = {} /\ x.left = {}
    <3>1. /\ "login" \in Kind /\ "bind" \in Pc /\ s \in Sessions \cup {None}
          /\ Client[s] \in Users \cup {None} /\ None \in Msgs \cup {None}
      BY ConstantFacts DEF Kind, Pc
    <3> QED
      BY <3>1, NewTaskFacts
  <2> HIDE DEF x
  <2>3. Turn(x, {x})
    BY <1>0, <2>1, <2>2, PostFacts
  <2>4. TaskHolds(x)
    BY <2>1, <2>2, ConstantFacts DEF TaskHolds
  <2>5. asked' \in 0..MaxAsk /\ sends' \in [Msgs -> 0..MaxSend]
    BY <1>0, <2>1, RoutingAssumption DEF Typed
  <2> QED
    BY <2>1, <2>2, <2>3, <2>4, <2>5
<1>2. CASE SendOffline(s)
  <2> DEFINE x == NewTask("offline", "offline", s, None, None)
  <2>1. /\ conn[s] = "open" /\ biz' = [biz EXCEPT ![BizOf[s]] = Append(@, x)]
        /\ UNCHANGED <<conn, userId, closing, presence, rows, log, crashes, overtaken, sends>>
        /\ asked < MaxAsk /\ asked' = asked + 1
    BY <1>2 DEF SendOffline, Ask, Post
  <2>2. /\ x \in Task /\ x.kind = "offline" /\ x.pc = "offline" /\ x.s = s
        /\ x.pulled = {} /\ x.left = {}
    BY NewTaskFacts DEF Kind, Pc
  <2> HIDE DEF x
  <2>3. Turn(x, {x})
    BY <1>0, <2>1, <2>2, PostFacts
  <2>4. TaskHolds(x)
    BY <2>1, <2>2 DEF TaskHolds
  <2>5. asked' \in 0..MaxAsk /\ sends' \in [Msgs -> 0..MaxSend]
    BY <1>0, <2>1, RoutingAssumption DEF Typed
  <2> QED
    BY <2>1, <2>2, <2>3, <2>4, <2>5
<1>3. CASE \E m \in Msgs : SendChat(s, m)
  <2>0. PICK m \in Msgs : SendChat(s, m)
    BY <1>3
  <2> DEFINE x == NewTask("chat", "get", s, None, m)
  <2>1. /\ conn[s] = "open" /\ biz' = [biz EXCEPT ![BizOf[s]] = Append(@, x)]
        /\ UNCHANGED <<conn, userId, closing, presence, rows, log, crashes, overtaken, asked>>
        /\ sends[m] < MaxSend /\ sends' = [sends EXCEPT ![m] = sends[m] + 1]
    BY <2>0 DEF SendChat, Post
  <2>2. /\ x \in Task /\ x.kind = "chat" /\ x.pc = "get" /\ x.s = s /\ x.m = m
        /\ x.pulled = {} /\ x.left = {}
    BY NewTaskFacts DEF Kind, Pc
  <2> HIDE DEF x
  <2>3. Turn(x, {x})
    BY <1>0, <2>1, <2>2, PostFacts
  <2>4. TaskHolds(x)
    BY <2>1, <2>2 DEF TaskHolds
  <2>5. asked' \in 0..MaxAsk /\ sends' \in [Msgs -> 0..MaxSend]
    <3>1. sends[m] + 1 \in 0..MaxSend
      BY <1>0, <2>1, RoutingAssumption DEF Typed
    <3> QED
      BY <1>0, <2>1, <3>1 DEF Typed
  <2> QED
    BY <2>1, <2>2, <2>3, <2>4, <2>5
<1> QED
  BY <1>1, <1>2, <1>3

\* What nobody takes back: an ended connection, the user of a session, the message of
\* a row.
Grows ==
  /\ \A s \in Sessions : /\ conn[s] # "unused" => conn'[s] # "unused"
                         /\ conn[s] = "closed" => conn'[s] = "closed"
                         /\ userId[s] # None => userId'[s] = userId[s]
  /\ DOMAIN rows \subseteq DOMAIN rows'
  /\ \A i \in DOMAIN rows : rows'[i].m = rows[i].m

\* A stored message stays stored.
LEMMA StoredKept ==
  ASSUME Grows, NEW m, Stored(m)
  PROVE  Stored(m)'
BY DEF Grows, Stored

\* What holds of a task goes on holding.
LEMMA TaskKept ==
  ASSUME Grows, NEW t, TaskHolds(t)
  PROVE  TaskHolds(t)'
<1>1. t.kind = "login" =>
        /\ t.pc \in {"bind", "replace", "friend", "tell", "pull", "push", "mark"}
        /\ t.s \in Sessions /\ t.u \in Users /\ conn'[t.s] # "unused"
        /\ t.pc # "bind" => userId'[t.s] = t.u
        /\ t.pc = "tell" => t.friend \in Users
  BY ConstantFacts DEF Grows, TaskHolds
<1>2. t.kind = "chat" =>
        /\ t.s \in Sessions /\ t.m \in Msgs
        /\ t.pc = "deliver" => Stored(t.m)'
  BY StoredKept DEF TaskHolds
<1>3. t.kind = "bcast" => t.u \in Users /\ \E s \in Sessions : conn'[s] = "closed" /\ userId'[s] = t.u
  BY ConstantFacts DEF Grows, TaskHolds
<1>4. t.left \subseteq t.pulled /\ t.pulled \subseteq DOMAIN rows'
  BY DEF Grows, TaskHolds
<1> QED
  BY <1>1, <1>2, <1>3, <1>4 DEF TaskHolds

\* All tasks hold, if the new ones do.
LEMMA TasksKept ==
  ASSUME TasksHold, Grows, NEW h, NEW X, Turn(h, X), \A x \in X : TaskHolds(x)'
  PROVE  TasksHold'
<1>1. ASSUME NEW t \in Tasks'
      PROVE  TaskHolds(t)'
  <2>1. CASE t \in Tasks
    BY <2>1, TaskKept DEF TasksHold
  <2>2. CASE t \in X
    BY <2>2
  <2> QED
    BY <2>1, <2>2 DEF Turn
<1> QED
  BY <1>1 DEF TasksHold

\* What a task would do is still to be done, unless it was the one that moved; what a
\* new task will do is to be done.
LEMMA WillKept ==
  ASSUME NEW h, NEW X, Turn(h, X)
  PROVE  /\ \A s : Replacing(s) => Replacing(s)' \/ Replaces(h, s)
         /\ \A s, i : WillPush(s, i) => WillPush(s, i)' \/ Pushes(h, s, i)
         /\ \A s, v : WillTell(s, v) => WillTell(s, v)' \/ Tells(h, s, v)
         /\ \A s, v : WillLook(s, v) => WillLook(s, v)' \/ Looks(h, s, v)
         /\ \A x \in X : \A s : Replaces(x, s) => Replacing(s)'
         /\ \A x \in X : \A s, i : Pushes(x, s, i) => WillPush(s, i)'
         /\ \A x \in X : \A s, v : Tells(x, s, v) => WillTell(s, v)'
         /\ \A x \in X : \A s, v : Looks(x, s, v) => WillLook(s, v)'
BY DEF Turn, Replacing, WillPush, WillTell, WillLook

\* Steps that leave the sessions and the map alone keep Reachable.
LEMMA ReachableKept ==
  ASSUME Reachable, NEW h, NEW X, Turn(h, X), UNCHANGED <<conn, userId, closing, presence>>,
         h.kind # "login" \/ h.pc # "replace"
  PROVE  Reachable'
<1>1. \A s : Replacing(s) => Replacing(s)'
  BY WillKept DEF Replaces, LoginTask
<1>2. \A s, u : Fresh(s, u)' => Fresh(s, u)
  BY DEF Fresh
<1> QED
  BY <1>1, <1>2 DEF Reachable

\* What a step shows to clients is in the table.
ShowsStored ==
  \A s \in Sessions :
    /\ \A m \in Msgs : log'[s].got[m] = log[s].got[m] \/ Stored(m)
    /\ \A f \in log'[s].notes : f \in log[s].notes \/ f.type \notin {"SUCC", "FAIL"} \/ Stored(f.m)

\* Then Seen goes on holding.
LEMMA SeenKept ==
  ASSUME Seen, Grows, ShowsStored
  PROVE  Seen'
<1>1. ASSUME NEW s \in Sessions, NEW m \in Msgs, log'[s].got[m] > 0
      PROVE  Stored(m)'
  <2>1. Stored(m)
    BY <1>1 DEF ShowsStored, Seen
  <2> QED
    BY <2>1, StoredKept
<1>2. ASSUME NEW s \in Sessions, NEW f \in log'[s].notes, f.type \in {"SUCC", "FAIL"}
      PROVE  Stored(f.m)'
  <2>1. Stored(f.m)
    BY <1>2 DEF ShowsStored, Seen
  <2> QED
    BY <2>1, StoredKept
<1> QED
  BY <1>1, <1>2 DEF Seen

\* Steps that save nothing keep Waiting, if the moving login keeps hold of its rows.
LEMMA WaitingKept ==
  ASSUME Waiting, NEW h, NEW X, Turn(h, X), UNCHANGED <<userId, rows, overtaken>>,
         \A s \in Sessions : conn'[s] = "open" => conn[s] = "open",
         \A s \in Sessions, i \in DOMAIN rows :
           Pushes(h, s, i) /\ ~rows[i].delivered /\ userId[s] = To[rows[i].m] =>
             \E x \in X : Pushes(x, s, i)
  PROVE  Waiting'
<1> SUFFICES ASSUME NEW i \in DOMAIN rows', NEW s \in Sessions,
                    ~rows'[i].delivered, rows'[i].m \notin overtaken',
                    userId'[s] = To[rows'[i].m], conn'[s] = "open"
             PROVE  WillPush(s, i)'
  BY DEF Waiting
<1>1. /\ i \in DOMAIN rows /\ ~rows[i].delivered /\ rows[i].m \notin overtaken
      /\ userId[s] = To[rows[i].m] /\ conn[s] = "open"
  OBVIOUS
<1>2. WillPush(s, i)
  BY <1>1 DEF Waiting
<1>3. WillPush(s, i)' \/ Pushes(h, s, i)
  BY <1>2, WillKept
<1>4. Pushes(h, s, i) => \E x \in X : Pushes(x, s, i)
  BY <1>1
<1> QED
  BY <1>3, <1>4, WillKept

\* Steps that make no session fresh and take back no news keep Told, if the moving
\* login has still to see those it had to see.
LEMMA ToldKept ==
  ASSUME Told, NEW h, NEW X, Turn(h, X), UNCHANGED userId,
         \A s \in Sessions, u \in Users : Fresh(s, u)' => Fresh(s, u),
         \A s, t \in Sessions, u \in Users :
           Fresh(s, u) /\ OnlySession(s, u) /\ conn'[t] = "open" /\ log[t].told[u] = "ONLINE" =>
             log'[t].told[u] = "ONLINE",
         \A s \in Sessions, u, v \in Users : Fresh(s, u) /\ u # v =>
           /\ Tells(h, s, v) => \E x \in X : Tells(x, s, v)
           /\ Looks(h, s, v) => \E x \in X : Looks(x, s, v)
  PROVE  Told'
<1> SUFFICES ASSUME NEW s \in Sessions, NEW t \in Sessions, NEW u \in Users, NEW v \in Users,
                    Fresh(s, u)', Fresh(t, v)', u # v, OnlySession(s, u)'
             PROVE  log'[t].told[u] = "ONLINE" \/ WillTell(s, v)' \/ WillLook(t, u)'
  BY DEF Told
<1>1. Fresh(s, u) /\ Fresh(t, v) /\ OnlySession(s, u) /\ conn'[t] = "open"
  BY DEF OnlySession, Fresh
<1>2. log[t].told[u] = "ONLINE" \/ WillTell(s, v) \/ WillLook(t, u)
  BY <1>1 DEF Told
<1>3. CASE log[t].told[u] = "ONLINE"
  BY <1>1, <1>3
<1>4. CASE WillTell(s, v)
  <2>1. WillTell(s, v)' \/ Tells(h, s, v)
    BY <1>4, WillKept
  <2>2. Tells(h, s, v) => \E x \in X : Tells(x, s, v)
    BY <1>1
  <2> QED
    BY <2>1, <2>2, WillKept
<1>5. CASE WillLook(t, u)
  <2>1. WillLook(t, u)' \/ Looks(h, t, u)
    BY <1>5, WillKept
  <2>2. Looks(h, t, u) => \E x \in X : Looks(x, t, u)
    BY <1>1
  <2> QED
    BY <2>1, <2>2, WillKept
<1> QED
  BY <1>2, <1>3, <1>4, <1>5

-----------------------------------------------------------------------------
(* The steps.                                                              *)

\* A step of a handler that touches neither sessions, map nor table: everything but
\* Told follows from what it shows and how its task goes on.
LEMMA CalmStep ==
  ASSUME IInv, NEW h, NEW X, Turn(h, X), h.kind # "login" \/ h.pc # "replace",
         UNCHANGED <<conn, userId, closing, presence, rows, asked, sends, crashes, overtaken>>,
         log' \in Log, ShowsStored, \A x \in X : TaskHolds(x),
         \A s \in Sessions, i \in DOMAIN rows :
           Pushes(h, s, i) /\ ~rows[i].delivered /\ userId[s] = To[rows[i].m] =>
             \E x \in X : Pushes(x, s, i)
  PROVE  Typed' /\ TasksHold' /\ UnusedHasNoUser' /\ Reachable' /\ Seen' /\ Waiting'
<1>1. Typed /\ TasksHold /\ UnusedHasNoUser /\ Reachable /\ Seen /\ Waiting
  BY DEF IInv
<1>2. Grows
  BY DEF Grows
<1>3. Typed'
  <2>1. biz' \in [Strands -> Seq(Task)]
    BY DEF Turn
  <2> QED
    BY <1>1, <2>1 DEF Typed
<1>4. TasksHold'
  <2>1. \A x \in X : TaskHolds(x)'
    BY <1>2, TaskKept
  <2> QED
    BY <1>1, <1>2, <2>1, TasksKept
<1>5. UnusedHasNoUser'
  BY <1>1 DEF UnusedHasNoUser
<1>6. Reachable'
  BY <1>1, ReachableKept
<1>7. Seen'
  BY <1>1, <1>2, SeenKept
<1>8. Waiting'
  BY <1>1, WaitingKept
<1> QED
  BY <1>3, <1>4, <1>5, <1>6, <1>7, <1>8

\* Told after a step that leaves sessions and news alone, of a task that neither tells
\* nor looks.
LEMMA CalmTold ==
  ASSUME Told, NEW h, NEW X, Turn(h, X), UNCHANGED <<conn, userId, closing>>,
         h.kind = "login" => h.pc \notin {"replace", "friend", "tell"},
         \A t \in Sessions, u \in Users : log'[t].told[u] = log[t].told[u]
  PROVE  Told'
<1>1. \A s \in Sessions, u \in Users : Fresh(s, u)' => Fresh(s, u)
  BY DEF Fresh
<1>2. \A s \in Sessions, v \in Users : ~Tells(h, s, v) /\ ~Looks(h, s, v)
  BY DEF Tells, Looks, LoginTask
<1> QED
  BY <1>1, <1>2, ToldKept

\* A client posts a request.
LEMMA SendStep ==
  ASSUME IInv, NEW s \in Sessions,
         SendLogin(s) \/ SendOffline(s) \/ \E m \in Msgs : SendChat(s, m)
  PROVE  IInv'
<1>1. Typed /\ TasksHold /\ UnusedHasNoUser /\ Reachable /\ Seen /\ Waiting /\ Told
  BY DEF IInv
<1>2. PICK x \in Task : Turn(x, {x}) /\ TaskHolds(x) /\ x.pc \in {"bind", "offline", "get"}
  BY SendFacts
<1>3. /\ UNCHANGED <<conn, userId, closing, presence, rows, log, crashes, overtaken>>
      /\ asked' \in 0..MaxAsk /\ sends' \in [Msgs -> 0..MaxSend]
  BY SendFacts
<1>4. Grows
  BY <1>3 DEF Grows
<1>5. Typed'
  BY <1>1, <1>2, <1>3 DEF Typed, Turn
<1>6. TasksHold'
  <2>1. TaskHolds(x)'
    BY <1>2, <1>4, TaskKept
  <2> QED
    BY <1>1, <1>2, <1>4, <2>1, TasksKept
<1>7. UnusedHasNoUser'
  BY <1>1, <1>3 DEF UnusedHasNoUser
<1>8. Reachable'
  BY <1>1, <1>2, <1>3, ReachableKept
<1>9. Seen'
  <2>1. ShowsStored
    BY <1>3 DEF ShowsStored
  <2> QED
    BY <1>1, <1>4, <2>1, SeenKept
<1>10. Waiting'
  <2>1. \A r \in Sessions, i \in DOMAIN rows : ~Pushes(x, r, i)
    BY <1>2 DEF Pushes
  <2> QED
    BY <1>1, <1>2, <1>3, <2>1, WaitingKept
<1>11. Told'
  BY <1>1, <1>2, <1>3, CalmTold
<1> QED
  BY <1>5, <1>6, <1>7, <1>8, <1>9, <1>10, <1>11 DEF IInv

\* A connection is accepted.
LEMMA ConnectStep ==
  ASSUME IInv, NEW r \in Sessions, Connect(r)
  PROVE  IInv'
<1>1. Typed /\ TasksHold /\ UnusedHasNoUser /\ Reachable /\ Seen /\ Waiting /\ Told
  BY DEF IInv
<1>2. /\ conn[r] = "unused" /\ conn' = [conn EXCEPT ![r] = "open"]
      /\ UNCHANGED <<userId, closing, presence, biz, rows, log, asked, sends, crashes, overtaken>>
  BY DEF Connect, counters
<1>3. /\ conn' \in [Sessions -> {"unused", "open", "closed"}] /\ userId[r] = None
      /\ \A s \in Sessions : s # r => conn'[s] = conn[s]
      /\ conn'[r] = "open"
  BY <1>1, <1>2 DEF Typed, UnusedHasNoUser
<1>4. Grows
  BY <1>2, <1>3 DEF Grows
<1>5. Tasks' = Tasks
  BY <1>2 DEF Tasks
<1>6. Typed'
  BY <1>1, <1>2, <1>3 DEF Typed
<1>7. TasksHold'
  BY <1>1, <1>4, <1>5, TaskKept DEF TasksHold
<1>8. UnusedHasNoUser'
  BY <1>1, <1>2, <1>3 DEF UnusedHasNoUser
<1>9. \A s \in Sessions, u \in Users : Fresh(s, u)' => Fresh(s, u)
  BY <1>2, <1>3, ConstantFacts DEF Fresh
<1>10. Reachable'
  <2>1. \A s : Replacing(s)' <=> Replacing(s)
    BY <1>5 DEF Replacing
  <2> QED
    BY <1>1, <1>2, <1>9, <2>1 DEF Reachable
<1>11. Seen'
  <2>1. ShowsStored
    BY <1>2 DEF ShowsStored
  <2> QED
    BY <1>1, <1>4, <2>1, SeenKept
<1>12. Waiting'
  <2> SUFFICES ASSUME NEW i \in DOMAIN rows', NEW s \in Sessions,
                      ~rows'[i].delivered, rows'[i].m \notin overtaken',
                      userId'[s] = To[rows'[i].m], conn'[s] = "open"
               PROVE  WillPush(s, i)'
    BY DEF Waiting
  <2>1. rows[i].m \in Msgs /\ i \in DOMAIN rows
    BY <1>1, <1>2, RowFacts
  <2>2. s # r
    BY <1>2, <1>3, <2>1, ConstantFacts
  <2>3. WillPush(s, i)
    BY <1>1, <1>2, <1>3, <2>1, <2>2 DEF Waiting
  <2> QED
    BY <1>5, <2>3 DEF WillPush
<1>13. Told'
  <2>1. \A s, v : (WillTell(s, v)' <=> WillTell(s, v)) /\ (WillLook(s, v)' <=> WillLook(s, v))
    BY <1>5 DEF WillTell, WillLook
  <2>2. \A s, u : OnlySession(s, u)' => OnlySession(s, u)
    BY <1>2 DEF OnlySession
  <2> QED
    BY <1>1, <1>2, <1>9, <2>1, <2>2 DEF Told
<1> QED
  BY <1>6, <1>7, <1>8, <1>10, <1>11, <1>12, <1>13 DEF IInv

\* A connection ends.
LEMMA CloseStep ==
  ASSUME IInv, NEW r \in Sessions, Close(r)
  PROVE  IInv'
<1>1. Typed /\ TasksHold /\ UnusedHasNoUser /\ Reachable /\ Seen /\ Waiting /\ Told
  BY DEF IInv
<1>2. /\ conn[r] = "open" /\ conn' = [conn EXCEPT ![r] = "closed"]
      /\ log' = [log EXCEPT ![r].told = NoNews]
      /\ UNCHANGED <<userId, closing, rows, asked, sends, crashes, overtaken>>
  BY DEF Close, counters
<1>3. /\ conn' \in [Sessions -> {"unused", "open", "closed"}]
      /\ \A s \in Sessions : s # r => conn'[s] = conn[s]
      /\ conn'[r] = "closed"
  BY <1>1, <1>2 DEF Typed
<1>4. /\ log' \in Log
      /\ \A s \in Sessions : log'[s].got = log[s].got /\ log'[s].notes = log[s].notes
      /\ \A s \in Sessions : s # r => log'[s] = log[s]
  <2>1. log \in Log
    BY <1>1 DEF Typed
  <2>2. NoNews \in [Users -> News]
    BY DEF NoNews, News
  <2> DEFINE n == [log[r] EXCEPT !.told = NoNews]
  <2>3. log' = [log EXCEPT ![r] = n]
    BY <1>2
  <2>4. /\ n \in [told : [Users -> News], got : [Msgs -> Nat], notes : SUBSET Frame]
        /\ n.got = log[r].got /\ n.notes = log[r].notes
    BY <2>1, <2>2 DEF Log
  <2> HIDE DEF n
  <2> QED
    BY <2>1, <2>3, <2>4 DEF Log
<1>5. Grows
  BY <1>2, <1>3 DEF Grows
<1>6. \A s \in Sessions, u \in Users : Fresh(s, u)' => Fresh(s, u) /\ s # r
  BY <1>2, <1>3 DEF Fresh
<1>7. Seen'
  <2>1. ShowsStored
    BY <1>4 DEF ShowsStored
  <2> QED
    BY <1>1, <1>5, <2>1, SeenKept
<1>8. UnusedHasNoUser'
  BY <1>1, <1>2, <1>3 DEF UnusedHasNoUser
<1>9. CASE userId[r] = None
  <2>1. UNCHANGED <<presence, biz>>
    BY <1>9 DEF Close
  <2>2. Tasks' = Tasks
    BY <2>1 DEF Tasks
  <2>3. Typed'
    BY <1>1, <1>2, <1>3, <1>4, <2>1 DEF Typed
  <2>4. TasksHold'
    BY <1>1, <1>5, <2>2, TaskKept DEF TasksHold
  <2>5. /\ \A s : Replacing(s) => Replacing(s)'
        /\ \A s, i : WillPush(s, i) => WillPush(s, i)'
        /\ \A s, v : WillTell(s, v) => WillTell(s, v)'
        /\ \A s, v : WillLook(s, v) => WillLook(s, v)'
    BY <2>2 DEF Replacing, WillPush, WillTell, WillLook
  <2>6. Reachable'
    BY <1>1, <1>6, <2>1, <2>5 DEF Reachable
  <2>7. Waiting'
    <3>1. \A s \in Sessions : conn'[s] = "open" => conn[s] = "open"
      BY <1>3
    <3> QED
      BY <1>1, <1>2, <2>5, <3>1 DEF Waiting
  <2>8. Told'
    <3>1. \A s, u : OnlySession(s, u)' => OnlySession(s, u)
      BY <1>2 DEF OnlySession
    <3> QED
      BY <1>1, <1>4, <1>6, <2>5, <3>1 DEF Told
  <2> QED
    BY <1>7, <1>8, <2>3, <2>4, <2>6, <2>7, <2>8 DEF IInv
<1>10. CASE userId[r] # None
  <2>1. userId[r] \in Users /\ UserStrand[userId[r]] \in Strands
    BY <1>1, <1>10, ConstantFacts DEF Typed
  <2> DEFINE b == NewTask("bcast", "friends", None, userId[r], None)
             z == [b EXCEPT !.todo = Friends(userId[r])]
  <2>2. /\ presence' = OfflineMap(userId[r], r)
        /\ biz' = [biz EXCEPT ![UserStrand[userId[r]]] = Append(@, z)]
    BY <1>10 DEF Close
  <2>3. b \in Task /\ b.kind = "bcast" /\ b.pc = "friends" /\ b.u = userId[r] /\ b.left = {} /\ b.pulled = {}
    BY <2>1 DEF NewTask, Task, Kind, Pc
  <2> HIDE DEF b
  <2>4. z \in Task /\ z.kind = "bcast" /\ z.u = userId[r] /\ z.left = {} /\ z.pulled = {}
    BY <2>3 DEF Task, Friends
  <2> HIDE DEF z
  <2>5. PICK x \in Task : x = z
    BY <2>4
  <2>6. Turn(x, {x})
    BY <1>1, <2>1, <2>2, <2>5, PostFacts
  <2>7. /\ presence' \in [Users -> Sessions \cup {None}]
        /\ \A u \in Users : presence'[u] = presence[u] \/ presence[u] = r
    BY <1>1, <2>2 DEF Typed, OfflineMap
  <2>8. Typed'
    BY <1>1, <1>2, <1>3, <1>4, <2>6, <2>7 DEF Typed, Turn
  <2>9. TasksHold'
    <3>1. TaskHolds(x)'
      BY <1>2, <1>3, <2>1, <2>4, <2>5 DEF TaskHolds
    <3> QED
      BY <1>1, <1>5, <2>6, <3>1, TasksKept
  <2>10. Reachable'
    <3>1. \A s : Replacing(s) => Replacing(s)'
      BY <2>4, <2>5, <2>6, WillKept DEF Replaces, LoginTask
    <3> QED
      BY <1>1, <1>6, <2>7, <3>1 DEF Reachable
  <2>11. Waiting'
    <3>1. \A s \in Sessions : conn'[s] = "open" => conn[s] = "open"
      BY <1>3
    <3>2. \A s \in Sessions, i \in DOMAIN rows : ~Pushes(x, s, i)
      BY <2>4, <2>5 DEF Pushes, LoginTask
    <3> QED
      BY <1>1, <1>2, <2>6, <3>1, <3>2, WaitingKept
  <2>12. Told'
    <3>1. \A s \in Sessions, v \in Users : ~Tells(x, s, v) /\ ~Looks(x, s, v)
      BY <2>4, <2>5 DEF Tells, Looks, LoginTask
    <3>2. \A t \in Sessions : conn'[t] = "open" => log'[t] = log[t]
      BY <1>3, <1>4
    <3> QED
      BY <1>1, <1>2, <1>6, <2>6, <3>1, <3>2, ToldKept
  <2> QED
    BY <1>7, <1>8, <2>8, <2>9, <2>10, <2>11, <2>12 DEF IInv
<1> QED
  BY <1>9, <1>10

\* The server dies.
LEMMA CrashStep ==
  ASSUME IInv, Crash
  PROVE  IInv'
<1>1. Typed /\ TasksHold /\ UnusedHasNoUser /\ Reachable /\ Seen /\ Waiting /\ Told
  BY DEF IInv
<1>2. /\ crashes < MaxCrash /\ crashes' = crashes + 1
      /\ conn' = [s \in Sessions |-> IF conn[s] = "open" THEN "closed" ELSE conn[s]]
      /\ presence' = [u \in Users |-> None]
      /\ biz' = [k \in Strands |-> <<>>]
      /\ log' = [s \in Sessions |-> [log[s] EXCEPT !.told = NoNews]]
      /\ UNCHANGED <<userId, closing, rows, asked, sends, overtaken>>
  BY DEF Crash
<1>3. /\ conn' \in [Sessions -> {"unused", "open", "closed"}]
      /\ \A s \in Sessions : /\ conn'[s] # "open"
                             /\ conn[s] = "closed" => conn'[s] = "closed"
                             /\ conn'[s] = "unused" <=> conn[s] = "unused"
  BY <1>1, <1>2 DEF Typed
<1>4. /\ log' \in Log
      /\ \A s \in Sessions : log'[s].got = log[s].got /\ log'[s].notes = log[s].notes
  <2>1. log \in Log
    BY <1>1 DEF Typed
  <2>2. NoNews \in [Users -> News]
    BY DEF NoNews, News
  <2> QED
    BY <1>2, <2>1, <2>2 DEF Log
<1>5. Tasks' = {}
  BY <1>2 DEF Tasks
<1>6. Typed'
  <2>1. biz' \in [Strands -> Seq(Task)]
    BY <1>2
  <2>2. crashes' \in 0..MaxCrash
    BY <1>1, <1>2, RoutingAssumption DEF Typed
  <2> QED
    BY <1>1, <1>2, <1>3, <1>4, <2>1, <2>2 DEF Typed
<1>7. TasksHold'
  BY <1>5 DEF TasksHold
<1>8. UnusedHasNoUser'
  BY <1>1, <1>2, <1>3 DEF UnusedHasNoUser
<1>9. Seen'
  <2>1. Grows
    BY <1>2, <1>3 DEF Grows
  <2>2. ShowsStored
    BY <1>4 DEF ShowsStored
  <2> QED
    BY <1>1, <2>1, <2>2, SeenKept
<1>10. Reachable' /\ Waiting' /\ Told'
  BY <1>3 DEF Reachable, Waiting, Told, Fresh
<1> QED
  BY <1>6, <1>7, <1>8, <1>9, <1>10 DEF IInv

\* A login binds its user to the session, or is the second one and refused.
LEMMA BindStep ==
  ASSUME IInv, NEW k \in Strands, LoginBind(k)
  PROVE  IInv'
<1>1. Typed /\ TasksHold /\ UnusedHasNoUser /\ Reachable /\ Seen /\ Waiting /\ Told
  BY DEF IInv
<1>2. PICK h \in Tasks : /\ h = Head(biz[k]) /\ biz[k] # <<>> /\ h \in Task /\ TaskHolds(h)
                         /\ h.kind = "login" /\ h.pc = "bind"
  <2>1. Running(k, "login", "bind")
    BY DEF LoginBind
  <2> QED
    BY <2>1, RunningFacts
<1>3. /\ UNCHANGED <<conn, closing, presence, rows, log, asked, sends, crashes, overtaken>>
      /\ h.s \in Sessions /\ h.u \in Users /\ conn[h.s] # "unused"
  BY <1>2 DEF LoginBind, counters, TaskHolds
<1>4. CASE userId[h.s] # None
  <2>1. Done(k) /\ UNCHANGED userId
    BY <1>2, <1>4 DEF LoginBind
  <2>2. Turn(h, {})
    BY <1>1, <1>2, <2>1, DoneFacts
  <2>3. log' \in Log /\ ShowsStored
    BY <1>1, <1>3 DEF Typed, ShowsStored
  <2>4. \A s \in Sessions, i \in DOMAIN rows : ~Pushes(h, s, i)
    BY <1>2 DEF Pushes
  <2>5. Typed' /\ TasksHold' /\ UnusedHasNoUser' /\ Reachable' /\ Seen' /\ Waiting'
    BY <1>2, <1>3, <2>1, <2>2, <2>3, <2>4, CalmStep
  <2>6. Told'
    BY <1>1, <1>2, <1>3, <2>1, <2>2, CalmTold
  <2> QED
    BY <2>5, <2>6 DEF IInv
<1>5. CASE userId[h.s] = None
  <2> DEFINE z == [h EXCEPT !.pc = "replace"]
  <2>1. userId' = [userId EXCEPT ![h.s] = h.u] /\ Goto(k, z)
    BY <1>2, <1>5 DEF LoginBind
  <2>2. /\ z \in Task /\ z.kind = "login" /\ z.pc = "replace" /\ z.s = h.s /\ z.u = h.u
        /\ z.left = h.left /\ z.pulled = h.pulled
    BY <1>2 DEF Task, Pc
  <2> HIDE DEF z
  <2>3. PICK x \in Task : x = z
    BY <2>2
  <2>4. Turn(h, {x})
    BY <1>1, <1>2, <2>1, <2>2, <2>3, GotoFacts
  <2>5. /\ userId' \in [Sessions -> Users \cup {None}] /\ userId'[h.s] = h.u
        /\ \A s \in Sessions : s # h.s => userId'[s] = userId[s]
    BY <1>1, <1>3, <2>1 DEF Typed
  <2>6. Grows
    BY <1>3, <1>5, <2>5 DEF Grows
  <2>7. Typed'
    BY <1>1, <1>3, <2>4, <2>5 DEF Typed, Turn
  <2>8. TasksHold'
    <3>1. TaskHolds(x)'
      BY <1>2, <1>3, <2>2, <2>3, <2>5 DEF TaskHolds
    <3> QED
      BY <1>1, <2>4, <2>6, <3>1, TasksKept
  <2>9. UnusedHasNoUser'
    BY <1>1, <1>3, <2>5 DEF UnusedHasNoUser
  <2>10. Replacing(h.s)'
    <3>1. Replaces(x, h.s)
      BY <2>2, <2>3 DEF Replaces, LoginTask
    <3> QED
      BY <2>4, <3>1, WillKept
  <2>11. /\ \A s : Replacing(s) => Replacing(s)'
         /\ \A s, i : WillPush(s, i) => WillPush(s, i)'
         /\ \A s, v : WillTell(s, v) => WillTell(s, v)'
         /\ \A s, v : WillLook(s, v) => WillLook(s, v)'
    <3>1. /\ \A s : ~Replaces(h, s)
          /\ \A s, i : ~Pushes(h, s, i)
          /\ \A s, v : ~Tells(h, s, v) /\ ~Looks(h, s, v)
      BY <1>2 DEF Replaces, Pushes, Tells, Looks
    <3> QED
      BY <2>4, <3>1, WillKept
  <2>12. \A s \in Sessions, u \in Users : s # h.s /\ Fresh(s, u)' => Fresh(s, u)
    BY <1>3, <2>5 DEF Fresh
  <2>13. Reachable'
    BY <1>1, <1>3, <2>10, <2>11, <2>12 DEF Reachable
  <2>14. Seen'
    <3>1. ShowsStored
      BY <1>3 DEF ShowsStored
    <3> QED
      BY <1>1, <2>6, <3>1, SeenKept
  <2>15. Waiting'
    <3>1. \A i : WillPush(h.s, i)'
      BY <2>10 DEF Replacing, Replaces, WillPush, Pushes
    <3> QED
      BY <1>1, <1>3, <2>5, <2>11, <3>1 DEF Waiting
  <2>16. Told'
    <3>1. \A v : WillTell(h.s, v)' /\ WillLook(h.s, v)'
      BY <2>10 DEF Replacing, Replaces, WillTell, WillLook, Tells, Looks
    <3>2. \A s \in Sessions, u \in Users : OnlySession(s, u)' => OnlySession(s, u)
      BY <1>5, <2>5, ConstantFacts DEF OnlySession
    <3> QED
      BY <1>1, <1>3, <2>11, <2>12, <3>1, <3>2 DEF Told
  <2> QED
    BY <2>7, <2>8, <2>9, <2>13, <2>14, <2>15, <2>16 DEF IInv
<1> QED
  BY <1>4, <1>5

\* A login takes the place of its user's old session, which has to go.
LEMMA ReplaceStep ==
  ASSUME IInv, NEW k \in Strands, LoginReplace(k)
  PROVE  IInv'
<1>1. Typed /\ TasksHold /\ UnusedHasNoUser /\ Reachable /\ Seen /\ Waiting /\ Told
  BY DEF IInv
<1>2. PICK h \in Tasks : /\ h = Head(biz[k]) /\ biz[k] # <<>> /\ h \in Task /\ TaskHolds(h)
                         /\ h.kind = "login" /\ h.pc = "replace"
  <2>1. Running(k, "login", "replace")
    BY DEF LoginReplace
  <2> QED
    BY <2>1, RunningFacts
<1>3. h.s \in Sessions /\ h.u \in Users /\ userId[h.s] = h.u
  BY <1>2 DEF TaskHolds
<1> DEFINE z == [h EXCEPT !.pc = "friend", !.todo = Friends(h.u)]
<1>4. /\ presence' = [presence EXCEPT ![h.u] = h.s]
      /\ log' = Deliver(log, Get(h.u), Kicked)
      /\ closing' = IF Get(h.u) = None THEN closing ELSE closing \cup {Get(h.u)}
      /\ Goto(k, z)
      /\ UNCHANGED <<conn, userId, rows, asked, sends, crashes, overtaken>>
  BY <1>2 DEF LoginReplace, counters
<1>5. /\ z \in Task /\ z.kind = "login" /\ z.pc = "friend" /\ z.s = h.s /\ z.u = h.u
      /\ z.todo = Users \ {h.u} /\ z.left = h.left /\ z.pulled = h.pulled
  BY <1>2 DEF Task, Pc, Friends
<1> HIDE DEF z
<1>6. PICK x \in Task : x = z
  BY <1>5
<1>7. Turn(h, {x})
  BY <1>1, <1>2, <1>4, <1>5, <1>6, GotoFacts
<1>8. /\ Get(h.u) \in Sessions \cup {None}
      /\ \A s \in Sessions : presence[h.u] = s /\ conn[s] = "open" => Get(h.u) = s
  BY <1>1, <1>3, GetFacts
<1>9. /\ log' \in Log /\ ShowsStored
      /\ \A t \in Sessions, u \in Users : log'[t].told[u] = log[t].told[u]
  <2>1. log \in Log
    BY <1>1 DEF Typed
  <2>2. Kicked \in Frame /\ Kicked.u = None /\ Kicked.type = "KICKED"
    BY FrameFacts
  <2>3. /\ log' \in Log
        /\ \A r \in Sessions :
             /\ \A m \in Msgs : log'[r].got[m] = log[r].got[m]
             /\ \A g \in log'[r].notes : g \in log[r].notes \/ g = Kicked
             /\ \A v \in Users : log'[r].told[v] = log[r].told[v]
    <3>1. PICK g \in Sessions \cup {None} : g = Get(h.u)
      BY <1>8
    <3>2. Kicked.type # "CHAT" /\ log' = Deliver(log, g, Kicked)
      BY <1>4, <2>2, <3>1
    <3> QED
      BY <1>1, <2>1, <2>2, <3>2, DeliverNote
  <2> QED
    BY <2>2, <2>3, ConstantFacts DEF ShowsStored
<1>10. /\ closing \subseteq closing' /\ closing' \subseteq Sessions
       /\ Get(h.u) # None => Get(h.u) \in closing'
  BY <1>1, <1>4, <1>8 DEF Typed
<1>11. /\ presence' \in [Users -> Sessions \cup {None}] /\ presence'[h.u] = h.s
       /\ \A u \in Users : u # h.u => presence'[u] = presence[u]
  BY <1>1, <1>3, <1>4 DEF Typed
<1>12. Grows
  BY <1>4 DEF Grows
<1>13. Typed'
  BY <1>1, <1>4, <1>7, <1>9, <1>10, <1>11 DEF Typed, Turn
<1>14. TasksHold'
  <2>1. TaskHolds(x)
    BY <1>2, <1>5, <1>6 DEF TaskHolds
  <2>2. TaskHolds(x)'
    BY <1>12, <2>1, TaskKept
  <2> QED
    BY <1>1, <1>7, <1>12, <2>2, TasksKept
<1>15. UnusedHasNoUser'
  BY <1>1, <1>4 DEF UnusedHasNoUser
<1>16. \A s \in Sessions, u \in Users : Fresh(s, u)' => Fresh(s, u)
  BY <1>4, <1>10 DEF Fresh
<1>17. Reachable'
  <2> SUFFICES ASSUME NEW s \in Sessions, NEW u \in Users, Fresh(s, u)'
               PROVE  presence'[u] = s \/ Replacing(s)'
    BY DEF Reachable
  <2>1. Fresh(s, u) /\ s \notin closing'
    BY <1>16 DEF Fresh
  <2>2. CASE s = h.s
    BY <1>3, <1>11, <2>1, <2>2 DEF Fresh
  <2>3. CASE s # h.s
    <3>1. Replacing(s) => Replacing(s)'
      BY <1>7, <2>3, WillKept DEF Replaces, LoginTask
    <3>2. presence[u] = s \/ Replacing(s)
      BY <1>1, <2>1 DEF Reachable
    <3>3. CASE presence[u] = s /\ u = h.u
      <4>1. Get(h.u) = s
        BY <1>8, <2>1, <3>3 DEF Fresh
      <4> QED
        BY <1>10, <2>1, <4>1, ConstantFacts
    <3>4. CASE presence[u] = s /\ u # h.u
      BY <1>11, <3>4
    <3> QED
      BY <3>1, <3>2, <3>3, <3>4
  <2> QED
    BY <2>2, <2>3
<1>18. Seen'
  BY <1>1, <1>9, <1>12, SeenKept
<1>19. Waiting'
  <2>1. \A s \in Sessions, i \in DOMAIN rows : Pushes(h, s, i) => Pushes(x, s, i)
    BY <1>5, <1>6 DEF Pushes, LoginTask
  <2> QED
    BY <1>1, <1>4, <1>7, <2>1, WaitingKept
<1>20. Told'
  <2>1. \A s \in Sessions, u, v \in Users : Fresh(s, u) /\ u # v =>
          /\ Tells(h, s, v) => Tells(x, s, v)
          /\ Looks(h, s, v) => Looks(x, s, v)
    BY <1>3, <1>5, <1>6 DEF Fresh, Tells, Looks, LoginTask
  <2> QED
    BY <1>1, <1>4, <1>7, <1>9, <1>16, <2>1, ToldKept
<1> QED
  BY <1>13, <1>14, <1>15, <1>17, <1>18, <1>19, <1>20 DEF IInv

\* A login shows a friend's status to its session.
LEMMA FriendStep ==
  ASSUME IInv, NEW k \in Strands, LoginFriend(k)
  PROVE  IInv'
<1>1. Typed /\ TasksHold /\ UnusedHasNoUser /\ Reachable /\ Seen /\ Waiting /\ Told
  BY DEF IInv
<1>2. PICK h \in Tasks : /\ h = Head(biz[k]) /\ biz[k] # <<>> /\ h \in Task /\ TaskHolds(h)
                         /\ h.kind = "login" /\ h.pc = "friend"
  <2>1. Running(k, "login", "friend")
    BY DEF LoginFriend
  <2> QED
    BY <2>1, RunningFacts
<1>3. /\ UNCHANGED <<conn, userId, closing, presence, rows, asked, sends, crashes, overtaken>>
      /\ h.s \in Sessions /\ h.u \in Users /\ userId[h.s] = h.u /\ h.todo \subseteq Users
  BY <1>2 DEF LoginFriend, counters, TaskHolds, Task
<1>4. log \in Log
  BY <1>1 DEF Typed
<1>5. CASE h.todo = {} /\ Goto(k, [h EXCEPT !.pc = "pull"]) /\ UNCHANGED log
  <2> DEFINE z == [h EXCEPT !.pc = "pull"]
  <2>1. /\ z \in Task /\ z.kind = "login" /\ z.pc = "pull" /\ z.s = h.s /\ z.u = h.u
        /\ z.left = h.left /\ z.pulled = h.pulled
    BY <1>2 DEF Task, Pc
  <2> HIDE DEF z
  <2>2. PICK x \in Task : x = z
    BY <2>1
  <2>3. Turn(h, {x})
    BY <1>1, <1>2, <1>5, <2>2, GotoFacts DEF z
  <2>4. log' \in Log /\ ShowsStored
    BY <1>4, <1>5 DEF ShowsStored
  <2>5. TaskHolds(x)
    BY <1>2, <2>1, <2>2 DEF TaskHolds
  <2>6. \A s \in Sessions, i \in DOMAIN rows : Pushes(h, s, i) => Pushes(x, s, i)
    BY <2>1, <2>2 DEF Pushes, LoginTask
  <2>7. Typed' /\ TasksHold' /\ UnusedHasNoUser' /\ Reachable' /\ Seen' /\ Waiting'
    BY <1>2, <1>3, <2>3, <2>4, <2>5, <2>6, CalmStep
  <2>8. Told'
    <3>1. \A s \in Sessions, u \in Users : Fresh(s, u)' => Fresh(s, u)
      BY <1>3 DEF Fresh
    <3>2. \A s, v : ~Tells(h, s, v) /\ ~Looks(h, s, v)
      BY <1>2, <1>5 DEF Tells, Looks
    <3> QED
      BY <1>1, <1>3, <1>5, <2>3, <3>1, <3>2, ToldKept
  <2> QED
    BY <2>7, <2>8 DEF IInv
<1>6. CASE \E f \in h.todo :
             /\ log' = Deliver(log, h.s, FriendInfo(f, Get(f) # None))
             /\ Goto(k, [h EXCEPT !.pc = "tell", !.todo = @ \ {f}, !.friend = f])
  <2>1. PICK f \in h.todo :
             /\ log' = Deliver(log, h.s, FriendInfo(f, Get(f) # None))
             /\ Goto(k, [h EXCEPT !.pc = "tell", !.todo = h.todo \ {f}, !.friend = f])
    BY <1>6
  <2> DEFINE z == [h EXCEPT !.pc = "tell", !.todo = h.todo \ {f}, !.friend = f]
             n == FriendInfo(f, Get(f) # None)
  <2>2. /\ z \in Task /\ z.kind = "login" /\ z.pc = "tell" /\ z.s = h.s /\ z.u = h.u
        /\ z.left = h.left /\ z.pulled = h.pulled /\ z.todo = h.todo \ {f} /\ z.friend = f
    BY <1>2, <1>3 DEF Task, Pc
  <2>3. n \in Frame /\ n.u = f /\ n.type \in Status /\ (Get(f) # None => n.type = "ONLINE")
    <3>1. f \in Users
      BY <1>3
    <3>2. CASE Get(f) # None
      BY <3>1, <3>2 DEF FriendInfo, Frame, FrameType, Status
    <3>3. CASE Get(f) = None
      BY <3>1, <3>3 DEF FriendInfo, Frame, FrameType, Status
    <3> QED
      BY <3>2, <3>3
  <2> HIDE DEF z, n
  <2>4. PICK x \in Task : x = z
    BY <2>2
  <2>5. Turn(h, {x})
    BY <1>1, <1>2, <2>1, <2>4, GotoFacts DEF z
  <2>6. /\ log' \in Log
        /\ \A r \in Sessions :
             /\ \A m \in Msgs : log'[r].got[m] = log[r].got[m]
             /\ \A g \in log'[r].notes : g \in log[r].notes
             /\ \A v \in Users : \/ log'[r].told[v] = log[r].told[v]
                                 \/ v = f /\ r = h.s /\ log'[r].told[v] = n.type
        /\ conn[h.s] = "open" => log'[h.s].told[f] = n.type
    <3>1. log' = Deliver(log, h.s, n) /\ n.u \in Users /\ h.s \in Sessions \cup {None}
      BY <1>3, <2>1, <2>3 DEF n
    <3> QED
      BY <1>1, <1>3, <1>4, <2>3, <3>1, DeliverNews
  <2>7. ShowsStored
    BY <2>6 DEF ShowsStored
  <2>8. TaskHolds(x)
    BY <1>2, <1>3, <2>2, <2>4 DEF TaskHolds
  <2>9. \A s \in Sessions, i \in DOMAIN rows : Pushes(h, s, i) => Pushes(x, s, i)
    BY <2>2, <2>4 DEF Pushes, LoginTask
  <2>10. Typed' /\ TasksHold' /\ UnusedHasNoUser' /\ Reachable' /\ Seen' /\ Waiting'
    <3>1. log' \in Log
      BY <2>6
    <3> QED
      BY <1>2, <1>3, <2>5, <2>7, <2>8, <2>9, <3>1, CalmStep
  <2>11. Told'
    <3> SUFFICES ASSUME NEW s \in Sessions, NEW t \in Sessions, NEW u \in Users, NEW v \in Users,
                        Fresh(s, u)', Fresh(t, v)', u # v, OnlySession(s, u)'
                 PROVE  log'[t].told[u] = "ONLINE" \/ WillTell(s, v)' \/ WillLook(t, u)'
      BY DEF Told
    <3>1. Fresh(s, u) /\ Fresh(t, v) /\ OnlySession(s, u)
      BY <1>3 DEF OnlySession, Fresh
    <3>2. CASE t = h.s /\ u = f
      <4>1. presence[u] = s \/ Replacing(s)
        BY <1>1, <3>1 DEF Reachable
      <4>2. CASE presence[u] = s
        <5>1. Get(f) = s
          BY <1>1, <3>1, <3>2, <4>2, GetFacts DEF Fresh
        <5>2. n.type = "ONLINE" /\ conn[h.s] = "open"
          BY <2>3, <3>1, <3>2, <5>1, ConstantFacts DEF Fresh
        <5> QED
          BY <2>6, <3>2, <5>2
      <4>3. CASE Replacing(s)
        <5>1. Replacing(s)'
          BY <1>2, <2>5, <4>3, WillKept DEF Replaces
        <5>2. WillTell(s, v)'
          BY <5>1 DEF Replacing, Replaces, WillTell, Tells
        <5> QED
          BY <5>2
      <4> QED
        BY <4>1, <4>2, <4>3
    <3>3. CASE ~(t = h.s /\ u = f)
      <4>1. log[t].told[u] = "ONLINE" \/ WillTell(s, v) \/ WillLook(t, u)
        BY <1>1, <3>1 DEF Told
      <4>2. CASE log[t].told[u] = "ONLINE"
        BY <2>6, <3>3, <4>2
      <4>3. CASE WillTell(s, v)
        <5>1. Tells(h, s, v) => Tells(x, s, v)
          BY <1>2, <2>2, <2>4 DEF Tells, LoginTask
        <5> QED
          BY <2>5, <4>3, <5>1, WillKept
      <4>4. CASE WillLook(t, u)
        <5>1. Looks(h, t, u) => Looks(x, t, u)
          BY <1>2, <2>2, <2>4, <3>3 DEF Looks, LoginTask
        <5> QED
          BY <2>5, <4>4, <5>1, WillKept
      <4> QED
        BY <4>1, <4>2, <4>3, <4>4
    <3> QED
      BY <3>2, <3>3
  <2> QED
    BY <2>10, <2>11 DEF IInv
<1> QED
  BY <1>2, <1>5, <1>6 DEF LoginFriend

\* A login shows its own status to a friend.
LEMMA TellStep ==
  ASSUME IInv, NEW k \in Strands, LoginTell(k)
  PROVE  IInv'
<1>1. Typed /\ TasksHold /\ UnusedHasNoUser /\ Reachable /\ Seen /\ Waiting /\ Told
  BY DEF IInv
<1>2. PICK h \in Tasks : /\ h = Head(biz[k]) /\ biz[k] # <<>> /\ h \in Task /\ TaskHolds(h)
                         /\ h.kind = "login" /\ h.pc = "tell"
  <2>1. Running(k, "login", "tell")
    BY DEF LoginTell
  <2> QED
    BY <2>1, RunningFacts
<1> DEFINE z == [h EXCEPT !.pc = "friend", !.friend = None]
<1>3. /\ UNCHANGED <<conn, userId, closing, presence, rows, asked, sends, crashes, overtaken>>
      /\ log' = Deliver(log, Get(h.friend), FriendInfo(h.u, TRUE)) /\ Goto(k, z)
      /\ h.s \in Sessions /\ h.u \in Users /\ userId[h.s] = h.u /\ h.friend \in Users
  BY <1>2 DEF LoginTell, counters, TaskHolds
<1>4. log \in Log
  BY <1>1 DEF Typed
<1>5. /\ z \in Task /\ z.kind = "login" /\ z.pc = "friend" /\ z.s = h.s /\ z.u = h.u
      /\ z.left = h.left /\ z.pulled = h.pulled /\ z.todo = h.todo
  BY <1>2 DEF Task, Pc
<1> HIDE DEF z
<1>6. PICK x \in Task : x = z
  BY <1>5
<1>7. Turn(h, {x})
  BY <1>1, <1>2, <1>3, <1>6, GotoFacts
<1>8. PICK n \in Frame : n = FriendInfo(h.u, TRUE) /\ n.u = h.u /\ n.type = "ONLINE"
  BY <1>3, FrameFacts
<1>9. PICK g \in Sessions \cup {None} : g = Get(h.friend)
  BY <1>1, <1>3, GetFacts
<1>10. /\ log' \in Log
       /\ \A r \in Sessions :
            /\ \A m \in Msgs : log'[r].got[m] = log[r].got[m]
            /\ \A e \in log'[r].notes : e \in log[r].notes
            /\ \A v \in Users : log'[r].told[v] = log[r].told[v] \/ log'[r].told[v] = "ONLINE"
       /\ g \in Sessions /\ conn[g] = "open" => log'[g].told[h.u] = "ONLINE"
  <2>1. log' = Deliver(log, g, n) /\ n.u \in Users /\ n.type \in Status
    BY <1>3, <1>8, <1>9 DEF Status
  <2>2. /\ log' \in Log
        /\ \A r \in Sessions :
             /\ \A m \in Msgs : log'[r].got[m] = log[r].got[m]
             /\ \A e \in log'[r].notes : e \in log[r].notes
             /\ \A v \in Users : \/ log'[r].told[v] = log[r].told[v]
                                 \/ v = n.u /\ r = g /\ log'[r].told[v] = n.type
        /\ g \in Sessions /\ conn[g] = "open" => log'[g].told[n.u] = n.type
    BY <1>1, <1>4, <2>1, DeliverNews
  <2> QED
    BY <1>8, <2>2
<1>11. ShowsStored
  BY <1>10 DEF ShowsStored
<1>12. TaskHolds(x)
  BY <1>2, <1>5, <1>6 DEF TaskHolds
<1>13. \A s \in Sessions, i \in DOMAIN rows : Pushes(h, s, i) => Pushes(x, s, i)
  BY <1>5, <1>6 DEF Pushes, LoginTask
<1>14. Typed' /\ TasksHold' /\ UnusedHasNoUser' /\ Reachable' /\ Seen' /\ Waiting'
  <2>1. log' \in Log /\ h.pc # "replace"
    BY <1>2, <1>10
  <2>2. UNCHANGED <<conn, userId, closing, presence, rows, asked, sends, crashes, overtaken>>
    BY <1>3
  <2> QED
    BY <1>7, <1>11, <1>12, <1>13, <2>1, <2>2, CalmStep
<1>15. Told'
  <2> SUFFICES ASSUME NEW s \in Sessions, NEW t \in Sessions, NEW u \in Users, NEW v \in Users,
                      Fresh(s, u)', Fresh(t, v)', u # v, OnlySession(s, u)'
               PROVE  log'[t].told[u] = "ONLINE" \/ WillTell(s, v)' \/ WillLook(t, u)'
    BY DEF Told
  <2>1. Fresh(s, u) /\ Fresh(t, v) /\ OnlySession(s, u)
    BY <1>3 DEF OnlySession, Fresh
  <2>2. log[t].told[u] = "ONLINE" \/ WillTell(s, v) \/ WillLook(t, u)
    BY <1>1, <2>1 DEF Told
  <2>3. CASE log[t].told[u] = "ONLINE"
    BY <1>10, <2>3
  <2>4. CASE WillLook(t, u)
    <3>1. Looks(h, t, u) => Looks(x, t, u)
      BY <1>2, <1>5, <1>6 DEF Looks, LoginTask
    <3> QED
      BY <1>7, <2>4, <3>1, WillKept
  <2>5. CASE WillTell(s, v)
    <3>1. WillTell(s, v)' \/ Tells(h, s, v)
      BY <1>7, <2>5, WillKept
    <3>2. CASE Tells(h, s, v) /\ v \in h.todo
      <4>1. Tells(x, s, v)
        BY <1>2, <1>5, <1>6, <3>2 DEF Tells, LoginTask
      <4> QED
        BY <1>7, <4>1, WillKept
    <3>3. CASE Tells(h, s, v) /\ v \notin h.todo
      <4>1. h.s = s /\ h.friend = v /\ h.u = u
        BY <1>2, <1>3, <2>1, <3>3 DEF Tells, LoginTask, Fresh
      <4>2. presence[v] = t \/ Replacing(t)
        BY <1>1, <2>1 DEF Reachable
      <4>3. CASE presence[v] = t
        <5>1. g = t /\ conn[t] = "open"
          BY <1>1, <1>9, <2>1, <4>1, <4>3, GetFacts DEF Fresh
        <5> QED
          BY <1>10, <4>1, <5>1
      <4>4. CASE Replacing(t)
        <5>1. Replacing(t)'
          BY <1>2, <1>7, <4>4, WillKept DEF Replaces
        <5>2. WillLook(t, u)'
          BY <5>1 DEF Replacing, Replaces, WillLook, Looks
        <5> QED
          BY <5>2
      <4> QED
        BY <4>2, <4>3, <4>4
    <3> QED
      BY <3>1, <3>2, <3>3
  <2> QED
    BY <2>2, <2>3, <2>4, <2>5
<1> QED
  BY <1>14, <1>15 DEF IInv

\* A login reads what waits for its user.
LEMMA PullStep ==
  ASSUME IInv, NEW k \in Strands, LoginPull(k)
  PROVE  IInv'
<1>1. Typed /\ Told
  BY DEF IInv
<1>2. PICK h \in Tasks : /\ h = Head(biz[k]) /\ biz[k] # <<>> /\ h \in Task /\ TaskHolds(h)
                         /\ h.kind = "login" /\ h.pc = "pull"
  <2>1. Running(k, "login", "pull")
    BY DEF LoginPull
  <2> QED
    BY <2>1, RunningFacts
<1>3. /\ UNCHANGED <<conn, userId, closing, presence, rows, log, asked, sends, crashes, overtaken>>
      /\ h.s \in Sessions /\ h.u \in Users /\ userId[h.s] = h.u
  BY <1>2 DEF LoginPull, counters, TaskHolds
<1>4. log' \in Log /\ ShowsStored
  BY <1>1, <1>3 DEF Typed, ShowsStored
<1>5. ASSUME NEW s \in Sessions, NEW i \in DOMAIN rows,
             Pushes(h, s, i), ~rows[i].delivered, userId[s] = To[rows[i].m]
      PROVE  i \in Undelivered(h.u)
  BY <1>3, <1>5 DEF Pushes, LoginTask, Undelivered
<1>6. CASE Undelivered(h.u) = {}
  <2>1. Done(k)
    BY <1>2, <1>6 DEF LoginPull
  <2>2. Turn(h, {})
    BY <1>1, <1>2, <2>1, DoneFacts
  <2>3. Typed' /\ TasksHold' /\ UnusedHasNoUser' /\ Reachable' /\ Seen' /\ Waiting'
    BY <1>2, <1>3, <1>4, <1>5, <1>6, <2>2, CalmStep
  <2>4. Told'
    BY <1>1, <1>2, <1>3, <2>2, CalmTold
  <2> QED
    BY <2>3, <2>4 DEF IInv
<1>7. CASE Undelivered(h.u) # {}
  <2>0. PICK d \in SUBSET DOMAIN rows : d = Undelivered(h.u)
    BY DEF Undelivered
  <2> DEFINE z == [h EXCEPT !.pc = "push", !.pulled = d, !.left = d]
  <2>1. Goto(k, z)
    BY <1>2, <1>7, <2>0 DEF LoginPull
  <2>2. /\ z \in Task /\ z.kind = "login" /\ z.pc = "push" /\ z.s = h.s /\ z.u = h.u
        /\ z.left = d /\ z.pulled = d
    <3>1. d \in SUBSET Nat
      <4>1. rows \in Seq(Row)
        BY <1>1 DEF Typed
      <4> QED
        BY <2>0, <4>1
    <3> QED
      BY <1>2, <3>1 DEF Task, Pc
  <2> HIDE DEF z
  <2>3. PICK x \in Task : x = z
    BY <2>2
  <2>4. Turn(h, {x})
    BY <1>1, <1>2, <2>1, <2>3, GotoFacts
  <2>5. TaskHolds(x)
    BY <1>2, <2>0, <2>2, <2>3 DEF TaskHolds
  <2>6. \A s \in Sessions, i \in DOMAIN rows :
          Pushes(h, s, i) /\ ~rows[i].delivered /\ userId[s] = To[rows[i].m] => Pushes(x, s, i)
    BY <1>5, <2>0, <2>2, <2>3 DEF Pushes, LoginTask
  <2>7. Typed' /\ TasksHold' /\ UnusedHasNoUser' /\ Reachable' /\ Seen' /\ Waiting'
    BY <1>2, <1>3, <1>4, <2>4, <2>5, <2>6, CalmStep
  <2>8. Told'
    BY <1>1, <1>2, <1>3, <2>4, CalmTold
  <2> QED
    BY <2>7, <2>8 DEF IInv
<1> QED
  BY <1>6, <1>7

\* A login sends one of the rows to its session and a receipt to the sender.
LEMMA PushStep ==
  ASSUME IInv, NEW k \in Strands, LoginPush(k)
  PROVE  IInv'
<1>1. Typed /\ Told
  BY DEF IInv
<1>2. PICK h \in Tasks : /\ h = Head(biz[k]) /\ biz[k] # <<>> /\ h \in Task /\ TaskHolds(h)
                         /\ h.kind = "login" /\ h.pc = "push"
  <2>1. Running(k, "login", "push")
    BY DEF LoginPush
  <2> QED
    BY <2>1, RunningFacts
<1>3. /\ UNCHANGED <<conn, userId, closing, presence, rows, asked, sends, crashes, overtaken>>
      /\ h.s \in Sessions
  BY <1>2 DEF LoginPush, counters, TaskHolds
<1>4. PICK i \in h.left :
        /\ log' = Deliver(Deliver(log, h.s, Chat(rows[i].m)), Get(From[rows[i].m]), Ack(rows[i].m, "SUCC"))
        /\ Goto(k, [h EXCEPT !.left = h.left \ {i}, !.pc = IF h.left = {i} THEN "mark" ELSE "push"])
  BY <1>2 DEF LoginPush
<1> DEFINE z == [h EXCEPT !.left = h.left \ {i}, !.pc = IF h.left = {i} THEN "mark" ELSE "push"]
<1>5. /\ z \in Task /\ z.kind = "login" /\ z.pc \in {"push", "mark"} /\ z.s = h.s /\ z.u = h.u
      /\ z.left = h.left \ {i} /\ z.pulled = h.pulled
  BY <1>2 DEF Task, Pc
<1> HIDE DEF z
<1>6. PICK x \in Task : x = z
  BY <1>5
<1>7. Turn(h, {x})
  BY <1>1, <1>2, <1>4, <1>6, GotoFacts DEF z
<1>8. PICK m \in Msgs : m = rows[i].m /\ Stored(m)
  <2>1. i \in DOMAIN rows
    BY <1>2 DEF TaskHolds
  <2> QED
    BY <1>1, <2>1, RowFacts DEF Stored
<1>9. /\ log' \in Log
      /\ \A r \in Sessions :
           /\ \A n \in Msgs : log'[r].got[n] = log[r].got[n] \/ n = m
           /\ \A e \in log'[r].notes : e \in log[r].notes \/ e.m = m
           /\ \A v \in Users : log'[r].told[v] = log[r].told[v]
  <2>1. PICK g \in Sessions \cup {None} : g = Get(From[m])
    BY <1>1, ConstantFacts, GetFacts
  <2>2. /\ log' = Deliver(Deliver(log, h.s, Chat(m)), g, Ack(m, "SUCC"))
        /\ h.s \in Sessions \cup {None} /\ "SUCC" \in {"SUCC", "FAIL", "ERROR"}
    BY <1>3, <1>4, <1>8, <2>1
  <2>3. /\ log' \in Log
        /\ \A r \in Sessions :
             /\ \A n \in Msgs : \/ log'[r].got[n] = log[r].got[n]
                                \/ n = m /\ r = h.s /\ log'[r].got[n] = log[r].got[n] + 1
             /\ \A e \in log'[r].notes : e \in log[r].notes \/ e.m = m
             /\ \A v \in Users : log'[r].told[v] = log[r].told[v]
    BY <1>1, <2>2, DeliverBoth
  <2> QED
    BY <2>3
<1>10. ShowsStored
  BY <1>8, <1>9 DEF ShowsStored
<1>11. TaskHolds(x)
  BY <1>2, <1>5, <1>6 DEF TaskHolds
<1>12. \A s \in Sessions, j \in DOMAIN rows : Pushes(h, s, j) => Pushes(x, s, j)
  BY <1>2, <1>5, <1>6 DEF Pushes, LoginTask
<1>13. Typed' /\ TasksHold' /\ UnusedHasNoUser' /\ Reachable' /\ Seen' /\ Waiting'
  <2>1. log' \in Log /\ h.pc # "replace"
    BY <1>2, <1>9
  <2>2. UNCHANGED <<conn, userId, closing, presence, rows, asked, sends, crashes, overtaken>>
    BY <1>3
  <2> QED
    BY <1>7, <1>10, <1>11, <1>12, <2>1, <2>2, CalmStep
<1>14. Told'
  <2>1. \A t \in Sessions, u \in Users : log'[t].told[u] = log[t].told[u]
    BY <1>9
  <2> QED
    BY <1>1, <1>2, <1>3, <1>7, <2>1, CalmTold
<1> QED
  BY <1>13, <1>14 DEF IInv

\* A login marks the rows it pulled.
LEMMA MarkStep ==
  ASSUME IInv, NEW k \in Strands, LoginMark(k)
  PROVE  IInv'
<1>1. Typed /\ TasksHold /\ UnusedHasNoUser /\ Reachable /\ Seen /\ Waiting /\ Told
  BY DEF IInv
<1>2. PICK h \in Tasks : /\ h = Head(biz[k]) /\ biz[k] # <<>> /\ h \in Task /\ TaskHolds(h)
                         /\ h.kind = "login" /\ h.pc = "mark"
  <2>1. Running(k, "login", "mark")
    BY DEF LoginMark
  <2> QED
    BY <2>1, RunningFacts
<1>3. /\ UNCHANGED <<conn, userId, closing, presence, log, asked, sends, crashes, overtaken>>
      /\ rows' = Marked(h.pulled) /\ Done(k)
  BY <1>2 DEF LoginMark, counters
<1>4. Turn(h, {})
  BY <1>1, <1>2, <1>3, DoneFacts
<1>5. /\ rows' \in Seq(Row) /\ DOMAIN rows' = DOMAIN rows /\ Len(rows') = Len(rows)
      /\ \A i \in DOMAIN rows : /\ rows'[i].m = rows[i].m /\ rows'[i].seq = rows[i].seq
                                /\ i \in h.pulled => rows'[i].delivered
                                /\ i \notin h.pulled => rows'[i] = rows[i]
  <2>1. rows \in Seq(Row) /\ Len(rows) \in Nat /\ DOMAIN rows = 1..Len(rows)
    BY <1>1 DEF Typed
  <2>2. rows' = [i \in 1..Len(rows) |->
                   IF i \in h.pulled THEN [rows[i] EXCEPT !.delivered = TRUE] ELSE rows[i]]
    BY <1>3, <2>1 DEF Marked
  <2>3. ASSUME NEW i \in 1..Len(rows)
        PROVE  /\ rows'[i] \in Row /\ rows'[i].m = rows[i].m /\ rows'[i].seq = rows[i].seq
               /\ i \in h.pulled => rows'[i].delivered
               /\ i \notin h.pulled => rows'[i] = rows[i]
    <3>1. rows[i] \in Row
      BY <2>1
    <3>2. CASE i \in h.pulled
      <4>1. rows'[i] = [rows[i] EXCEPT !.delivered = TRUE]
        BY <2>2, <3>2
      <4> QED
        BY <3>1, <3>2, <4>1 DEF Row
    <3>3. CASE i \notin h.pulled
      <4>1. rows'[i] = rows[i]
        BY <2>2, <3>3
      <4> QED
        BY <3>1, <3>3, <4>1
    <3> QED
      BY <3>2, <3>3
  <2>4. rows' \in [1..Len(rows) -> Row]
    BY <2>2, <2>3
  <2>5. rows' \in Seq(Row) /\ DOMAIN rows' = 1..Len(rows) /\ Len(rows') = Len(rows)
    BY <2>1, <2>4
  <2> QED
    BY <2>1, <2>3, <2>5
<1>6. Grows
  BY <1>3, <1>5 DEF Grows
<1>7. Typed'
  <2>1. \A i \in DOMAIN rows' : rows'[i].seq <= Len(rows')
    BY <1>1, <1>5 DEF Typed
  <2> QED
    BY <1>1, <1>3, <1>4, <1>5, <2>1 DEF Typed, Turn
<1>8. TasksHold'
  BY <1>1, <1>4, <1>6, TasksKept
<1>9. UnusedHasNoUser'
  BY <1>1, <1>3 DEF UnusedHasNoUser
<1>10. Reachable'
  BY <1>1, <1>2, <1>3, <1>4, ReachableKept
<1>11. Seen'
  <2>1. ShowsStored
    BY <1>3 DEF ShowsStored
  <2> QED
    BY <1>1, <1>6, <2>1, SeenKept
<1>12. Waiting'
  <2> SUFFICES ASSUME NEW i \in DOMAIN rows', NEW s \in Sessions,
                      ~rows'[i].delivered, rows'[i].m \notin overtaken',
                      userId'[s] = To[rows'[i].m], conn'[s] = "open"
               PROVE  WillPush(s, i)'
    BY DEF Waiting
  <2>1. i \in DOMAIN rows /\ i \notin h.pulled /\ rows'[i] = rows[i]
    BY <1>5
  <2>2. WillPush(s, i)
    BY <1>1, <1>3, <2>1 DEF Waiting
  <2>3. ~Pushes(h, s, i)
    BY <1>2, <2>1 DEF Pushes
  <2> QED
    BY <1>4, <2>2, <2>3, WillKept
<1>13. Told'
  BY <1>1, <1>2, <1>3, <1>4, CalmTold
<1> QED
  BY <1>7, <1>8, <1>9, <1>10, <1>11, <1>12, <1>13 DEF IInv

\* onChat looks for the receiver.
LEMMA ChatGetStep ==
  ASSUME IInv, NEW k \in Strands, ChatGet(k)
  PROVE  IInv'
<1>1. Typed /\ Told
  BY DEF IInv
<1>2. PICK h \in Tasks : /\ h = Head(biz[k]) /\ biz[k] # <<>> /\ h \in Task /\ TaskHolds(h)
                         /\ h.kind = "chat" /\ h.pc = "get"
  <2>1. Running(k, "chat", "get")
    BY DEF ChatGet
  <2> QED
    BY <2>1, RunningFacts
<1>3. /\ UNCHANGED <<conn, userId, closing, presence, rows, log, asked, sends, crashes, overtaken>>
      /\ h.m \in Msgs
  BY <1>2 DEF ChatGet, counters, TaskHolds
<1>4. PICK g \in Sessions \cup {None} : g = Get(To[h.m])
  BY <1>1, <1>3, ConstantFacts, GetFacts
<1> DEFINE z == [h EXCEPT !.pc = "save", !.target = g]
<1>5. Goto(k, z)
  BY <1>2, <1>4 DEF ChatGet
<1>6. /\ z \in Task /\ z.kind = "chat" /\ z.pc = "save" /\ z.s = h.s /\ z.m = h.m
      /\ z.left = h.left /\ z.pulled = h.pulled
  BY <1>2 DEF Task, Pc
<1> HIDE DEF z
<1>7. PICK x \in Task : x = z
  BY <1>6
<1>8. Turn(h, {x})
  BY <1>1, <1>2, <1>5, <1>7, GotoFacts
<1>9. log' \in Log /\ ShowsStored
  BY <1>1, <1>3 DEF Typed, ShowsStored
<1>10. TaskHolds(x)
  BY <1>2, <1>6, <1>7 DEF TaskHolds
<1>11. \A s \in Sessions, i \in DOMAIN rows : ~Pushes(h, s, i)
  BY <1>2 DEF Pushes, LoginTask
<1>12. Typed' /\ TasksHold' /\ UnusedHasNoUser' /\ Reachable' /\ Seen' /\ Waiting'
  BY <1>2, <1>3, <1>8, <1>9, <1>10, <1>11, CalmStep
<1>13. Told'
  BY <1>1, <1>2, <1>3, <1>8, CalmTold
<1> QED
  BY <1>12, <1>13 DEF IInv

\* onChat saves the message.
LEMMA ChatSaveStep ==
  ASSUME IInv, NEW k \in Strands, ChatSave(k)
  PROVE  IInv'
<1>1. Typed /\ TasksHold /\ UnusedHasNoUser /\ Reachable /\ Seen /\ Waiting /\ Told
  BY DEF IInv
<1>2. PICK h \in Tasks : /\ h = Head(biz[k]) /\ biz[k] # <<>> /\ h \in Task /\ TaskHolds(h)
                         /\ h.kind = "chat" /\ h.pc = "save"
  <2>1. Running(k, "chat", "save")
    BY DEF ChatSave
  <2> QED
    BY <2>1, RunningFacts
<1> DEFINE z == [h EXCEPT !.pc = "deliver"]
<1>3. /\ UNCHANGED <<conn, userId, closing, presence, log, asked, sends, crashes>>
      /\ SaveMessage(h.m, h.target # None)
      /\ overtaken' = IF h.target = None /\ Pulled(To[h.m]) # {} THEN overtaken \cup {h.m} ELSE overtaken
      /\ Goto(k, z)
  BY <1>2 DEF ChatSave
<1>4. h.s \in Sessions /\ h.m \in Msgs
  BY <1>2 DEF TaskHolds
<1>5. /\ z \in Task /\ z.kind = "chat" /\ z.pc = "deliver" /\ z.s = h.s /\ z.m = h.m
      /\ z.left = h.left /\ z.pulled = h.pulled
  BY <1>2 DEF Task, Pc
<1> HIDE DEF z
<1>6. PICK x \in Task : x = z
  BY <1>5
<1>7. Turn(h, {x})
  BY <1>1, <1>2, <1>3, <1>6, GotoFacts
<1>8. rows \in Seq(Row) /\ Len(rows) \in Nat /\ DOMAIN rows = 1..Len(rows)
  BY <1>1 DEF Typed
<1> DEFINE n == Len(rows) + 1
<1>9. /\ rows' \in Seq(Row) /\ DOMAIN rows \subseteq DOMAIN rows'
      /\ \A i \in DOMAIN rows' : rows'[i].seq <= Len(rows')
      /\ \A i \in DOMAIN rows : rows'[i] = rows[i]
      /\ \A i \in DOMAIN rows' : i \in DOMAIN rows \/ (rows'[i].m = h.m /\ (h.target # None => rows'[i].delivered))
      /\ \E i \in DOMAIN rows' : rows'[i].m = h.m
  <2>1. CASE \E i \in DOMAIN rows : rows[i].m = h.m
    <3>1. rows' = rows
      BY <1>3, <2>1 DEF SaveMessage
    <3>2. \A i \in DOMAIN rows : rows[i].seq <= Len(rows)
      BY <1>1 DEF Typed
    <3> QED
      BY <1>8, <2>1, <3>1, <3>2
  <2>2. CASE ~\E i \in DOMAIN rows : rows[i].m = h.m
    <3>1. NextSeq(h.m) \in Nat \ {0} /\ NextSeq(h.m) <= n
      BY <1>1, <1>4, NextSeqFacts
    <3> DEFINE w == [m |-> h.m, seq |-> NextSeq(h.m), delivered |-> h.target # None]
    <3>2. w \in Row /\ w.m = h.m /\ w.seq <= n /\ (h.target # None => w.delivered)
      BY <1>4, <3>1 DEF Row
    <3>3. rows' = Append(rows, w)
      BY <1>3, <2>2 DEF SaveMessage
    <3> HIDE DEF w
    <3>4. /\ rows' \in Seq(Row) /\ Len(rows') = n /\ DOMAIN rows' = 1..n /\ rows'[n] = w
          /\ \A i \in 1..Len(rows) : rows'[i] = rows[i]
      BY <1>8, <3>2, <3>3
    <3>5. \A i \in 1..n : i \in 1..Len(rows) \/ i = n
      BY <1>8
    <3>6. \A i \in 1..Len(rows) : rows[i].seq \in Nat /\ rows[i].seq <= Len(rows)
      <4>1. \A i \in 1..Len(rows) : rows[i] \in Row
        BY <1>8
      <4> QED
        BY <1>1, <1>8, <4>1 DEF Row, Typed
    <3>7. n \in 1..n /\ n \in Nat /\ 1..Len(rows) \subseteq 1..n
      BY <1>8
    <3> HIDE DEF n
    <3>8. \A i \in 1..n : rows'[i].seq <= n
      <4>1. ASSUME NEW i \in 1..Len(rows)
            PROVE  rows'[i].seq <= n
        <5>1. rows'[i].seq = rows[i].seq /\ rows[i].seq \in Nat /\ rows[i].seq <= Len(rows) /\ Len(rows) <= n
          BY <1>8, <3>4, <3>6 DEF n
        <5> QED
          BY <1>8, <3>7, <5>1
      <4> QED
        BY <3>2, <3>4, <3>5, <4>1
    <3> QED
      BY <1>8, <3>2, <3>4, <3>5, <3>7, <3>8
  <2> QED
    BY <2>1, <2>2
<1> HIDE DEF n
<1>10. Grows
  BY <1>3, <1>9 DEF Grows
<1>11. overtaken \subseteq overtaken' /\ overtaken' \subseteq Msgs
  BY <1>1, <1>3, <1>4 DEF Typed
<1>12. Typed'
  BY <1>1, <1>3, <1>7, <1>9, <1>11 DEF Typed, Turn
<1>13. TasksHold'
  <2>1. Stored(h.m)'
    BY <1>9 DEF Stored
  <2>2. TaskHolds(x)'
    <3>1. x.left \subseteq x.pulled /\ x.pulled \subseteq DOMAIN rows'
      BY <1>2, <1>5, <1>6, <1>9 DEF TaskHolds
    <3> QED
      BY <1>4, <1>5, <1>6, <2>1, <3>1 DEF TaskHolds
  <2> QED
    BY <1>1, <1>7, <1>10, <2>2, TasksKept
<1>14. UnusedHasNoUser'
  BY <1>1, <1>3 DEF UnusedHasNoUser
<1>15. Reachable'
  BY <1>1, <1>2, <1>3, <1>7, ReachableKept
<1>16. Seen'
  <2>1. ShowsStored
    BY <1>3 DEF ShowsStored
  <2> QED
    BY <1>1, <1>10, <2>1, SeenKept
<1>17. Waiting'
  <2> SUFFICES ASSUME NEW i \in DOMAIN rows', NEW s \in Sessions,
                      ~rows'[i].delivered, rows'[i].m \notin overtaken',
                      userId'[s] = To[rows'[i].m], conn'[s] = "open"
               PROVE  WillPush(s, i)'
    BY DEF Waiting
  <2>1. WillPush(s, i)
    <3>1. CASE i \in DOMAIN rows
      <4>1. rows'[i] = rows[i] /\ rows[i].m \notin overtaken /\ userId[s] = To[rows[i].m] /\ conn[s] = "open"
        BY <1>3, <1>9, <1>11, <3>1
      <4> QED
        BY <1>1, <3>1, <4>1 DEF Waiting
    <3>2. CASE i \notin DOMAIN rows
      <4>1. rows'[i].m = h.m /\ h.target = None
        BY <1>9, <3>2
      <4>2. Pulled(To[h.m]) = {} /\ userId[s] = To[h.m] /\ conn[s] = "open"
        BY <1>3, <4>1
      <4>3. PICK t \in Tasks : t.kind = "login" /\ t.s = s /\ t.pc \notin {"bind", "push", "mark"}
        BY <4>2 DEF Pulled
      <4>4. t.pc \in {"replace", "friend", "tell", "pull"}
        BY <1>1, <4>3 DEF TasksHold, TaskHolds
      <4> QED
        BY <4>3, <4>4 DEF WillPush, Pushes, LoginTask
    <3> QED
      BY <3>1, <3>2
  <2>2. ~Pushes(h, s, i)
    BY <1>2 DEF Pushes, LoginTask
  <2> QED
    BY <1>7, <2>1, <2>2, WillKept
<1>18. Told'
  BY <1>1, <1>2, <1>3, <1>7, CalmTold
<1> QED
  BY <1>12, <1>13, <1>14, <1>15, <1>16, <1>17, <1>18 DEF IInv

\* onChat cannot save the message.
LEMMA ChatSaveFailsStep ==
  ASSUME IInv, NEW k \in Strands, ChatSaveFails(k)
  PROVE  IInv'
<1>1. Typed /\ Told
  BY DEF IInv
<1>2. PICK h \in Tasks : /\ h = Head(biz[k]) /\ biz[k] # <<>> /\ h \in Task /\ TaskHolds(h)
                         /\ h.kind = "chat" /\ h.pc = "save"
  <2>1. Running(k, "chat", "save")
    BY DEF ChatSaveFails
  <2> QED
    BY <2>1, RunningFacts
<1>3. /\ UNCHANGED <<conn, userId, closing, presence, rows, asked, sends, crashes, overtaken>>
      /\ Done(k) /\ h.m \in Msgs /\ h.s \in Sessions
  BY <1>2 DEF ChatSaveFails, counters, TaskHolds
<1>4. Turn(h, {})
  BY <1>1, <1>2, <1>3, DoneFacts
<1>5. /\ log' \in Log
      /\ \A r \in Sessions :
           /\ \A n \in Msgs : log'[r].got[n] = log[r].got[n]
           /\ \A e \in log'[r].notes : e \in log[r].notes \/ e.type = "ERROR"
           /\ \A v \in Users : log'[r].told[v] = log[r].told[v]
  <2>1. log \in Log
    BY <1>1 DEF Typed
  <2>2. PICK a \in Frame : a = Ack(h.m, "ERROR") /\ a.u = None /\ a.type = "ERROR"
    BY <1>3, FrameFacts
  <2>3. log' = Deliver(log, h.s, a) /\ a.type # "CHAT" /\ h.s \in Sessions \cup {None}
    BY <1>2, <1>3, <2>2 DEF ChatSaveFails
  <2>4. /\ log' \in Log
        /\ \A r \in Sessions :
             /\ \A n \in Msgs : log'[r].got[n] = log[r].got[n]
             /\ \A e \in log'[r].notes : e \in log[r].notes \/ e = a
             /\ \A v \in Users : log'[r].told[v] = log[r].told[v]
    BY <1>1, <2>1, <2>2, <2>3, DeliverNote
  <2> QED
    BY <2>2, <2>4
<1>6. ShowsStored
  BY <1>5 DEF ShowsStored
<1>7. \A s \in Sessions, i \in DOMAIN rows : ~Pushes(h, s, i)
  BY <1>2 DEF Pushes, LoginTask
<1>8. Typed' /\ TasksHold' /\ UnusedHasNoUser' /\ Reachable' /\ Seen' /\ Waiting'
  <2>1. log' \in Log
    BY <1>5
  <2> QED
    BY <1>2, <1>3, <1>4, <1>6, <1>7, <2>1, CalmStep
<1>9. Told'
  <2>1. \A t \in Sessions, u \in Users : log'[t].told[u] = log[t].told[u]
    BY <1>5
  <2> QED
    BY <1>1, <1>2, <1>3, <1>4, <2>1, CalmTold
<1> QED
  BY <1>8, <1>9 DEF IInv

\* onChat sends the message to the session it found and the result to the sender.
LEMMA ChatDeliverStep ==
  ASSUME IInv, NEW k \in Strands, ChatDeliver(k)
  PROVE  IInv'
<1>1. Typed /\ Told
  BY DEF IInv
<1>2. PICK h \in Tasks : /\ h = Head(biz[k]) /\ biz[k] # <<>> /\ h \in Task /\ TaskHolds(h)
                         /\ h.kind = "chat" /\ h.pc = "deliver"
  <2>1. Running(k, "chat", "deliver")
    BY DEF ChatDeliver
  <2> QED
    BY <2>1, RunningFacts
<1>3. /\ UNCHANGED <<conn, userId, closing, presence, rows, asked, sends, crashes, overtaken>>
      /\ Done(k) /\ h.m \in Msgs /\ h.s \in Sessions /\ Stored(h.m)
      /\ h.target \in Sessions \cup {None}
  BY <1>2 DEF ChatDeliver, counters, TaskHolds, Task
<1>4. Turn(h, {})
  BY <1>1, <1>2, <1>3, DoneFacts
<1>5. /\ log' \in Log
      /\ \A r \in Sessions :
           /\ \A n \in Msgs : log'[r].got[n] = log[r].got[n] \/ n = h.m
           /\ \A e \in log'[r].notes : e \in log[r].notes \/ e.m = h.m
           /\ \A v \in Users : log'[r].told[v] = log[r].told[v]
  <2>1. PICK res \in {"SUCC", "FAIL", "ERROR"} : res = IF h.target # None THEN "SUCC" ELSE "FAIL"
    OBVIOUS
  <2>2. /\ log' = Deliver(Deliver(log, h.target, Chat(h.m)), h.s, Ack(h.m, res))
        /\ h.s \in Sessions \cup {None} /\ h.target \in Sessions \cup {None} /\ h.m \in Msgs
    BY <1>2, <1>3, <2>1 DEF ChatDeliver
  <2> QED
    BY <1>1, <2>2, DeliverBoth
<1>6. ShowsStored
  BY <1>3, <1>5 DEF ShowsStored
<1>7. \A s \in Sessions, i \in DOMAIN rows : ~Pushes(h, s, i)
  BY <1>2 DEF Pushes, LoginTask
<1>8. Typed' /\ TasksHold' /\ UnusedHasNoUser' /\ Reachable' /\ Seen' /\ Waiting'
  <2>1. log' \in Log
    BY <1>5
  <2> QED
    BY <1>2, <1>3, <1>4, <1>6, <1>7, <2>1, CalmStep
<1>9. Told'
  <2>1. \A t \in Sessions, u \in Users : log'[t].told[u] = log[t].told[u]
    BY <1>5
  <2> QED
    BY <1>1, <1>2, <1>3, <1>4, <2>1, CalmTold
<1> QED
  BY <1>8, <1>9 DEF IInv

\* A client's offline request.
LEMMA OfflineStep ==
  ASSUME IInv, NEW k \in Strands, Offline(k)
  PROVE  IInv'
<1>1. Typed /\ TasksHold /\ UnusedHasNoUser /\ Reachable /\ Seen /\ Waiting /\ Told
  BY DEF IInv
<1>2. PICK h \in Tasks : /\ h = Head(biz[k]) /\ biz[k] # <<>> /\ h \in Task /\ TaskHolds(h)
                         /\ h.kind = "offline" /\ h.pc = "offline"
  <2>1. Running(k, "offline", "offline")
    BY DEF Offline
  <2> QED
    BY <2>1, RunningFacts
<1>3. /\ UNCHANGED <<conn, userId, rows, log, asked, sends, crashes, overtaken>>
      /\ presence' = OfflineMap(userId[h.s], h.s) /\ closing' = closing \cup {h.s}
      /\ Done(k) /\ h.s \in Sessions
  BY <1>2 DEF Offline, counters, TaskHolds
<1>4. Turn(h, {})
  BY <1>1, <1>2, <1>3, DoneFacts
<1>5. /\ presence' \in [Users -> Sessions \cup {None}] /\ closing' \subseteq Sessions
      /\ \A u \in Users : presence'[u] = presence[u] \/ presence[u] = h.s
  BY <1>1, <1>3 DEF Typed, OfflineMap
<1>6. Grows
  BY <1>3 DEF Grows
<1>7. \A s \in Sessions, u \in Users : Fresh(s, u)' => Fresh(s, u) /\ s # h.s
  BY <1>3 DEF Fresh
<1>8. Typed'
  BY <1>1, <1>3, <1>4, <1>5 DEF Typed, Turn
<1>9. TasksHold'
  BY <1>1, <1>4, <1>6, TasksKept
<1>10. UnusedHasNoUser'
  BY <1>1, <1>3 DEF UnusedHasNoUser
<1>11. Reachable'
  <2>1. \A s : Replacing(s) => Replacing(s)'
    BY <1>2, <1>4, WillKept DEF Replaces, LoginTask
  <2> QED
    BY <1>1, <1>5, <1>7, <2>1 DEF Reachable
<1>12. Seen'
  <2>1. ShowsStored
    BY <1>3 DEF ShowsStored
  <2> QED
    BY <1>1, <1>6, <2>1, SeenKept
<1>13. Waiting'
  <2>1. \A s \in Sessions, i \in DOMAIN rows : ~Pushes(h, s, i)
    BY <1>2 DEF Pushes, LoginTask
  <2> QED
    BY <1>1, <1>3, <1>4, <2>1, WaitingKept
<1>14. Told'
  <2>1. \A s \in Sessions, v \in Users : ~Tells(h, s, v) /\ ~Looks(h, s, v)
    BY <1>2 DEF Tells, Looks, LoginTask
  <2> QED
    BY <1>1, <1>3, <1>4, <1>7, <2>1, ToldKept
<1> QED
  BY <1>8, <1>9, <1>10, <1>11, <1>12, <1>13, <1>14 DEF IInv

\* The offline notice of a user goes to a friend.  It takes back no news of a user
\* with one session: that one would have ended.
LEMMA BroadcastStep ==
  ASSUME IInv, NEW k \in Strands, Broadcast(k)
  PROVE  IInv'
<1>1. Typed /\ Told
  BY DEF IInv
<1>2. PICK h \in Tasks : /\ h = Head(biz[k]) /\ biz[k] # <<>> /\ h \in Task /\ TaskHolds(h)
                         /\ h.kind = "bcast" /\ h.pc = "friends"
  <2>1. Running(k, "bcast", "friends")
    BY DEF Broadcast
  <2> QED
    BY <2>1, RunningFacts
<1>3. /\ UNCHANGED <<conn, userId, closing, presence, rows, asked, sends, crashes, overtaken>>
      /\ h.u \in Users /\ h.todo \subseteq Users
  BY <1>2 DEF Broadcast, counters, TaskHolds, Task
<1>4. PICK f \in h.todo :
        /\ log' = Deliver(log, Get(f), FriendOffline(h.u))
        /\ IF h.todo = {f} THEN Done(k) ELSE Goto(k, [h EXCEPT !.todo = h.todo \ {f}])
  BY <1>2 DEF Broadcast
<1>5. /\ log' \in Log
      /\ \A r \in Sessions :
           /\ \A m \in Msgs : log'[r].got[m] = log[r].got[m]
           /\ \A e \in log'[r].notes : e \in log[r].notes
           /\ \A v \in Users : v # h.u => log'[r].told[v] = log[r].told[v]
  <2>1. log \in Log
    BY <1>1 DEF Typed
  <2>2. PICK n \in Frame : n = FriendOffline(h.u) /\ n.u = h.u /\ n.type = "FRIEND_OFFLINE"
    BY <1>3, FrameFacts
  <2>3. PICK g \in Sessions \cup {None} : g = Get(f)
    BY <1>1, <1>3, GetFacts
  <2>4. log' = Deliver(log, g, n) /\ n.u \in Users /\ n.type \in Status
    BY <1>3, <1>4, <2>2, <2>3 DEF Status
  <2>5. /\ log' \in Log
        /\ \A r \in Sessions :
             /\ \A m \in Msgs : log'[r].got[m] = log[r].got[m]
             /\ \A e \in log'[r].notes : e \in log[r].notes
             /\ \A v \in Users : log'[r].told[v] = log[r].told[v] \/ v = n.u
    BY <1>1, <2>1, <2>4, DeliverNews
  <2> QED
    BY <2>2, <2>5
<1>6. ShowsStored
  BY <1>5 DEF ShowsStored
<1>7. \A s, v : ~Pushes(h, s, v) /\ ~Tells(h, s, v) /\ ~Looks(h, s, v)
  BY <1>2 DEF Pushes, Tells, Looks, LoginTask
<1>8. \E X : Turn(h, X) /\ \A x \in X : TaskHolds(x)
  <2>1. CASE h.todo = {f}
    <3>1. Turn(h, {})
      BY <1>1, <1>2, <1>4, <2>1, DoneFacts
    <3> QED
      BY <3>1
  <2>2. CASE h.todo # {f}
    <3> DEFINE z == [h EXCEPT !.todo = h.todo \ {f}]
    <3>1. /\ z \in Task /\ z.kind = "bcast" /\ z.u = h.u /\ z.left = h.left /\ z.pulled = h.pulled
          /\ Goto(k, z)
      BY <1>2, <1>3, <1>4, <2>2 DEF Task
    <3> HIDE DEF z
    <3>2. PICK x \in Task : x = z
      BY <3>1
    <3>3. Turn(h, {x})
      BY <1>1, <1>2, <3>1, <3>2, GotoFacts
    <3>4. TaskHolds(x)
      BY <1>2, <3>1, <3>2 DEF TaskHolds
    <3> QED
      BY <3>3, <3>4
  <2> QED
    BY <2>1, <2>2
<1>9. PICK X : Turn(h, X) /\ \A x \in X : TaskHolds(x)
  BY <1>8
<1>10. Typed' /\ TasksHold' /\ UnusedHasNoUser' /\ Reachable' /\ Seen' /\ Waiting'
  <2>1. log' \in Log
    BY <1>5
  <2> QED
    BY <1>2, <1>3, <1>6, <1>7, <1>9, <2>1, CalmStep
<1>11. Told'
  <2>1. \A s \in Sessions, u \in Users : Fresh(s, u)' => Fresh(s, u)
    BY <1>3 DEF Fresh
  <2>2. \A s \in Sessions : Fresh(s, h.u) => ~OnlySession(s, h.u)
    <3>1. PICK r \in Sessions : conn[r] = "closed" /\ userId[r] = h.u
      BY <1>2 DEF TaskHolds
    <3> QED
      BY <3>1 DEF Fresh, OnlySession
  <2>3. \A s, t \in Sessions, u \in Users :
          Fresh(s, u) /\ OnlySession(s, u) => log'[t].told[u] = log[t].told[u]
    BY <1>5, <2>2
  <2> QED
    BY <1>1, <1>3, <1>7, <1>9, <2>1, <2>3, ToldKept
<1> QED
  BY <1>10, <1>11 DEF IInv

-----------------------------------------------------------------------------
(* No message twice.  Every time a message is sent gives one onChat, and a *)
(* session can get it from that onChat, directly or as the row it leaves   *)
(* to the session's login.  So what a session got, the onChat tasks that   *)
(* may still bring it one, and the row that its login may still push add   *)
(* up to no more than the times the message was sent.                      *)

\* An onChat of m that may still bring session s a copy, or a row that waits for it.
CanDeliver(t, s, m) ==
  /\ t.kind = "chat" /\ t.m = m
  /\ t.pc = "get" \/ t.target = s \/ (t.pc = "save" /\ t.target = None)

\* Where they stand on the strands.
Places == UNION {{k} \X DOMAIN biz[k] : k \in Strands}
Claims(s, m) == {p \in Places : CanDeliver(biz[p[1]][p[2]], s, m)}

\* The login of s has not read the table, or has row i still to push.
Pulls(t, s) == LoginTask(t, s) /\ t.pc \in {"replace", "friend", "tell", "pull"}
HasLeft(t, s, i) == LoginTask(t, s) /\ t.pc = "push" /\ i \in t.left

WillPull(s) == userId[s] = None \/ \E t \in Tasks : Pulls(t, s)

MayPush(s, m) ==
  \E i \in DOMAIN rows :
    /\ rows[i].m = m
    /\ (~rows[i].delivered /\ WillPull(s)) \/ \E t \in Tasks : HasLeft(t, s, i)

Within(s, m) ==
  /\ IsFiniteSet(Claims(s, m))
  /\ log[s].got[m] + Cardinality(Claims(s, m)) <= sends[m]
  /\ MayPush(s, m) => log[s].got[m] + Cardinality(Claims(s, m)) + 1 <= sends[m]

Budget == \A s \in Sessions, m \in Msgs : Within(s, m)

\* saveMessage makes one row of a message.
OneRow == \A i, j \in DOMAIN rows : rows[i].m = rows[j].m => i = j

\* The logins of a session are on its strand, and only the running one is past "bind".
HeadOnly ==
  \A k \in Strands : \A i \in DOMAIN biz[k] :
    biz[k][i].kind = "login" => k = BizOf[biz[k][i].s] /\ (i > 1 => biz[k][i].pc = "bind")

Counted == OneRow /\ HeadOnly /\ Budget

\* Membership in Claims.
LEMMA ClaimFacts ==
  ASSUME NEW s, NEW m
  PROVE  /\ \A p : p \in Claims(s, m) <=>
                     \E j \in Strands : \E i \in DOMAIN biz[j] : p = <<j, i>> /\ CanDeliver(biz[j][i], s, m)
         /\ \A p : p \in Claims(s, m)' <=>
                     \E j \in Strands : \E i \in DOMAIN biz'[j] : p = <<j, i>> /\ CanDeliver(biz'[j][i], s, m)
<1>1. \A p : p \in Claims(s, m) <=>
               \E j \in Strands : \E i \in DOMAIN biz[j] : p = <<j, i>> /\ CanDeliver(biz[j][i], s, m)
  BY DEF Claims, Places
<1>2. \A p : p \in Claims(s, m)' <=>
               \E j \in Strands : \E i \in DOMAIN biz'[j] : p = <<j, i>> /\ CanDeliver(biz'[j][i], s, m)
  BY DEF Claims, Places
<1> QED
  BY <1>1, <1>2

\* No more than before, and fewer if the running task was one of them.
Fewer(h, s, m) ==
  /\ IsFiniteSet(Claims(s, m)')
  /\ Cardinality(Claims(s, m)') <= Cardinality(Claims(s, m))
  /\ CanDeliver(h, s, m) => Cardinality(Claims(s, m)') + 1 <= Cardinality(Claims(s, m))

\* The running task is through: the others move up by one.
LEMMA ClaimsDone ==
  ASSUME Typed, NEW k \in Strands, biz[k] # <<>>, Done(k), NEW s, NEW m, IsFiniteSet(Claims(s, m))
  PROVE  Fewer(Head(biz[k]), s, m)
<1>1. biz \in [Strands -> Seq(Task)] /\ biz[k] \in Seq(Task)
  BY DEF Typed
<1>2. biz' = [biz EXCEPT ![k] = Tail(biz[k])]
  BY DEF Done
<1>3. biz'[k] = Tail(biz[k]) /\ \A j \in Strands : j # k => biz'[j] = biz[j]
  BY <1>1, <1>2
<1>4. /\ \A i \in DOMAIN biz'[k] : i \in Nat \ {0} /\ i + 1 \in DOMAIN biz[k] /\ biz'[k][i] = biz[k][i + 1]
      /\ Head(biz[k]) = biz[k][1] /\ 1 \in DOMAIN biz[k]
  BY <1>1, <1>3
<1> DEFINE S == Claims(s, m)'
           T == Claims(s, m) \ {<<k, 1>>}
           f == [p \in S |-> IF p[1] = k THEN <<k, p[2] + 1>> ELSE p]
<1>5. \A p \in S : \E j \in Strands : \E i \in DOMAIN biz'[j] : p = <<j, i>> /\ CanDeliver(biz'[j][i], s, m)
  BY ClaimFacts
<1>6. ASSUME NEW p \in S
      PROVE  f[p] \in T
  <2>1. PICK j \in Strands : \E i \in DOMAIN biz'[j] : p = <<j, i>> /\ CanDeliver(biz'[j][i], s, m)
    BY <1>5
  <2>2. PICK i \in DOMAIN biz'[j] : p = <<j, i>> /\ CanDeliver(biz'[j][i], s, m)
    BY <2>1
  <2>3. CASE j = k
    <3>1. /\ i \in Nat \ {0} /\ i + 1 \in DOMAIN biz[k] /\ CanDeliver(biz[k][i + 1], s, m)
          /\ f[p] = <<k, i + 1>>
      BY <1>4, <2>2, <2>3
    <3>2. <<k, i + 1>> \in Claims(s, m)
      BY <3>1, ClaimFacts
    <3>3. <<k, i + 1>> # <<k, 1>>
      BY <3>1
    <3> QED
      BY <3>1, <3>2, <3>3
  <2>4. CASE j # k
    <3>1. i \in DOMAIN biz[j] /\ CanDeliver(biz[j][i], s, m) /\ f[p] = <<j, i>>
      BY <1>3, <2>2, <2>4
    <3>2. <<j, i>> \in Claims(s, m)
      BY <3>1, ClaimFacts
    <3> QED
      BY <2>4, <3>1, <3>2
  <2> QED
    BY <2>3, <2>4
<1>7. ASSUME NEW p \in S, NEW q \in S, f[p] = f[q]
      PROVE  p = q
  <2>1. PICK j \in Strands : \E i \in DOMAIN biz'[j] : p = <<j, i>>
    BY <1>5
  <2>2. PICK i \in DOMAIN biz'[j] : p = <<j, i>>
    BY <2>1
  <2>3. PICK jj \in Strands : \E i2 \in DOMAIN biz'[jj] : q = <<jj, i2>>
    BY <1>5
  <2>4. PICK ii \in DOMAIN biz'[jj] : q = <<jj, ii>>
    BY <2>3
  <2>5. /\ f[p] = IF j = k THEN <<k, i + 1>> ELSE <<j, i>>
        /\ f[q] = IF jj = k THEN <<k, ii + 1>> ELSE <<jj, ii>>
    BY <2>2, <2>4
  <2>6. CASE j = k /\ jj = k
    <3>1. i \in Nat /\ ii \in Nat /\ i + 1 = ii + 1
      BY <1>4, <1>7, <2>5, <2>6
    <3> QED
      BY <2>2, <2>4, <2>6, <3>1
  <2>7. CASE ~(j = k /\ jj = k)
    BY <1>7, <2>2, <2>4, <2>5, <2>7
  <2> QED
    BY <2>6, <2>7
<1>8. f \in Injection(S, T)
  <2>1. f \in [S -> T]
    BY <1>6
  <2> HIDE DEF S, T, f
  <2> QED
    BY <1>7, <2>1 DEF Injection, IsInjective
<1>9. /\ IsFiniteSet(T) /\ Cardinality(T) = IF <<k, 1>> \in Claims(s, m) THEN Cardinality(Claims(s, m)) - 1
                                                                      ELSE Cardinality(Claims(s, m))
      /\ Cardinality(Claims(s, m)) \in Nat
  BY FS_RemoveElement, FS_CardinalityType
<1>10. CanDeliver(Head(biz[k]), s, m) => <<k, 1>> \in Claims(s, m)
  BY <1>4, ClaimFacts
<1> HIDE DEF S, T, f
<1>11. IsFiniteSet(S) /\ Cardinality(S) <= Cardinality(T)
  BY <1>8, <1>9, FS_Injection
<1>12. Cardinality(S) \in Nat
  BY <1>11, FS_CardinalityType
<1>13. Cardinality(S) <= Cardinality(Claims(s, m))
  BY <1>9, <1>11, <1>12
<1>14. CanDeliver(Head(biz[k]), s, m) => Cardinality(S) + 1 <= Cardinality(Claims(s, m))
  BY <1>9, <1>10, <1>11, <1>12
<1> QED
  BY <1>11, <1>13, <1>14 DEF Fewer, S

\* The running task goes on.
LEMMA ClaimsGoto ==
  ASSUME Typed, NEW k \in Strands, biz[k] # <<>>, NEW x \in Task, Goto(k, x),
         NEW s, NEW m, IsFiniteSet(Claims(s, m)),
         CanDeliver(x, s, m) => CanDeliver(Head(biz[k]), s, m)
  PROVE  /\ IsFiniteSet(Claims(s, m)')
         /\ Cardinality(Claims(s, m)') <= Cardinality(Claims(s, m))
         /\ ~CanDeliver(x, s, m) => Fewer(Head(biz[k]), s, m)
<1>1. biz \in [Strands -> Seq(Task)] /\ biz[k] \in Seq(Task)
  BY DEF Typed
<1> DEFINE q == <<x>> \o Tail(biz[k])
<1>2. biz' = [biz EXCEPT ![k] = q]
  BY DEF Goto
<1>3. q[1] = x /\ DOMAIN q = DOMAIN biz[k] /\ 1 \in DOMAIN q /\ Head(biz[k]) = biz[k][1]
  BY <1>1
<1>4. \A i \in DOMAIN biz[k] : i # 1 => q[i] = biz[k][i]
  BY <1>1
<1> HIDE DEF q
<1>5. biz'[k] = q /\ \A j \in Strands : j # k => biz'[j] = biz[j]
  BY <1>1, <1>2
<1> DEFINE S == Claims(s, m)'
           T == Claims(s, m)
<1>6. ASSUME NEW p \in S
      PROVE  p \in T /\ (p = <<k, 1>> => CanDeliver(x, s, m))
  <2>1. PICK j \in Strands : \E i \in DOMAIN biz'[j] : p = <<j, i>> /\ CanDeliver(biz'[j][i], s, m)
    BY <1>6, ClaimFacts
  <2>2. PICK i \in DOMAIN biz'[j] : p = <<j, i>> /\ CanDeliver(biz'[j][i], s, m)
    BY <2>1
  <2>3. CASE j # k
    <3>1. i \in DOMAIN biz[j] /\ CanDeliver(biz[j][i], s, m) /\ p # <<k, 1>>
      BY <1>5, <2>2, <2>3
    <3> QED
      BY <2>2, <3>1, ClaimFacts
  <2>4. CASE j = k /\ i # 1
    <3>1. i \in DOMAIN biz[k] /\ CanDeliver(biz[k][i], s, m) /\ p # <<k, 1>>
      BY <1>3, <1>4, <1>5, <2>2, <2>4
    <3> QED
      BY <2>2, <2>4, <3>1, ClaimFacts
  <2>5. CASE j = k /\ i = 1
    <3>1. CanDeliver(x, s, m) /\ CanDeliver(biz[k][1], s, m) /\ 1 \in DOMAIN biz[k]
      BY <1>3, <1>5, <2>2, <2>5
    <3> QED
      BY <2>2, <2>5, <3>1, ClaimFacts
  <2> QED
    BY <2>3, <2>4, <2>5
<1>7. CanDeliver(Head(biz[k]), s, m) => <<k, 1>> \in T
  BY <1>3, ClaimFacts
<1> HIDE DEF S
<1>8. S \in SUBSET T /\ (~CanDeliver(x, s, m) => S \in SUBSET (T \ {<<k, 1>>}))
  BY <1>6
<1>9. IsFiniteSet(T) /\ Cardinality(T) \in Nat
  BY FS_CardinalityType
<1> HIDE DEF T
<1>10. IsFiniteSet(S) /\ Cardinality(S) <= Cardinality(T)
  BY <1>8, <1>9, FS_Subset
<1>11. Cardinality(S) \in Nat
  BY <1>10, FS_CardinalityType
<1>12. ASSUME ~CanDeliver(x, s, m), CanDeliver(Head(biz[k]), s, m)
       PROVE  Cardinality(S) + 1 <= Cardinality(T)
  <2>1. IsFiniteSet(T \ {<<k, 1>>}) /\ Cardinality(T \ {<<k, 1>>}) = Cardinality(T) - 1
    BY <1>7, <1>9, <1>12, FS_RemoveElement
  <2>2. Cardinality(S) <= Cardinality(T \ {<<k, 1>>})
    BY <1>8, <1>12, <2>1, FS_Subset
  <2> QED
    BY <1>9, <1>11, <2>1, <2>2
<1> QED
  BY <1>10, <1>12 DEF Fewer, S, T

\* A task is posted.
LEMMA ClaimsPost ==
  ASSUME Typed, NEW k \in Strands, NEW x \in Task, biz' = [biz EXCEPT ![k] = Append(@, x)],
         NEW s, NEW m, IsFiniteSet(Claims(s, m))
  PROVE  /\ IsFiniteSet(Claims(s, m)')
         /\ Cardinality(Claims(s, m)') <= Cardinality(Claims(s, m)) + 1
         /\ ~CanDeliver(x, s, m) => Cardinality(Claims(s, m)') <= Cardinality(Claims(s, m))
<1>1. biz \in [Strands -> Seq(Task)] /\ biz[k] \in Seq(Task)
  BY DEF Typed
<1> DEFINE q == Append(biz[k], x)
           n == Len(biz[k]) + 1
<1>2. biz' = [biz EXCEPT ![k] = q]
  OBVIOUS
<1>3. /\ q[n] = x
      /\ \A i \in DOMAIN q : i = n \/ (i \in DOMAIN biz[k] /\ q[i] = biz[k][i])
  BY <1>1
<1> HIDE DEF q
<1>4. biz'[k] = q /\ \A j \in Strands : j # k => biz'[j] = biz[j]
  BY <1>1, <1>2
<1> DEFINE S == Claims(s, m)'
           T == Claims(s, m)
<1>5. ASSUME NEW p \in S
      PROVE  p \in T \/ (p = <<k, n>> /\ CanDeliver(x, s, m))
  <2>1. PICK j \in Strands : \E i \in DOMAIN biz'[j] : p = <<j, i>> /\ CanDeliver(biz'[j][i], s, m)
    BY <1>5, ClaimFacts
  <2>2. PICK i \in DOMAIN biz'[j] : p = <<j, i>> /\ CanDeliver(biz'[j][i], s, m)
    BY <2>1
  <2>3. CASE j # k
    BY <1>4, <2>2, <2>3, ClaimFacts
  <2>4. CASE j = k /\ i # n
    <3>1. i \in DOMAIN biz[k] /\ CanDeliver(biz[k][i], s, m)
      BY <1>3, <1>4, <2>2, <2>4
    <3> QED
      BY <2>2, <2>4, <3>1, ClaimFacts
  <2>5. CASE j = k /\ i = n
    BY <1>3, <1>4, <2>2, <2>5
  <2> QED
    BY <2>3, <2>4, <2>5
<1> HIDE DEF S, n
<1>6. S \in SUBSET (T \cup {<<k, n>>}) /\ (~CanDeliver(x, s, m) => S \in SUBSET T)
  BY <1>5
<1>7. IsFiniteSet(T) /\ Cardinality(T) \in Nat
  BY FS_CardinalityType
<1> HIDE DEF T
<1>8. IsFiniteSet(T \cup {<<k, n>>}) /\ Cardinality(T \cup {<<k, n>>}) <= Cardinality(T) + 1
  <2>1. IsFiniteSet(T \cup {<<k, n>>})
        /\ Cardinality(T \cup {<<k, n>>}) = IF <<k, n>> \in T THEN Cardinality(T) ELSE Cardinality(T) + 1
    BY <1>7, FS_AddElement
  <2> QED
    BY <1>7, <2>1
<1>9. IsFiniteSet(S) /\ Cardinality(S) <= Cardinality(T \cup {<<k, n>>})
  BY <1>6, <1>8, FS_Subset
<1>10. Cardinality(S) \in Nat /\ Cardinality(T \cup {<<k, n>>}) \in Nat
  BY <1>8, <1>9, FS_CardinalityType
<1>11. Cardinality(S) <= Cardinality(T) + 1
  BY <1>7, <1>8, <1>9, <1>10
<1>12. ~CanDeliver(x, s, m) => Cardinality(S) <= Cardinality(T)
  BY <1>6, <1>7, FS_Subset
<1> QED
  BY <1>9, <1>11, <1>12 DEF S, T

\* Got, posted and to be pushed: no more than before.
LEMMA WithinKept ==
  ASSUME Typed, Typed', NEW s \in Sessions, NEW m \in Msgs, Within(s, m),
         IsFiniteSet(Claims(s, m)'), Cardinality(Claims(s, m)') <= Cardinality(Claims(s, m)),
         log'[s].got[m] = log[s].got[m], sends'[m] = sends[m],
         MayPush(s, m)' => MayPush(s, m)
  PROVE  Within(s, m)'
<1>1. Cardinality(Claims(s, m)) \in Nat /\ Cardinality(Claims(s, m)') \in Nat
  BY FS_CardinalityType DEF Within
<1>2. log[s].got[m] \in Nat /\ sends[m] \in Nat
  <2>1. log[s] \in [told : [Users -> News], got : [Msgs -> Nat], notes : SUBSET Frame]
    BY DEF Typed, Log
  <2> QED
    BY <2>1, RoutingAssumption DEF Typed
<1>3. /\ log[s].got[m] + Cardinality(Claims(s, m)) <= sends[m]
      /\ MayPush(s, m) => log[s].got[m] + Cardinality(Claims(s, m)) + 1 <= sends[m]
  BY DEF Within
<1>4. /\ log'[s].got[m] + Cardinality(Claims(s, m)') <= sends'[m]
      /\ MayPush(s, m)' => log'[s].got[m] + Cardinality(Claims(s, m)') + 1 <= sends'[m]
  BY <1>1, <1>2, <1>3
<1> QED
  BY <1>4 DEF Within

\* Only the running login is past "bind": the running task is through, ...
LEMMA HeadDone ==
  ASSUME Typed, HeadOnly, NEW k \in Strands, biz[k] # <<>>, Done(k)
  PROVE  HeadOnly'
<1>1. biz \in [Strands -> Seq(Task)] /\ biz[k] \in Seq(Task)
  BY DEF Typed
<1>2. biz' = [biz EXCEPT ![k] = Tail(biz[k])]
  BY DEF Done
<1>3. biz'[k] = Tail(biz[k]) /\ \A j \in Strands : j # k => biz'[j] = biz[j]
  BY <1>1, <1>2
<1>4. \A i \in DOMAIN biz'[k] : i \in Nat \ {0} /\ i + 1 \in DOMAIN biz[k] /\ biz'[k][i] = biz[k][i + 1]
  BY <1>1, <1>3
<1>5. ASSUME NEW i \in DOMAIN biz'[k], biz'[k][i].kind = "login"
      PROVE  k = BizOf[biz'[k][i].s] /\ biz'[k][i].pc = "bind"
  <2>1. i + 1 \in DOMAIN biz[k] /\ biz'[k][i] = biz[k][i + 1] /\ i + 1 > 1
    BY <1>4
  <2> QED
    BY <1>5, <2>1 DEF HeadOnly
<1>6. ASSUME NEW j \in Strands, NEW i \in DOMAIN biz'[j], biz'[j][i].kind = "login"
      PROVE  j = BizOf[biz'[j][i].s] /\ (i > 1 => biz'[j][i].pc = "bind")
  <2>1. CASE j = k
    BY <1>5, <1>6, <2>1
  <2>2. CASE j # k
    BY <1>3, <1>6, <2>2 DEF HeadOnly
  <2> QED
    BY <2>1, <2>2
<1> QED
  BY <1>6 DEF HeadOnly

\* ... the running task goes on, ...
LEMMA HeadGoto ==
  ASSUME Typed, HeadOnly, NEW k \in Strands, biz[k] # <<>>, NEW x \in Task, Goto(k, x),
         x.kind = Head(biz[k]).kind, x.s = Head(biz[k]).s
  PROVE  HeadOnly' /\ biz'[k][1] = x
<1>1. biz \in [Strands -> Seq(Task)] /\ biz[k] \in Seq(Task)
  BY DEF Typed
<1> DEFINE q == <<x>> \o Tail(biz[k])
<1>2. biz' = [biz EXCEPT ![k] = q]
  BY DEF Goto
<1>3. q[1] = x /\ DOMAIN q = DOMAIN biz[k] /\ 1 \in DOMAIN biz[k] /\ Head(biz[k]) = biz[k][1]
  BY <1>1
<1>4. \A i \in DOMAIN biz[k] : i # 1 => q[i] = biz[k][i]
  BY <1>1
<1> HIDE DEF q
<1>5. biz'[k] = q /\ \A j \in Strands : j # k => biz'[j] = biz[j]
  BY <1>1, <1>2
<1>6. ASSUME NEW j \in Strands, NEW i \in DOMAIN biz'[j], biz'[j][i].kind = "login"
      PROVE  j = BizOf[biz'[j][i].s] /\ (i > 1 => biz'[j][i].pc = "bind")
  <2>1. CASE j # k
    BY <1>5, <1>6, <2>1 DEF HeadOnly
  <2>2. CASE j = k /\ i = 1
    <3>1. biz'[j][i] = x /\ biz[k][1].kind = "login" /\ biz[k][1].s = x.s
      BY <1>3, <1>5, <1>6, <2>2
    <3>2. k = BizOf[x.s]
      BY <1>3, <3>1 DEF HeadOnly
    <3> QED
      BY <2>2, <3>1, <3>2
  <2>3. CASE j = k /\ i # 1
    <3>1. i \in DOMAIN biz[k] /\ biz'[j][i] = biz[k][i]
      BY <1>3, <1>4, <1>5, <2>3
    <3> QED
      BY <1>6, <2>3, <3>1 DEF HeadOnly
  <2> QED
    BY <2>1, <2>2, <2>3
<1> QED
  BY <1>3, <1>5, <1>6 DEF HeadOnly

\* ... or a task is posted.
LEMMA HeadPost ==
  ASSUME Typed, HeadOnly, NEW k \in Strands, NEW x \in Task, biz' = [biz EXCEPT ![k] = Append(@, x)],
         x.kind = "login" => k = BizOf[x.s] /\ x.pc = "bind"
  PROVE  HeadOnly'
<1>1. biz \in [Strands -> Seq(Task)] /\ biz[k] \in Seq(Task)
  BY DEF Typed
<1> DEFINE q == Append(biz[k], x)
<1>2. biz' = [biz EXCEPT ![k] = q]
  OBVIOUS
<1>3. \A i \in DOMAIN q : q[i] = x \/ (i \in DOMAIN biz[k] /\ q[i] = biz[k][i])
  BY <1>1
<1> HIDE DEF q
<1>4. biz'[k] = q /\ \A j \in Strands : j # k => biz'[j] = biz[j]
  BY <1>1, <1>2
<1>5. ASSUME NEW j \in Strands, NEW i \in DOMAIN biz'[j], biz'[j][i].kind = "login"
      PROVE  j = BizOf[biz'[j][i].s] /\ (i > 1 => biz'[j][i].pc = "bind")
  <2>1. CASE j # k
    BY <1>4, <1>5, <2>1 DEF HeadOnly
  <2>2. CASE j = k /\ biz'[j][i] = x
    BY <1>5, <2>2
  <2>3. CASE j = k /\ biz'[j][i] # x
    <3>1. i \in DOMAIN biz[k] /\ biz'[j][i] = biz[k][i]
      BY <1>3, <1>4, <2>3
    <3> QED
      BY <1>5, <2>3, <3>1 DEF HeadOnly
  <2> QED
    BY <2>1, <2>2, <2>3
<1> QED
  BY <1>5 DEF HeadOnly

\* A row that may be pushed after a step could be pushed before: rows are only marked,
\* and a moving login takes on no more than it had.
LEMMA MayPushKept ==
  ASSUME NEW h, NEW X, Turn(h, X), DOMAIN rows' = DOMAIN rows,
         \A i \in DOMAIN rows : rows'[i].m = rows[i].m /\ (rows[i].delivered => rows'[i].delivered),
         NEW s \in Sessions, NEW m, userId'[s] = None => userId[s] = None,
         \A x \in X : Pulls(x, s) => WillPull(s),
         \A x \in X, i \in DOMAIN rows : HasLeft(x, s, i) => MayPush(s, rows[i].m)
  PROVE  MayPush(s, m)' => MayPush(s, m)
<1> SUFFICES ASSUME MayPush(s, m)' PROVE MayPush(s, m)
  OBVIOUS
<1>1. PICK i \in DOMAIN rows :
        /\ rows'[i].m = m
        /\ (~rows'[i].delivered /\ WillPull(s)') \/ \E t \in Tasks' : HasLeft(t, s, i)
  BY DEF MayPush
<1>2. rows[i].m = m
  BY <1>1
<1>3. CASE ~rows'[i].delivered /\ WillPull(s)'
  <2>1. ~rows[i].delivered
    BY <1>3
  <2>2. WillPull(s)
    <3>1. CASE userId'[s] = None
      BY <3>1 DEF WillPull
    <3>2. CASE userId'[s] # None
      <4>1. PICK t \in Tasks' : Pulls(t, s)
        BY <1>3, <3>2 DEF WillPull
      <4>2. t \in Tasks \/ t \in X
        BY <4>1 DEF Turn
      <4> QED
        BY <4>1, <4>2 DEF WillPull
    <3> QED
      BY <3>1, <3>2
  <2> QED
    BY <1>2, <2>1, <2>2 DEF MayPush
<1>4. CASE \E t \in Tasks' : HasLeft(t, s, i)
  <2>1. PICK t \in Tasks' : HasLeft(t, s, i)
    BY <1>4
  <2>2. CASE t \in Tasks
    BY <1>2, <2>1, <2>2 DEF MayPush
  <2>3. CASE t \in X
    BY <1>2, <2>1, <2>3
  <2> QED
    BY <2>1, <2>2, <2>3 DEF Turn
<1> QED
  BY <1>1, <1>3, <1>4

\* What the clients got is as before.
GotSame == \A s \in Sessions, m \in Msgs : log'[s].got[m] = log[s].got[m]

\* deliver() of anything but a message.
LEMMA GotKept ==
  ASSUME NEW l \in Log, NEW s, NEW f, f.type # "CHAT"
  PROVE  \A r \in Sessions, m \in Msgs : Deliver(l, s, f)[r].got[m] = l[r].got[m]
<1>1. CASE s \in Sessions /\ s # None /\ conn[s] = "open"
  <2>1. Deliver(l, s, f) = [l EXCEPT ![s] = Take(l[s], f)]
    BY <1>1 DEF Deliver
  <2>2. l[s] \in [told : [Users -> News], got : [Msgs -> Nat], notes : SUBSET Frame]
    BY <1>1 DEF Log
  <2>3. Take(l[s], f).got = l[s].got
    <3>1. CASE f.u # None
      <4>1. Take(l[s], f) = [l[s] EXCEPT !.told = [l[s].told EXCEPT ![f.u] = f.type]]
        BY <3>1 DEF Take
      <4> QED
        BY <2>2, <4>1
    <3>2. CASE f.u = None
      <4>1. Take(l[s], f) = [l[s] EXCEPT !.notes = l[s].notes \cup {f}]
        BY <3>2 DEF Take
      <4> QED
        BY <2>2, <4>1
    <3> QED
      BY <3>1, <3>2
  <2> DEFINE n == Take(l[s], f)
  <2> HIDE DEF n
  <2>4. Deliver(l, s, f) = [l EXCEPT ![s] = n] /\ n.got = l[s].got
    BY <2>1, <2>3 DEF n
  <2> QED
    BY <1>1, <2>4 DEF Log
<1>2. CASE ~(s # None /\ conn[s] = "open")
  BY <1>2 DEF Deliver
<1>3. CASE s \notin Sessions /\ s # None /\ conn[s] = "open"
  <2>1. Deliver(l, s, f) = [l EXCEPT ![s] = Take(l[s], f)]
    BY <1>3 DEF Deliver
  <2>2. \A r \in Sessions : Deliver(l, s, f)[r] = l[r]
    BY <1>3, <2>1 DEF Log
  <2> QED
    BY <2>2
<1> QED
  BY <1>1, <1>2, <1>3

\* The running task is through and at most marks rows.
LEMMA CountedDone ==
  ASSUME IInv, IInv', Counted, NEW k \in Strands, biz[k] # <<>>, Done(k), UNCHANGED <<userId, sends>>,
         GotSame, DOMAIN rows' = DOMAIN rows,
         \A i \in DOMAIN rows : rows'[i].m = rows[i].m /\ (rows[i].delivered => rows'[i].delivered)
  PROVE  Counted'
<1>1. Typed /\ Typed' /\ OneRow /\ HeadOnly /\ Budget
  BY DEF IInv, Counted
<1>2. Turn(Head(biz[k]), {})
  BY <1>1, DoneFacts
<1>3. OneRow'
  BY <1>1 DEF OneRow
<1>4. HeadOnly'
  BY <1>1, HeadDone
<1>5. ASSUME NEW s \in Sessions, NEW m \in Msgs
      PROVE  Within(s, m)'
  <2>1. Within(s, m)
    BY <1>1 DEF Budget
  <2>2. IsFiniteSet(Claims(s, m)') /\ Cardinality(Claims(s, m)') <= Cardinality(Claims(s, m))
    BY <1>1, <2>1, ClaimsDone DEF Within, Fewer
  <2>3. MayPush(s, m)' => MayPush(s, m)
    BY <1>2, MayPushKept
  <2>4. log'[s].got[m] = log[s].got[m] /\ sends'[m] = sends[m]
    BY DEF GotSame
  <2> QED
    BY <1>1, <2>1, <2>2, <2>3, <2>4, WithinKept
<1> QED
  BY <1>3, <1>4, <1>5 DEF Counted, Budget

\* The running task goes on and takes on nothing new.
LEMMA CountedGoto ==
  ASSUME IInv, IInv', Counted, NEW k \in Strands, biz[k] # <<>>, NEW x \in Task, Goto(k, x),
         x.kind = Head(biz[k]).kind, x.s = Head(biz[k]).s, UNCHANGED <<rows, sends>>, GotSame,
         \A s \in Sessions : userId'[s] = None => userId[s] = None,
         \A s \in Sessions, m \in Msgs : CanDeliver(x, s, m) => CanDeliver(Head(biz[k]), s, m),
         \A s \in Sessions : Pulls(x, s) => WillPull(s),
         \A s \in Sessions, i \in DOMAIN rows : HasLeft(x, s, i) => MayPush(s, rows[i].m)
  PROVE  Counted'
<1>1. Typed /\ Typed' /\ OneRow /\ HeadOnly /\ Budget
  BY DEF IInv, Counted
<1>2. Turn(Head(biz[k]), {x})
  BY <1>1, GotoFacts
<1>3. OneRow'
  BY <1>1 DEF OneRow
<1>4. HeadOnly'
  BY <1>1, HeadGoto
<1>5. ASSUME NEW s \in Sessions, NEW m \in Msgs
      PROVE  Within(s, m)'
  <2>1. Within(s, m)
    BY <1>1 DEF Budget
  <2>2. IsFiniteSet(Claims(s, m)') /\ Cardinality(Claims(s, m)') <= Cardinality(Claims(s, m))
    BY <1>1, <2>1, ClaimsGoto DEF Within
  <2>3. MayPush(s, m)' => MayPush(s, m)
    BY <1>2, MayPushKept
  <2>4. log'[s].got[m] = log[s].got[m] /\ sends'[m] = sends[m]
    BY DEF GotSame
  <2> QED
    BY <1>1, <2>1, <2>2, <2>3, <2>4, WithinKept
<1> QED
  BY <1>3, <1>4, <1>5 DEF Counted, Budget

\* A task that is no onChat is posted.
LEMMA CountedPost ==
  ASSUME IInv, IInv', Counted, NEW k \in Strands, NEW x \in Task, biz' = [biz EXCEPT ![k] = Append(@, x)],
         x.kind = "login" => k = BizOf[x.s] /\ x.pc = "bind", x.kind # "chat",
         UNCHANGED <<userId, rows, sends>>, GotSame
  PROVE  Counted'
<1>1. Typed /\ Typed' /\ OneRow /\ HeadOnly /\ Budget
  BY DEF IInv, Counted
<1>2. Turn(x, {x})
  BY <1>1, PostFacts
<1>3. OneRow'
  BY <1>1 DEF OneRow
<1>4. HeadOnly'
  BY <1>1, HeadPost
<1>5. ASSUME NEW s \in Sessions, NEW m \in Msgs
      PROVE  Within(s, m)'
  <2>1. Within(s, m)
    BY <1>1 DEF Budget
  <2>2. ~CanDeliver(x, s, m) /\ ~Pulls(x, s) /\ \A i : ~HasLeft(x, s, i)
    BY DEF CanDeliver, Pulls, HasLeft, LoginTask
  <2>3. IsFiniteSet(Claims(s, m)') /\ Cardinality(Claims(s, m)') <= Cardinality(Claims(s, m))
    BY <1>1, <2>1, <2>2, ClaimsPost DEF Within
  <2>4. MayPush(s, m)' => MayPush(s, m)
    BY <1>2, <2>2, MayPushKept
  <2>5. log'[s].got[m] = log[s].got[m] /\ sends'[m] = sends[m]
    BY DEF GotSame
  <2> QED
    BY <1>1, <2>1, <2>3, <2>4, <2>5, WithinKept
<1> QED
  BY <1>3, <1>4, <1>5 DEF Counted, Budget

\* Nothing is posted and nothing is taken up.
LEMMA CountedSame ==
  ASSUME IInv, IInv', Counted, UNCHANGED <<userId, biz, rows, sends>>, GotSame
  PROVE  Counted'
<1>1. Typed /\ Typed' /\ OneRow /\ HeadOnly /\ Budget
  BY DEF IInv, Counted
<1>2. Tasks' = Tasks
  BY DEF Tasks
<1>3. OneRow' /\ HeadOnly'
  BY <1>1 DEF OneRow, HeadOnly
<1>4. ASSUME NEW s \in Sessions, NEW m \in Msgs
      PROVE  Within(s, m)'
  <2>1. Within(s, m)
    BY <1>1 DEF Budget
  <2>2. Claims(s, m)' = Claims(s, m)
    BY DEF Claims, Places
  <2>3. MayPush(s, m)' => MayPush(s, m)
    BY <1>2 DEF MayPush, WillPull
  <2>4. log'[s].got[m] = log[s].got[m] /\ sends'[m] = sends[m]
    BY DEF GotSame
  <2>5. IsFiniteSet(Claims(s, m)') /\ Cardinality(Claims(s, m)') <= Cardinality(Claims(s, m))
    <3>1. IsFiniteSet(Claims(s, m)) /\ Cardinality(Claims(s, m)) \in Nat
      BY <2>1, FS_CardinalityType DEF Within
    <3> QED
      BY <2>2, <3>1
  <2> QED
    BY <1>1, <2>1, <2>3, <2>4, <2>5, WithinKept
<1> QED
  BY <1>3, <1>4 DEF Counted, Budget

\* Connections and requests.
LEMMA CountedClients ==
  ASSUME IInv, IInv', Counted, NEW r \in Sessions,
         Connect(r) \/ Close(r) \/ SendLogin(r) \/ SendOffline(r)
  PROVE  Counted'
<1>1. Typed /\ BizOf[r] \in Strands
  BY ConstantFacts DEF IInv
<1>2. CASE Connect(r)
  <2>1. UNCHANGED <<userId, biz, rows, sends, log>>
    BY <1>2 DEF Connect, counters
  <2>2. GotSame
    BY <2>1 DEF GotSame
  <2> QED
    BY <2>1, <2>2, CountedSame
<1>3. CASE Close(r)
  <2>1. UNCHANGED <<userId, rows, sends>> /\ log' = [log EXCEPT ![r].told = NoNews]
    BY <1>3 DEF Close, counters
  <2>2. GotSame
    <3>1. log \in Log
      BY <1>1 DEF Typed
    <3> DEFINE n == [log[r] EXCEPT !.told = NoNews]
    <3>2. log' = [log EXCEPT ![r] = n]
      BY <2>1
    <3>3. n.got = log[r].got
      BY <3>1 DEF Log
    <3> HIDE DEF n
    <3> QED
      BY <3>1, <3>2, <3>3 DEF Log, GotSame
  <2>3. CASE userId[r] = None
    <3>1. UNCHANGED biz
      BY <1>3, <2>3 DEF Close
    <3> QED
      BY <2>1, <2>2, <3>1, CountedSame
  <2>4. CASE userId[r] # None
    <3>1. userId[r] \in Users /\ UserStrand[userId[r]] \in Strands
      BY <1>1, <2>4, ConstantFacts DEF Typed
    <3> DEFINE b == NewTask("bcast", "friends", None, userId[r], None)
               z == [b EXCEPT !.todo = Friends(userId[r])]
    <3>2. biz' = [biz EXCEPT ![UserStrand[userId[r]]] = Append(@, z)]
      BY <1>3, <2>4 DEF Close
    <3>3. b \in Task /\ b.kind = "bcast"
      BY <3>1 DEF NewTask, Task, Kind, Pc
    <3> HIDE DEF b
    <3>4. z \in Task /\ z.kind = "bcast"
      BY <3>3 DEF Task, Friends
    <3> HIDE DEF z
    <3>5. PICK x \in Task : x = z /\ x.kind # "login" /\ x.kind # "chat"
      BY <3>4
    <3>6. PICK j \in Strands : biz' = [biz EXCEPT ![j] = Append(@, x)]
      BY <3>1, <3>2, <3>5
    <3> QED
      BY <2>1, <2>2, <3>5, <3>6, CountedPost
  <2> QED
    BY <2>3, <2>4
<1>4. CASE SendLogin(r)
  <2> DEFINE z == NewTask("login", "bind", r, Client[r], None)
  <2>1. UNCHANGED <<userId, rows, log, sends>> /\ biz' = [biz EXCEPT ![BizOf[r]] = Append(@, z)]
    BY <1>4 DEF SendLogin, Ask, Post
  <2>2. GotSame
    BY <2>1 DEF GotSame
  <2>3. z \in Task /\ z.kind = "login" /\ z.pc = "bind" /\ z.s = r
    <3>1. Client[r] \in Users
      BY ConstantFacts
    <3> QED
      BY <3>1 DEF NewTask, Task, Kind, Pc
  <2> HIDE DEF z
  <2>4. PICK x \in Task : x = z
    BY <2>3
  <2>5. BizOf[r] = BizOf[x.s] /\ x.pc = "bind" /\ x.kind # "chat" /\ biz' = [biz EXCEPT ![BizOf[r]] = Append(@, x)]
    BY <2>1, <2>3, <2>4
  <2> QED
    BY <1>1, <2>1, <2>2, <2>5, CountedPost
<1>5. CASE SendOffline(r)
  <2> DEFINE z == NewTask("offline", "offline", r, None, None)
  <2>1. UNCHANGED <<userId, rows, log, sends>> /\ biz' = [biz EXCEPT ![BizOf[r]] = Append(@, z)]
    BY <1>5 DEF SendOffline, Ask, Post
  <2>2. GotSame
    BY <2>1 DEF GotSame
  <2>3. z \in Task /\ z.kind = "offline"
    BY DEF NewTask, Task, Kind, Pc
  <2> HIDE DEF z
  <2>4. PICK x \in Task : x = z
    BY <2>3
  <2>5. x.kind # "login" /\ x.kind # "chat" /\ biz' = [biz EXCEPT ![BizOf[r]] = Append(@, x)]
    BY <2>1, <2>3, <2>4
  <2> QED
    BY <1>1, <2>1, <2>2, <2>5, CountedPost
<1> QED
  BY <1>2, <1>3, <1>4, <1>5

\* A message is sent once more, and there is one more onChat.
LEMMA CountedSend ==
  ASSUME IInv, IInv', Counted, NEW r \in Sessions, NEW n \in Msgs, SendChat(r, n)
  PROVE  Counted'
<1>1. Typed /\ Typed' /\ OneRow /\ HeadOnly /\ Budget /\ BizOf[r] \in Strands
  BY ConstantFacts DEF IInv, Counted
<1> DEFINE z == NewTask("chat", "get", r, None, n)
<1>2. /\ UNCHANGED <<userId, rows, log>> /\ biz' = [biz EXCEPT ![BizOf[r]] = Append(@, z)]
      /\ sends' = [sends EXCEPT ![n] = sends[n] + 1]
  BY DEF SendChat, Post
<1>3. z \in Task /\ z.kind = "chat" /\ z.m = n
  BY DEF NewTask, Task, Kind, Pc
<1> HIDE DEF z
<1>4. PICK x \in Task : x = z
  BY <1>3
<1>5. biz' = [biz EXCEPT ![BizOf[r]] = Append(@, x)] /\ x.kind = "chat" /\ x.kind # "login" /\ x.m = n
  BY <1>2, <1>3, <1>4
<1>6. Turn(x, {x})
  BY <1>1, <1>5, PostFacts
<1>7. OneRow'
  BY <1>1, <1>2 DEF OneRow
<1>8. HeadOnly'
  BY <1>1, <1>5, HeadPost
<1>9. ASSUME NEW s \in Sessions, NEW m \in Msgs
      PROVE  Within(s, m)'
  <2>1. Within(s, m)
    BY <1>1 DEF Budget
  <2>2. MayPush(s, m)' => MayPush(s, m)
    <3>1. ~Pulls(x, s) /\ \A i : ~HasLeft(x, s, i)
      BY <1>5 DEF Pulls, HasLeft, LoginTask
    <3> QED
      BY <1>2, <1>6, <3>1, MayPushKept
  <2>3. /\ IsFiniteSet(Claims(s, m)')
        /\ Cardinality(Claims(s, m)') <= Cardinality(Claims(s, m)) + 1
        /\ ~CanDeliver(x, s, m) => Cardinality(Claims(s, m)') <= Cardinality(Claims(s, m))
    BY <1>1, <1>5, <2>1, ClaimsPost DEF Within
  <2>4. CASE m # n
    <3>1. ~CanDeliver(x, s, m)
      BY <1>5, <2>4 DEF CanDeliver
    <3>2. sends'[m] = sends[m] /\ log'[s].got[m] = log[s].got[m]
      BY <1>1, <1>2, <2>4 DEF Typed
    <3> QED
      BY <1>1, <2>1, <2>2, <2>3, <3>1, <3>2, WithinKept
  <2>5. CASE m = n
    <3>1. /\ log'[s].got[m] = log[s].got[m] /\ log[s].got[m] \in Nat
          /\ sends'[m] = sends[m] + 1 /\ sends[m] \in Nat
      <4>1. log[s] \in [told : [Users -> News], got : [Msgs -> Nat], notes : SUBSET Frame]
        BY <1>1 DEF Typed, Log
      <4>2. sends \in [Msgs -> 0..MaxSend] /\ MaxSend \in Nat
        BY <1>1, RoutingAssumption DEF Typed
      <4>3. sends[m] \in Nat /\ sends'[m] = sends[m] + 1
        BY <1>2, <2>5, <4>2
      <4>4. log' = log /\ log[s].got[m] \in Nat
        BY <1>2, <4>1
      <4> QED
        BY <4>3, <4>4
    <3>2. Cardinality(Claims(s, m)) \in Nat /\ Cardinality(Claims(s, m)') \in Nat
      BY <2>1, <2>3, FS_CardinalityType DEF Within
    <3>3. /\ log[s].got[m] + Cardinality(Claims(s, m)) <= sends[m]
          /\ MayPush(s, m) => log[s].got[m] + Cardinality(Claims(s, m)) + 1 <= sends[m]
      BY <2>1 DEF Within
    <3>4. /\ log'[s].got[m] + Cardinality(Claims(s, m)') <= sends'[m]
          /\ MayPush(s, m)' => log'[s].got[m] + Cardinality(Claims(s, m)') + 1 <= sends'[m]
      BY <2>2, <2>3, <3>1, <3>2, <3>3
    <3> QED
      BY <2>3, <3>4 DEF Within
  <2> QED
    BY <2>4, <2>5
<1> QED
  BY <1>7, <1>8, <1>9 DEF Counted, Budget

\* The server dies.
LEMMA CountedCrash ==
  ASSUME IInv, IInv', Counted, Crash
  PROVE  Counted'
<1>1. Typed /\ Typed' /\ OneRow /\ HeadOnly /\ Budget
  BY DEF IInv, Counted
<1>2. /\ biz' = [k \in Strands |-> <<>>]
      /\ log' = [s \in Sessions |-> [log[s] EXCEPT !.told = NoNews]]
      /\ UNCHANGED <<userId, rows, sends>>
  BY DEF Crash
<1>3. \A k \in Strands : DOMAIN biz'[k] = {}
  BY <1>2
<1>4. Tasks' = {}
  BY <1>3 DEF Tasks
<1>5. OneRow' /\ HeadOnly'
  BY <1>1, <1>2, <1>3 DEF OneRow, HeadOnly
<1>6. ASSUME NEW s \in Sessions, NEW m \in Msgs
      PROVE  Within(s, m)'
  <2>1. Within(s, m)
    BY <1>1 DEF Budget
  <2>2. Claims(s, m)' = {}
    BY <1>3, ClaimFacts
  <2>3. IsFiniteSet(Claims(s, m)') /\ Cardinality(Claims(s, m)') <= Cardinality(Claims(s, m))
    <3>1. Cardinality(Claims(s, m)) \in Nat
      BY <2>1, FS_CardinalityType DEF Within
    <3>2. IsFiniteSet(Claims(s, m)') /\ Cardinality(Claims(s, m)') = 0
      BY <2>2, FS_EmptySet
    <3> QED
      BY <3>1, <3>2
  <2>4. MayPush(s, m)' => MayPush(s, m)
    BY <1>2, <1>4 DEF MayPush, WillPull
  <2>5. log'[s].got[m] = log[s].got[m] /\ sends'[m] = sends[m]
    <3>1. log \in Log
      BY <1>1 DEF Typed
    <3> QED
      BY <1>2, <3>1 DEF Log
  <2> QED
    BY <1>1, <2>1, <2>3, <2>4, <2>5, WithinKept
<1> QED
  BY <1>5, <1>6 DEF Counted, Budget

\* A frame that is no message.
LEMMA GotOther ==
  ASSUME Typed, NEW s, NEW f, f.type # "CHAT", log' = Deliver(log, s, f)
  PROVE  GotSame
<1>1. log \in Log
  BY DEF Typed
<1> QED
  BY <1>1, GotKept DEF GotSame

\* A login goes on towards its pullUndelivered.
LEMMA CountedLogin ==
  ASSUME IInv, IInv', Counted, NEW k \in Strands, biz[k] # <<>>, NEW h \in Tasks, h = Head(biz[k]),
         h.kind = "login", h.pc \in {"replace", "friend", "tell"},
         NEW x \in Task, Goto(k, x), x.kind = "login", x.s = h.s, x.pc \in {"friend", "tell", "pull"},
         UNCHANGED <<userId, rows, sends>>, GotSame
  PROVE  Counted'
<1>1. \A s \in Sessions : Pulls(x, s) => WillPull(s)
  BY DEF Pulls, LoginTask, WillPull
<1>2. \A s \in Sessions, m \in Msgs : ~CanDeliver(x, s, m)
  BY DEF CanDeliver
<1>3. \A s \in Sessions, i \in DOMAIN rows : ~HasLeft(x, s, i)
  BY DEF HasLeft
<1>4. x.kind = Head(biz[k]).kind /\ x.s = Head(biz[k]).s /\ UNCHANGED <<rows, sends>>
      /\ \A s \in Sessions : userId'[s] = None => userId[s] = None
  OBVIOUS
<1> QED
  BY <1>1, <1>2, <1>3, <1>4, CountedGoto

\* bindAuth: the login of a session without a user will pull.
LEMMA CountedBind ==
  ASSUME IInv, IInv', Counted, NEW k \in Strands, LoginBind(k)
  PROVE  Counted'
<1>1. PICK h \in Tasks : /\ h = Head(biz[k]) /\ biz[k] # <<>> /\ h \in Task /\ TaskHolds(h)
                         /\ h.kind = "login" /\ h.pc = "bind"
  <2>1. Running(k, "login", "bind")
    BY DEF LoginBind
  <2> QED
    BY <2>1, RunningFacts
<1>2. UNCHANGED <<rows, log, sends>> /\ h.s \in Sessions /\ h.u \in Users /\ Typed
  BY <1>1 DEF LoginBind, counters, TaskHolds, IInv
<1>3. GotSame
  BY <1>2 DEF GotSame
<1>4. CASE userId[h.s] # None
  <2>1. Done(k) /\ UNCHANGED userId
    BY <1>1, <1>4 DEF LoginBind
  <2> QED
    BY <1>1, <1>2, <1>3, <2>1, CountedDone
<1>5. CASE userId[h.s] = None
  <2> DEFINE z == [h EXCEPT !.pc = "replace"]
  <2>1. userId' = [userId EXCEPT ![h.s] = h.u] /\ Goto(k, z)
    BY <1>1, <1>5 DEF LoginBind
  <2>2. z \in Task /\ z.kind = "login" /\ z.pc = "replace" /\ z.s = h.s
    BY <1>1 DEF Task, Pc
  <2> HIDE DEF z
  <2>3. PICK x \in Task : x = z
    BY <2>2
  <2>4. x.kind = "login" /\ x.pc = "replace" /\ x.s = h.s /\ Goto(k, x)
    BY <2>1, <2>2, <2>3
  <2>5. \A s \in Sessions : userId'[s] = None => userId[s] = None
    <3>1. userId \in [Sessions -> Users \cup {None}]
      BY <1>2 DEF Typed
    <3> QED
      BY <1>5, <2>1, <3>1
  <2>6. \A s \in Sessions : Pulls(x, s) => WillPull(s)
    BY <1>5, <2>4 DEF Pulls, LoginTask, WillPull
  <2>7. \A s \in Sessions, m \in Msgs : ~CanDeliver(x, s, m)
    BY <2>4 DEF CanDeliver
  <2>8. \A s \in Sessions, i \in DOMAIN rows : ~HasLeft(x, s, i)
    BY <2>4 DEF HasLeft
  <2>9. x.kind = Head(biz[k]).kind /\ x.s = Head(biz[k]).s /\ UNCHANGED <<rows, sends>>
    BY <1>1, <1>2, <2>4
  <2> QED
    BY <1>1, <1>3, <2>4, <2>5, <2>6, <2>7, <2>8, <2>9, CountedGoto
<1> QED
  BY <1>4, <1>5

\* Presence::replace and the kick.
LEMMA CountedReplace ==
  ASSUME IInv, IInv', Counted, NEW k \in Strands, LoginReplace(k)
  PROVE  Counted'
<1>1. PICK h \in Tasks : /\ h = Head(biz[k]) /\ biz[k] # <<>> /\ h \in Task /\ TaskHolds(h)
                         /\ h.kind = "login" /\ h.pc = "replace"
  <2>1. Running(k, "login", "replace")
    BY DEF LoginReplace
  <2> QED
    BY <2>1, RunningFacts
<1> DEFINE z == [h EXCEPT !.pc = "friend", !.todo = Friends(h.u)]
<1>2. UNCHANGED <<userId, rows, sends>> /\ Typed /\ log' = Deliver(log, Get(h.u), Kicked) /\ Goto(k, z)
  BY <1>1 DEF LoginReplace, counters, IInv
<1>3. z \in Task /\ z.kind = "login" /\ z.pc = "friend" /\ z.s = h.s
  BY <1>1 DEF Task, Pc, Friends
<1> HIDE DEF z
<1>4. PICK x \in Task : x = z
  BY <1>3
<1>5. x.kind = "login" /\ x.pc = "friend" /\ x.s = h.s /\ Goto(k, x)
  BY <1>2, <1>3, <1>4
<1>6. GotSame
  <2>1. Kicked.type # "CHAT"
    BY FrameFacts
  <2> QED
    BY <1>2, <2>1, GotOther
<1>7. UNCHANGED <<userId, rows, sends>>
  BY <1>2
<1> QED
  BY <1>1, <1>5, <1>6, <1>7, CountedLogin

\* The status of a friend.
LEMMA CountedFriend ==
  ASSUME IInv, IInv', Counted, NEW k \in Strands, LoginFriend(k)
  PROVE  Counted'
<1>1. PICK h \in Tasks : /\ h = Head(biz[k]) /\ biz[k] # <<>> /\ h \in Task /\ TaskHolds(h)
                         /\ h.kind = "login" /\ h.pc = "friend"
  <2>1. Running(k, "login", "friend")
    BY DEF LoginFriend
  <2> QED
    BY <2>1, RunningFacts
<1>2. UNCHANGED <<userId, rows, sends>> /\ Typed
  BY DEF LoginFriend, counters, IInv
<1>3. CASE h.todo = {} /\ Goto(k, [h EXCEPT !.pc = "pull"]) /\ UNCHANGED log
  <2> DEFINE z == [h EXCEPT !.pc = "pull"]
  <2>1. z \in Task /\ z.kind = "login" /\ z.pc = "pull" /\ z.s = h.s /\ Goto(k, z)
    BY <1>1, <1>3 DEF Task, Pc
  <2> HIDE DEF z
  <2>2. PICK x \in Task : x = z
    BY <2>1
  <2>3. x.kind = "login" /\ x.pc = "pull" /\ x.s = h.s /\ Goto(k, x)
    BY <2>1, <2>2
  <2>4. GotSame
    BY <1>3 DEF GotSame
  <2> QED
    BY <1>1, <1>2, <2>3, <2>4, CountedLogin
<1>4. ASSUME NEW f \in h.todo, log' = Deliver(log, h.s, FriendInfo(f, Get(f) # None)),
             Goto(k, [h EXCEPT !.pc = "tell", !.todo = h.todo \ {f}, !.friend = f])
      PROVE  Counted'
  <2> DEFINE z == [h EXCEPT !.pc = "tell", !.todo = h.todo \ {f}, !.friend = f]
  <2>1. z \in Task /\ z.kind = "login" /\ z.pc = "tell" /\ z.s = h.s /\ Goto(k, z)
    BY <1>1, <1>4 DEF Task, Pc
  <2> HIDE DEF z
  <2>2. PICK x \in Task : x = z
    BY <2>1
  <2>3. x.kind = "login" /\ x.pc = "tell" /\ x.s = h.s /\ Goto(k, x)
    BY <2>1, <2>2
  <2>4. GotSame
    <3>1. FriendInfo(f, Get(f) # None).type # "CHAT"
      BY DEF FriendInfo
    <3> QED
      BY <1>2, <1>4, <3>1, GotOther
  <2> QED
    BY <1>1, <1>2, <2>3, <2>4, CountedLogin
<1>5. \/ h.todo = {} /\ Goto(k, [h EXCEPT !.pc = "pull"]) /\ UNCHANGED log
      \/ \E f \in h.todo : /\ log' = Deliver(log, h.s, FriendInfo(f, Get(f) # None))
                           /\ Goto(k, [h EXCEPT !.pc = "tell", !.todo = h.todo \ {f}, !.friend = f])
  BY <1>1 DEF LoginFriend
<1> QED
  BY <1>3, <1>4, <1>5

\* The new status to the friend.
LEMMA CountedTell ==
  ASSUME IInv, IInv', Counted, NEW k \in Strands, LoginTell(k)
  PROVE  Counted'
<1>1. PICK h \in Tasks : /\ h = Head(biz[k]) /\ biz[k] # <<>> /\ h \in Task /\ TaskHolds(h)
                         /\ h.kind = "login" /\ h.pc = "tell"
  <2>1. Running(k, "login", "tell")
    BY DEF LoginTell
  <2> QED
    BY <2>1, RunningFacts
<1> DEFINE z == [h EXCEPT !.pc = "friend", !.friend = None]
<1>2. /\ UNCHANGED <<userId, rows, sends>> /\ Typed
      /\ log' = Deliver(log, Get(h.friend), FriendInfo(h.u, TRUE)) /\ Goto(k, z)
  BY <1>1 DEF LoginTell, counters, IInv
<1>3. z \in Task /\ z.kind = "login" /\ z.pc = "friend" /\ z.s = h.s
  BY <1>1 DEF Task, Pc
<1> HIDE DEF z
<1>4. PICK x \in Task : x = z
  BY <1>3
<1>5. x.kind = "login" /\ x.pc = "friend" /\ x.s = h.s /\ Goto(k, x)
  BY <1>2, <1>3, <1>4
<1>6. GotSame
  <2>1. FriendInfo(h.u, TRUE).type # "CHAT"
    BY DEF FriendInfo
  <2> QED
    BY <1>2, <2>1, GotOther
<1>7. UNCHANGED <<userId, rows, sends>>
  BY <1>2
<1> QED
  BY <1>1, <1>5, <1>6, <1>7, CountedLogin

\* pullUndelivered: what is read was waiting for the login.
LEMMA CountedPull ==
  ASSUME IInv, IInv', Counted, NEW k \in Strands, LoginPull(k)
  PROVE  Counted'
<1>1. PICK h \in Tasks : /\ h = Head(biz[k]) /\ biz[k] # <<>> /\ h \in Task /\ TaskHolds(h)
                         /\ h.kind = "login" /\ h.pc = "pull"
  <2>1. Running(k, "login", "pull")
    BY DEF LoginPull
  <2> QED
    BY <2>1, RunningFacts
<1>2. UNCHANGED <<userId, rows, log, sends>> /\ Typed
  BY <1>1 DEF LoginPull, counters, IInv
<1>3. GotSame
  BY <1>2 DEF GotSame
<1>4. CASE Undelivered(h.u) = {}
  <2>1. Done(k)
    BY <1>1, <1>4 DEF LoginPull
  <2> QED
    BY <1>1, <1>2, <1>3, <2>1, CountedDone
<1>5. CASE Undelivered(h.u) # {}
  <2>1. PICK d \in SUBSET DOMAIN rows : d = Undelivered(h.u)
    BY DEF Undelivered
  <2> DEFINE z == [h EXCEPT !.pc = "push", !.pulled = d, !.left = d]
  <2>2. Goto(k, z)
    BY <1>1, <1>5, <2>1 DEF LoginPull
  <2>3. z \in Task /\ z.kind = "login" /\ z.pc = "push" /\ z.s = h.s /\ z.left = d
    <3>1. d \in SUBSET Nat
      <4>1. rows \in Seq(Row)
        BY <1>2 DEF Typed
      <4> QED
        BY <2>1, <4>1
    <3> QED
      BY <1>1, <3>1 DEF Task, Pc
  <2> HIDE DEF z
  <2>4. PICK x \in Task : x = z
    BY <2>3
  <2>5. x.kind = "login" /\ x.pc = "push" /\ x.s = h.s /\ x.left = d /\ Goto(k, x)
    BY <2>2, <2>3, <2>4
  <2>6. \A s \in Sessions, m \in Msgs : ~CanDeliver(x, s, m)
    BY <2>5 DEF CanDeliver
  <2>7. \A s \in Sessions : ~Pulls(x, s)
    BY <2>5 DEF Pulls
  <2>8. ASSUME NEW s \in Sessions, NEW i \in DOMAIN rows, HasLeft(x, s, i)
        PROVE  MayPush(s, rows[i].m)
    <3>1. ~rows[i].delivered /\ s = h.s
      BY <2>1, <2>5, <2>8 DEF HasLeft, LoginTask, Undelivered
    <3>2. WillPull(s)
      BY <1>1, <3>1 DEF WillPull, Pulls, LoginTask
    <3> QED
      BY <3>1, <3>2 DEF MayPush
  <2>9. /\ x.kind = Head(biz[k]).kind /\ x.s = Head(biz[k]).s /\ UNCHANGED <<rows, sends>>
        /\ \A s \in Sessions : userId'[s] = None => userId[s] = None
    BY <1>1, <1>2, <2>5
  <2> QED
    BY <1>1, <1>3, <2>5, <2>6, <2>7, <2>8, <2>9, CountedGoto
<1> QED
  BY <1>4, <1>5

\* markDelivered.
LEMMA CountedMark ==
  ASSUME IInv, IInv', Counted, NEW k \in Strands, LoginMark(k)
  PROVE  Counted'
<1>1. PICK h \in Tasks : h = Head(biz[k]) /\ biz[k] # <<>> /\ h \in Task
  <2>1. Running(k, "login", "mark")
    BY DEF LoginMark
  <2> QED
    BY <2>1, RunningFacts
<1>2. UNCHANGED <<userId, log, sends>> /\ Typed /\ rows' = Marked(h.pulled) /\ Done(k)
  BY <1>1 DEF LoginMark, counters, IInv
<1>3. GotSame
  BY <1>2 DEF GotSame
<1>4. rows \in Seq(Row) /\ DOMAIN rows' = DOMAIN rows
  BY <1>2 DEF Typed, Marked
<1>5. ASSUME NEW i \in DOMAIN rows
      PROVE  rows'[i].m = rows[i].m /\ (rows[i].delivered => rows'[i].delivered)
  <2>1. rows[i] \in Row
    BY <1>4
  <2>2. rows'[i] = IF i \in h.pulled THEN [rows[i] EXCEPT !.delivered = TRUE] ELSE rows[i]
    BY <1>2 DEF Marked
  <2> QED
    BY <2>1, <2>2 DEF Row
<1>6. UNCHANGED <<userId, sends>> /\ Done(k)
  BY <1>2
<1> QED
  BY <1>1, <1>3, <1>4, <1>5, <1>6, CountedDone

\* onChat has looked for the receiver: it may bring the message to one session, or to
\* the table, where before it could have been any.
LEMMA CountedChatGet ==
  ASSUME IInv, IInv', Counted, NEW k \in Strands, ChatGet(k)
  PROVE  Counted'
<1>1. PICK h \in Tasks : /\ h = Head(biz[k]) /\ biz[k] # <<>> /\ h \in Task /\ TaskHolds(h)
                         /\ h.kind = "chat" /\ h.pc = "get"
  <2>1. Running(k, "chat", "get")
    BY DEF ChatGet
  <2> QED
    BY <2>1, RunningFacts
<1>2. UNCHANGED <<userId, rows, log, sends>> /\ Typed /\ h.m \in Msgs
  BY <1>1 DEF ChatGet, counters, IInv, TaskHolds
<1>3. GotSame
  BY <1>2 DEF GotSame
<1>4. PICK g \in Sessions \cup {None} : g = Get(To[h.m])
  BY <1>2, ConstantFacts, GetFacts
<1> DEFINE z == [h EXCEPT !.pc = "save", !.target = g]
<1>5. Goto(k, z)
  BY <1>1, <1>4 DEF ChatGet
<1>6. z \in Task /\ z.kind = "chat" /\ z.s = h.s /\ z.m = h.m
  BY <1>1 DEF Task, Pc
<1> HIDE DEF z
<1>7. PICK x \in Task : x = z
  BY <1>6
<1>8. x.kind = "chat" /\ x.s = h.s /\ x.m = h.m /\ Goto(k, x)
  BY <1>5, <1>6, <1>7
<1>9. \A s \in Sessions, m \in Msgs : CanDeliver(x, s, m) => CanDeliver(Head(biz[k]), s, m)
  BY <1>1, <1>8 DEF CanDeliver
<1>10. \A s \in Sessions : ~Pulls(x, s)
  BY <1>8 DEF Pulls, LoginTask
<1>11. \A s \in Sessions, i \in DOMAIN rows : ~HasLeft(x, s, i)
  BY <1>8 DEF HasLeft, LoginTask
<1>12. /\ x.kind = Head(biz[k]).kind /\ x.s = Head(biz[k]).s /\ UNCHANGED <<rows, sends>>
       /\ \A s \in Sessions : userId'[s] = None => userId[s] = None
  BY <1>1, <1>2, <1>8
<1> QED
  BY <1>1, <1>3, <1>8, <1>9, <1>10, <1>11, <1>12, CountedGoto

\* saveMessage has failed.
LEMMA CountedSaveFails ==
  ASSUME IInv, IInv', Counted, NEW k \in Strands, ChatSaveFails(k)
  PROVE  Counted'
<1>1. PICK h \in Tasks : h = Head(biz[k]) /\ biz[k] # <<>>
  <2>1. Running(k, "chat", "save")
    BY DEF ChatSaveFails
  <2> QED
    BY <2>1, RunningFacts
<1>2. UNCHANGED <<userId, rows, sends>> /\ Typed /\ log' = Deliver(log, h.s, Ack(h.m, "ERROR")) /\ Done(k)
  BY <1>1 DEF ChatSaveFails, counters, IInv
<1>3. GotSame
  <2>1. Ack(h.m, "ERROR").type # "CHAT"
    BY DEF Ack
  <2> QED
    BY <1>2, <2>1, GotOther
<1>4. UNCHANGED <<userId, rows, sends>> /\ Done(k)
  BY <1>2
<1> QED
  BY <1>1, <1>3, <1>4, CountedDone

\* A client's offline request.
LEMMA CountedOffline ==
  ASSUME IInv, IInv', Counted, NEW k \in Strands, Offline(k)
  PROVE  Counted'
<1>1. biz[k] # <<>> /\ Done(k) /\ UNCHANGED <<userId, rows, log, sends>>
  BY DEF Offline, Running, counters
<1>2. GotSame
  BY <1>1 DEF GotSame
<1> QED
  BY <1>1, <1>2, CountedDone

\* An offline notice.
LEMMA CountedBroadcast ==
  ASSUME IInv, IInv', Counted, NEW k \in Strands, Broadcast(k)
  PROVE  Counted'
<1>1. PICK h \in Tasks : /\ h = Head(biz[k]) /\ biz[k] # <<>> /\ h \in Task /\ TaskHolds(h)
                         /\ h.kind = "bcast" /\ h.pc = "friends"
  <2>1. Running(k, "bcast", "friends")
    BY DEF Broadcast
  <2> QED
    BY <2>1, RunningFacts
<1>2. UNCHANGED <<userId, rows, sends>> /\ Typed
  BY <1>1 DEF Broadcast, counters, IInv
<1>3. PICK f \in h.todo :
        /\ log' = Deliver(log, Get(f), FriendOffline(h.u))
        /\ IF h.todo = {f} THEN Done(k) ELSE Goto(k, [h EXCEPT !.todo = h.todo \ {f}])
  BY <1>1 DEF Broadcast
<1>4. GotSame
  <2>1. FriendOffline(h.u).type # "CHAT"
    BY DEF FriendOffline
  <2> QED
    BY <1>2, <1>3, <2>1, GotOther
<1>5. CASE h.todo = {f}
  <2>1. Done(k)
    BY <1>3, <1>5
  <2> QED
    BY <1>1, <1>2, <1>4, <2>1, CountedDone
<1>6. CASE h.todo # {f}
  <2> DEFINE z == [h EXCEPT !.todo = h.todo \ {f}]
  <2>1. z \in Task /\ z.kind = "bcast" /\ z.s = h.s /\ Goto(k, z)
    BY <1>1, <1>3, <1>6 DEF Task
  <2> HIDE DEF z
  <2>2. PICK x \in Task : x = z
    BY <2>1
  <2>3. x.kind = "bcast" /\ x.s = h.s /\ Goto(k, x)
    BY <2>1, <2>2
  <2>4. \A s \in Sessions, m \in Msgs : ~CanDeliver(x, s, m)
    BY <2>3 DEF CanDeliver
  <2>5. \A s \in Sessions : ~Pulls(x, s) /\ \A i : ~HasLeft(x, s, i)
    BY <2>3 DEF Pulls, HasLeft, LoginTask
  <2>6. /\ x.kind = Head(biz[k]).kind /\ x.s = Head(biz[k]).s /\ UNCHANGED <<rows, sends>>
        /\ \A s \in Sessions : userId'[s] = None => userId[s] = None
    BY <1>1, <1>2, <2>3
  <2> QED
    BY <1>1, <1>4, <2>3, <2>4, <2>5, <2>6, CountedGoto
<1> QED
  BY <1>5, <1>6

\* The bookkeeping of a step that sends or saves: what is got comes off the tasks that
\* may bring it, a row takes the place of one of them, or a push uses up the row.
LEMMA WithinMoved ==
  ASSUME Typed, Typed', NEW s \in Sessions, NEW m \in Msgs, Within(s, m), sends'[m] = sends[m],
         IsFiniteSet(Claims(s, m)'),
         \/ /\ log'[s].got[m] + Cardinality(Claims(s, m)') <= log[s].got[m] + Cardinality(Claims(s, m))
            /\ MayPush(s, m)' =>
                 \/ MayPush(s, m)
                 \/ log'[s].got[m] + Cardinality(Claims(s, m)') + 1 <= log[s].got[m] + Cardinality(Claims(s, m))
         \/ /\ MayPush(s, m) /\ ~MayPush(s, m)'
            /\ log'[s].got[m] + Cardinality(Claims(s, m)') <= log[s].got[m] + Cardinality(Claims(s, m)) + 1
  PROVE  Within(s, m)'
<1>1. Cardinality(Claims(s, m)) \in Nat /\ Cardinality(Claims(s, m)') \in Nat
  BY FS_CardinalityType DEF Within
<1>2. log[s].got[m] \in Nat /\ log'[s].got[m] \in Nat
  BY DEF Typed, Log
<1>3. sends[m] \in Nat
  <2>1. sends \in [Msgs -> 0..MaxSend] /\ MaxSend \in Nat
    BY RoutingAssumption DEF Typed
  <2> QED
    BY <2>1
<1>4. /\ log[s].got[m] + Cardinality(Claims(s, m)) <= sends[m]
      /\ MayPush(s, m) => log[s].got[m] + Cardinality(Claims(s, m)) + 1 <= sends[m]
  BY DEF Within
<1>5. /\ log'[s].got[m] + Cardinality(Claims(s, m)') <= sends'[m]
      /\ MayPush(s, m)' => log'[s].got[m] + Cardinality(Claims(s, m)') + 1 <= sends'[m]
  BY <1>1, <1>2, <1>3, <1>4
<1> QED
  BY <1>5 DEF Within

\* onChat has sent what it claimed.
LEMMA CountedDeliver ==
  ASSUME IInv, IInv', Counted, NEW k \in Strands, ChatDeliver(k)
  PROVE  Counted'
<1>1. Typed /\ Typed' /\ OneRow /\ HeadOnly /\ Budget
  BY DEF IInv, Counted
<1>2. PICK h \in Tasks : /\ h = Head(biz[k]) /\ biz[k] # <<>> /\ h \in Task /\ TaskHolds(h)
                         /\ h.kind = "chat" /\ h.pc = "deliver"
  <2>1. Running(k, "chat", "deliver")
    BY DEF ChatDeliver
  <2> QED
    BY <2>1, RunningFacts
<1>3. /\ UNCHANGED <<userId, rows, sends>>
      /\ Done(k) /\ h.m \in Msgs /\ h.s \in Sessions /\ h.target \in Sessions \cup {None}
  BY <1>2 DEF ChatDeliver, counters, TaskHolds, Task
<1>4. Turn(h, {})
  BY <1>1, <1>2, <1>3, DoneFacts
<1>5. \A r \in Sessions, n \in Msgs :
        \/ log'[r].got[n] = log[r].got[n]
        \/ n = h.m /\ r = h.target /\ log'[r].got[n] = log[r].got[n] + 1
  <2>1. PICK res \in {"SUCC", "FAIL", "ERROR"} : res = IF h.target # None THEN "SUCC" ELSE "FAIL"
    OBVIOUS
  <2>2. /\ log' = Deliver(Deliver(log, h.target, Chat(h.m)), h.s, Ack(h.m, res))
        /\ h.s \in Sessions \cup {None} /\ h.target \in Sessions \cup {None} /\ h.m \in Msgs
    BY <1>2, <1>3, <2>1 DEF ChatDeliver
  <2>3. /\ log' \in Log
        /\ \A r \in Sessions :
             /\ \A q \in Msgs : \/ log'[r].got[q] = log[r].got[q]
                                \/ q = h.m /\ r = h.target /\ log'[r].got[q] = log[r].got[q] + 1
             /\ \A e \in log'[r].notes : e \in log[r].notes \/ e.m = h.m
             /\ \A v \in Users : log'[r].told[v] = log[r].told[v]
    BY <1>1, <2>2, DeliverBoth
  <2> QED
    BY <2>3
<1>6. OneRow'
  BY <1>1, <1>3 DEF OneRow
<1>7. HeadOnly'
  BY <1>1, <1>2, <1>3, HeadDone
<1>8. ASSUME NEW s \in Sessions, NEW m \in Msgs
      PROVE  Within(s, m)'
  <2>1. Within(s, m)
    BY <1>1 DEF Budget
  <2>2. Fewer(h, s, m)
    BY <1>1, <1>2, <1>3, <2>1, ClaimsDone DEF Within
  <2>3. MayPush(s, m)' => MayPush(s, m)
    BY <1>3, <1>4, MayPushKept
  <2>4. sends'[m] = sends[m]
    BY <1>3
  <2>5. CASE log'[s].got[m] = log[s].got[m]
    BY <1>1, <2>1, <2>2, <2>3, <2>4, <2>5, WithinKept DEF Fewer
  <2>6. CASE m = h.m /\ s = h.target /\ log'[s].got[m] = log[s].got[m] + 1
    <3>1. Cardinality(Claims(s, m)) \in Nat /\ Cardinality(Claims(s, m)') \in Nat
      BY <2>1, <2>2, FS_CardinalityType DEF Within, Fewer
    <3>2. log[s].got[m] \in Nat
      BY <1>1 DEF Typed, Log
    <3>3. CanDeliver(h, s, m)
      BY <1>2, <2>6 DEF CanDeliver
    <3>4. Cardinality(Claims(s, m)') + 1 <= Cardinality(Claims(s, m)) /\ IsFiniteSet(Claims(s, m)')
      BY <2>2, <3>3 DEF Fewer
    <3>5. log'[s].got[m] + Cardinality(Claims(s, m)') <= log[s].got[m] + Cardinality(Claims(s, m))
      BY <2>6, <3>1, <3>2, <3>4
    <3> QED
      BY <1>1, <2>1, <2>3, <2>4, <3>4, <3>5, WithinMoved
  <2> QED
    BY <1>5, <2>5, <2>6
<1> QED
  BY <1>6, <1>7, <1>8 DEF Counted, Budget

\* Only one login of a session is past "bind".
LEMMA OnlyLogin ==
  ASSUME Typed', HeadOnly', NEW x, biz'[BizOf[x.s]][1] = x,
         NEW t \in Tasks', t.kind = "login", t.s = x.s, t.pc # "bind"
  PROVE  t = x
<1>1. PICK j \in Strands : \E i \in DOMAIN biz'[j] : t = biz'[j][i]
  BY DEF Tasks
<1>2. PICK i \in DOMAIN biz'[j] : t = biz'[j][i]
  BY <1>1
<1>3. biz'[j] \in Seq(Task)
  BY DEF Typed
<1>4. i \in Nat /\ i >= 1
  BY <1>2, <1>3
<1>5. j = BizOf[x.s] /\ ~(i > 1)
  BY <1>2 DEF HeadOnly
<1>6. i = 1
  BY <1>4, <1>5
<1> QED
  BY <1>2, <1>5, <1>6

\* A push uses up the row: the login that pushes is the only one of its session, and
\* there is no other row of the message.
LEMMA CountedPush ==
  ASSUME IInv, IInv', Counted, NEW k \in Strands, LoginPush(k)
  PROVE  Counted'
<1>1. Typed /\ Typed' /\ OneRow /\ HeadOnly /\ Budget
  BY DEF IInv, Counted
<1>2. PICK h \in Tasks : /\ h = Head(biz[k]) /\ biz[k] # <<>> /\ h \in Task /\ TaskHolds(h)
                         /\ h.kind = "login" /\ h.pc = "push"
  <2>1. Running(k, "login", "push")
    BY DEF LoginPush
  <2> QED
    BY <2>1, RunningFacts
<1>3. /\ UNCHANGED <<userId, rows, sends>> /\ h.s \in Sessions /\ h.left \subseteq DOMAIN rows
      /\ userId[h.s] \in Users
  BY <1>2 DEF LoginPush, counters, TaskHolds
<1>4. PICK i \in h.left :
        /\ log' = Deliver(Deliver(log, h.s, Chat(rows[i].m)), Get(From[rows[i].m]), Ack(rows[i].m, "SUCC"))
        /\ Goto(k, [h EXCEPT !.left = h.left \ {i}, !.pc = IF h.left = {i} THEN "mark" ELSE "push"])
  BY <1>2 DEF LoginPush
<1> DEFINE z == [h EXCEPT !.left = h.left \ {i}, !.pc = IF h.left = {i} THEN "mark" ELSE "push"]
<1>5. /\ z \in Task /\ z.kind = "login" /\ z.pc \in {"push", "mark"} /\ z.s = h.s
      /\ z.left = h.left \ {i} /\ Goto(k, z)
  BY <1>2, <1>4 DEF Task, Pc
<1> HIDE DEF z
<1>6. PICK x \in Task : x = z
  BY <1>5
<1>7. x.kind = "login" /\ x.pc \in {"push", "mark"} /\ x.s = h.s /\ x.left = h.left \ {i} /\ Goto(k, x)
  BY <1>5, <1>6
<1>8. Turn(h, {x})
  BY <1>1, <1>2, <1>7, GotoFacts
<1>9. PICK n \in Msgs : n = rows[i].m /\ i \in DOMAIN rows
  <2>1. i \in DOMAIN rows
    BY <1>3, <1>4
  <2> QED
    BY <1>1, <2>1, RowFacts
<1>10. \A r \in Sessions, m \in Msgs :
         \/ log'[r].got[m] = log[r].got[m]
         \/ m = n /\ r = h.s /\ log'[r].got[m] = log[r].got[m] + 1
  <2>1. PICK g \in Sessions \cup {None} : g = Get(From[n])
    BY <1>1, ConstantFacts, GetFacts
  <2>2. /\ log' = Deliver(Deliver(log, h.s, Chat(n)), g, Ack(n, "SUCC"))
        /\ h.s \in Sessions \cup {None} /\ "SUCC" \in {"SUCC", "FAIL", "ERROR"}
    BY <1>3, <1>4, <1>9, <2>1
  <2>3. /\ log' \in Log
        /\ \A r \in Sessions :
             /\ \A q \in Msgs : \/ log'[r].got[q] = log[r].got[q]
                                \/ q = n /\ r = h.s /\ log'[r].got[q] = log[r].got[q] + 1
             /\ \A e \in log'[r].notes : e \in log[r].notes \/ e.m = n
             /\ \A v \in Users : log'[r].told[v] = log[r].told[v]
    BY <1>1, <2>2, DeliverBoth
  <2> QED
    BY <2>3
<1>11. OneRow'
  BY <1>1, <1>3 DEF OneRow
<1>12. HeadOnly' /\ biz'[k][1] = x
  BY <1>1, <1>2, <1>7, HeadGoto
<1>13. k = BizOf[x.s]
  <2>1. biz[k] \in Seq(Task)
    BY <1>1 DEF Typed
  <2>2. 1 \in DOMAIN biz[k] /\ h = biz[k][1]
    BY <1>2, <2>1
  <2> QED
    BY <1>1, <1>2, <1>7, <2>2 DEF HeadOnly
<1>14. MayPush(h.s, n)
  BY <1>2, <1>4, <1>9 DEF MayPush, HasLeft, LoginTask
<1>15. ~MayPush(h.s, n)'
  <2>1. ASSUME NEW t \in Tasks', LoginTask(t, h.s), t.pc # "bind"
        PROVE  t = x
    BY <1>1, <1>7, <1>12, <1>13, <2>1, OnlyLogin DEF LoginTask
  <2>2. ~WillPull(h.s)'
    <3>1. userId'[h.s] # None
      BY <1>3, ConstantFacts
    <3>2. \A t \in Tasks' : ~Pulls(t, h.s)
      BY <1>7, <2>1 DEF Pulls
    <3> QED
      BY <3>1, <3>2 DEF WillPull
  <2>3. \A t \in Tasks' : ~HasLeft(t, h.s, i)
    BY <1>7, <2>1 DEF HasLeft
  <2>4. \A j \in DOMAIN rows : rows[j].m = n => j = i
    BY <1>1, <1>9 DEF OneRow
  <2> QED
    BY <1>3, <2>2, <2>3, <2>4 DEF MayPush
<1>16. ASSUME NEW s \in Sessions, NEW m \in Msgs
       PROVE  Within(s, m)'
  <2>1. Within(s, m)
    BY <1>1 DEF Budget
  <2>2. IsFiniteSet(Claims(s, m)') /\ Cardinality(Claims(s, m)') <= Cardinality(Claims(s, m))
    <3>1. ~CanDeliver(x, s, m)
      BY <1>7 DEF CanDeliver
    <3> QED
      BY <1>1, <1>2, <1>7, <2>1, <3>1, ClaimsGoto DEF Within
  <2>3. MayPush(s, m)' => MayPush(s, m)
    <3>1. ~Pulls(x, s)
      BY <1>7 DEF Pulls
    <3>2. \A j \in DOMAIN rows : HasLeft(x, s, j) => MayPush(s, rows[j].m)
      BY <1>2, <1>7 DEF HasLeft, LoginTask, MayPush
    <3> QED
      BY <1>3, <1>8, <3>1, <3>2, MayPushKept
  <2>4. sends'[m] = sends[m]
    BY <1>3
  <2>5. CASE log'[s].got[m] = log[s].got[m]
    BY <1>1, <2>1, <2>2, <2>3, <2>4, <2>5, WithinKept
  <2>6. CASE m = n /\ s = h.s /\ log'[s].got[m] = log[s].got[m] + 1
    <3>1. Cardinality(Claims(s, m)) \in Nat /\ Cardinality(Claims(s, m)') \in Nat
      BY <2>1, <2>2, FS_CardinalityType DEF Within
    <3>2. log[s].got[m] \in Nat
      BY <1>1 DEF Typed, Log
    <3>3. log'[s].got[m] + Cardinality(Claims(s, m)') <= log[s].got[m] + Cardinality(Claims(s, m)) + 1
      BY <2>2, <2>6, <3>1, <3>2
    <3>4. MayPush(s, m) /\ ~MayPush(s, m)'
      BY <1>14, <1>15, <2>6
    <3> QED
      BY <1>1, <2>1, <2>2, <2>4, <3>3, <3>4, WithinMoved
  <2> QED
    BY <1>10, <2>5, <2>6
<1> QED
  BY <1>11, <1>12, <1>16 DEF Counted, Budget

\* The row of a message takes the place of the onChat that found nobody.
LEMMA CountedSave ==
  ASSUME IInv, IInv', Counted, NEW k \in Strands, ChatSave(k)
  PROVE  Counted'
<1>1. Typed /\ Typed' /\ OneRow /\ HeadOnly /\ Budget /\ TasksHold
  BY DEF IInv, Counted
<1>2. PICK h \in Tasks : /\ h = Head(biz[k]) /\ biz[k] # <<>> /\ h \in Task /\ TaskHolds(h)
                         /\ h.kind = "chat" /\ h.pc = "save"
  <2>1. Running(k, "chat", "save")
    BY DEF ChatSave
  <2> QED
    BY <2>1, RunningFacts
<1> DEFINE z == [h EXCEPT !.pc = "deliver"]
<1>3. UNCHANGED <<userId, log, sends>> /\ SaveMessage(h.m, h.target # None) /\ Goto(k, z)
  BY <1>2 DEF ChatSave
<1>4. z \in Task /\ z.kind = "chat" /\ z.pc = "deliver" /\ z.s = h.s /\ z.m = h.m /\ z.target = h.target
  BY <1>2 DEF Task, Pc
<1> HIDE DEF z
<1>5. PICK x \in Task : x = z
  BY <1>4
<1>6. /\ x.kind = "chat" /\ x.pc = "deliver" /\ x.s = h.s /\ x.m = h.m /\ x.target = h.target
      /\ Goto(k, x)
  BY <1>3, <1>4, <1>5
<1>7. Turn(h, {x})
  BY <1>1, <1>2, <1>6, GotoFacts
<1>8. \A s \in Sessions, m \in Msgs : CanDeliver(x, s, m) => CanDeliver(Head(biz[k]), s, m)
  BY <1>2, <1>6 DEF CanDeliver
<1>9. \A s : ~Pulls(x, s) /\ \A i : ~HasLeft(x, s, i)
  BY <1>6 DEF Pulls, HasLeft, LoginTask
<1>10. GotSame
  BY <1>3 DEF GotSame
<1>11. CASE \E i \in DOMAIN rows : rows[i].m = h.m
  <2>1. rows' = rows
    BY <1>3, <1>11 DEF SaveMessage
  <2>2. /\ x.kind = Head(biz[k]).kind /\ x.s = Head(biz[k]).s /\ UNCHANGED <<rows, sends>>
        /\ \A s \in Sessions : userId'[s] = None => userId[s] = None
    BY <1>2, <1>3, <1>6, <2>1
  <2> QED
    BY <1>2, <1>6, <1>8, <1>9, <1>10, <2>2, CountedGoto
<1>12. CASE ~\E i \in DOMAIN rows : rows[i].m = h.m
  <2>1. rows \in Seq(Row) /\ Len(rows) \in Nat /\ DOMAIN rows = 1..Len(rows)
    BY <1>1 DEF Typed
  <2> DEFINE n == Len(rows) + 1
             w == [m |-> h.m, seq |-> NextSeq(h.m), delivered |-> h.target # None]
  <2>2. w.m = h.m /\ (h.target # None => w.delivered)
    OBVIOUS
  <2>3. rows' = Append(rows, w)
    BY <1>3, <1>12 DEF SaveMessage
  <2> HIDE DEF w
  <2>4. /\ DOMAIN rows' = 1..n /\ rows'[n] = w /\ n \notin DOMAIN rows
        /\ \A i \in DOMAIN rows : rows'[i] = rows[i]
        /\ \A i \in DOMAIN rows' : i = n \/ i \in DOMAIN rows
    BY <2>1, <2>3
  <2> HIDE DEF n
  <2>5. OneRow'
    BY <1>1, <1>12, <2>2, <2>4 DEF OneRow
  <2>6. HeadOnly'
    BY <1>1, <1>2, <1>6, HeadGoto
  <2>7. ASSUME NEW s \in Sessions, NEW m \in Msgs, MayPush(s, m)'
        PROVE  MayPush(s, m) \/ (m = h.m /\ h.target = None)
    <3>1. PICK i \in DOMAIN rows' :
            /\ rows'[i].m = m
            /\ (~rows'[i].delivered /\ WillPull(s)') \/ \E t \in Tasks' : HasLeft(t, s, i)
      BY <2>7 DEF MayPush
    <3>2. \A t \in Tasks' : \A j : Pulls(t, s) \/ HasLeft(t, s, j) => t \in Tasks
      BY <1>7, <1>9 DEF Turn
    <3>3. WillPull(s)' => WillPull(s)
      BY <1>3, <3>2 DEF WillPull
    <3>4. \A t \in Tasks' : \A j : HasLeft(t, s, j) => j \in DOMAIN rows
      BY <1>1, <3>2 DEF HasLeft, TasksHold, TaskHolds
    <3>5. CASE i = n
      BY <2>2, <2>4, <3>1, <3>4, <3>5
    <3>6. CASE i \in DOMAIN rows
      BY <2>4, <3>1, <3>2, <3>3, <3>6 DEF MayPush
    <3> QED
      BY <2>4, <3>5, <3>6
  <2>8. ASSUME NEW s \in Sessions, NEW m \in Msgs
        PROVE  Within(s, m)'
    <3>1. Within(s, m)
      BY <1>1 DEF Budget
    <3>2. /\ IsFiniteSet(Claims(s, m)')
          /\ Cardinality(Claims(s, m)') <= Cardinality(Claims(s, m))
          /\ ~CanDeliver(x, s, m) => Fewer(h, s, m)
      BY <1>1, <1>2, <1>6, <1>8, <3>1, ClaimsGoto DEF Within
    <3>3. log'[s].got[m] = log[s].got[m] /\ sends'[m] = sends[m]
      BY <1>3
    <3>4. CASE m = h.m /\ h.target = None
      <4>1. CanDeliver(h, s, m) /\ ~CanDeliver(x, s, m)
        BY <1>2, <1>6, <3>4, ConstantFacts DEF CanDeliver
      <4>2. Cardinality(Claims(s, m)') + 1 <= Cardinality(Claims(s, m))
        BY <3>2, <4>1 DEF Fewer
      <4>3. Cardinality(Claims(s, m)) \in Nat /\ Cardinality(Claims(s, m)') \in Nat
        BY <3>1, <3>2, FS_CardinalityType DEF Within
      <4>4. log[s].got[m] \in Nat
        BY <1>1 DEF Typed, Log
      <4>5. /\ log'[s].got[m] + Cardinality(Claims(s, m)') <= log[s].got[m] + Cardinality(Claims(s, m))
            /\ log'[s].got[m] + Cardinality(Claims(s, m)') + 1 <= log[s].got[m] + Cardinality(Claims(s, m))
        BY <3>3, <4>2, <4>3, <4>4
      <4> QED
        BY <1>1, <3>1, <3>2, <3>3, <4>5, WithinMoved
    <3>5. CASE ~(m = h.m /\ h.target = None)
      <4>1. MayPush(s, m)' => MayPush(s, m)
        BY <2>7, <3>5
      <4> QED
        BY <1>1, <3>1, <3>2, <3>3, <4>1, WithinKept
    <3> QED
      BY <3>4, <3>5
  <2> QED
    BY <2>5, <2>6, <2>8 DEF Counted, Budget
<1> QED
  BY <1>11, <1>12

-----------------------------------------------------------------------------
(* The theorems.                                                           *)

\* At the start nobody is connected and nothing is stored.
LEMMA InitIInv == Init => IInv
<1> SUFFICES ASSUME Init PROVE IInv
  OBVIOUS
<1>1. /\ conn = [s \in Sessions |-> "unused"] /\ userId = [s \in Sessions |-> None] /\ closing = {}
      /\ presence = [u \in Users |-> None] /\ biz = [k \in Strands |-> <<>>] /\ rows = <<>>
      /\ log = [s \in Sessions |-> Empty] /\ asked = 0 /\ sends = [m \in Msgs |-> 0]
      /\ crashes = 0 /\ overtaken = {}
  BY DEF Init
<1>2. Empty \in [told : [Users -> News], got : [Msgs -> Nat], notes : SUBSET Frame]
      /\ Empty.notes = {} /\ \A m \in Msgs : Empty.got[m] = 0
  BY DEF Empty, NoNews, News
<1>3. Typed
  <2>1. log \in Log
    BY <1>1, <1>2 DEF Log
  <2>2. biz \in [Strands -> Seq(Task)] /\ rows \in Seq(Row) /\ DOMAIN rows = {}
    BY <1>1
  <2>3. asked \in 0..MaxAsk /\ sends \in [Msgs -> 0..MaxSend] /\ crashes \in 0..MaxCrash
    BY <1>1, RoutingAssumption
  <2> QED
    BY <1>1, <2>1, <2>2, <2>3 DEF Typed
<1>4. TasksHold
  BY <1>1 DEF TasksHold, Tasks
<1>5. UnusedHasNoUser /\ Reachable /\ Told
  BY <1>1 DEF UnusedHasNoUser, Reachable, Told, Fresh
<1>6. Seen
  BY <1>1, <1>2 DEF Seen
<1>7. Waiting
  BY <1>1 DEF Waiting
<1> QED
  BY <1>3, <1>4, <1>5, <1>6, <1>7 DEF IInv

\* The invariant is inductive.
LEMMA NextIInv == IInv /\ [Next]_vars => IInv'
<1> SUFFICES ASSUME IInv, [Next]_vars PROVE IInv'
  OBVIOUS
<1>1. CASE UNCHANGED vars
  <2>1. UNCHANGED <<conn, userId, closing, presence, biz, rows, log, asked, sends, crashes, overtaken>>
    BY <1>1 DEF vars
  <2>2. Tasks' = Tasks
    BY <2>1 DEF Tasks
  <2>3. Typed'
    BY <2>1 DEF IInv, Typed
  <2>4. TasksHold'
    <3>1. Grows
      BY <2>1 DEF Grows
    <3> QED
      BY <2>2, <3>1, TaskKept DEF IInv, TasksHold
  <2>5. UnusedHasNoUser'
    BY <2>1 DEF IInv, UnusedHasNoUser
  <2>6. Reachable'
    BY <2>1, <2>2 DEF IInv, Reachable, Fresh, Replacing
  <2>7. Seen'
    BY <2>1 DEF IInv, Seen, Stored
  <2>8. Waiting'
    BY <2>1, <2>2 DEF IInv, Waiting, WillPush
  <2>9. Told'
    BY <2>1, <2>2 DEF IInv, Told, Fresh, OnlySession, WillTell, WillLook
  <2> QED
    BY <2>3, <2>4, <2>5, <2>6, <2>7, <2>8, <2>9 DEF IInv
<1>2. ASSUME NEW s \in Sessions, Connect(s) \/ Close(s)
      PROVE  IInv'
  BY <1>2, ConnectStep, CloseStep
<1>3. ASSUME NEW s \in Sessions, SendLogin(s) \/ SendOffline(s) \/ \E m \in Msgs : SendChat(s, m)
      PROVE  IInv'
  BY <1>3, SendStep
<1>4. ASSUME NEW k \in Strands, Step(k)
      PROVE  IInv'
  BY <1>4, BindStep, ReplaceStep, FriendStep, TellStep, PullStep, PushStep, MarkStep, ChatGetStep,
     ChatSaveStep, ChatSaveFailsStep, ChatDeliverStep, OfflineStep, BroadcastStep DEF Step
<1>5. CASE Crash
  BY <1>5, CrashStep
<1> QED
  BY <1>1, <1>2, <1>3, <1>4, <1>5 DEF Next

\* The invariant holds throughout.
LEMMA SpecIInv == Spec => []IInv
BY InitIInv, NextIInv, PTL DEF Spec

\* A session that is through with its login and not told to go is Fresh, and no login of
\* it is under way.
LEMMA ActiveFacts ==
  ASSUME IInv, NEW s \in Sessions, Active(s)
  PROVE  /\ userId[s] \in Users /\ Fresh(s, userId[s])
         /\ ~Replacing(s) /\ \A i : ~WillPush(s, i) /\ ~WillTell(s, i) /\ ~WillLook(s, i)
<1>1. userId[s] \in Users /\ Fresh(s, userId[s])
  BY DEF IInv, Typed, Active, Fresh
<1>2. ~Replacing(s) /\ \A i : ~WillPush(s, i) /\ ~WillTell(s, i) /\ ~WillLook(s, i)
  BY DEF Active, LoggingIn, Replacing, Replaces, WillPush, Pushes, WillTell, Tells, WillLook, Looks,
         LoginTask
<1> QED
  BY <1>1, <1>2

\* Presence: whatever logins, kicks, offline requests and disconnects race, on any
\* number of strands, an open session nobody has told to go is the one that
\* Presence::get() finds for its user.
THEOREM ChatActiveIsReachable == Spec => []ActiveIsReachable
<1>1. IInv => ActiveIsReachable
  <2> SUFFICES ASSUME IInv, NEW s \in Sessions, Active(s)
               PROVE  Get(userId[s]) = s
    BY DEF ActiveIsReachable
  <2>1. PICK u \in Users : u = userId[s] /\ Fresh(s, u) /\ ~Replacing(s)
    BY ActiveFacts
  <2>2. presence[u] = s /\ conn[s] = "open" /\ Typed
    BY <2>1 DEF IInv, Reachable, Fresh
  <2>3. Get(u) = s
    BY <2>2, GetFacts
  <2> QED
    BY <2>1, <2>3
<1> QED
  BY <1>1, SpecIInv, PTL

\* Storage: a message a client has got, or a sender was told of as sent, is in the
\* messages table, also after crashes and failed saves.  (With the types.)
THEOREM ChatSeenIsStored == Spec => []SeenIsStored
<1>1. IInv => SeenIsStored
  <2> SUFFICES ASSUME IInv PROVE SeenIsStored
    OBVIOUS
  <2>1. Typed /\ Seen
    BY DEF IInv
  <2>2. \A i \in DOMAIN rows : rows[i] \in [m : Msgs, seq : 1..Len(rows), delivered : BOOLEAN]
    <3>1. ASSUME NEW i \in DOMAIN rows
          PROVE  rows[i] \in [m : Msgs, seq : 1..Len(rows), delivered : BOOLEAN]
      <4>1. rows[i] \in Row
        BY <2>1, RowFacts
      <4>2. rows[i].seq \in 1..Len(rows)
        <5>1. rows[i].seq \in Nat \ {0} /\ rows[i].seq <= Len(rows) /\ rows \in Seq(Row)
          BY <2>1, <4>1 DEF Typed, Row
        <5> QED
          BY <5>1
      <4> QED
        BY <4>1, <4>2 DEF Row
    <3> QED
      BY <3>1
  <2>3. \A t \in Tasks : /\ t.kind \in {"login", "chat", "offline", "bcast"}
                         /\ {t.s, t.target} \subseteq Sessions \cup {None}
                         /\ {t.u, t.friend} \subseteq Users \cup {None}
                         /\ t.todo \subseteq Users
    <3>1. \A t \in Tasks : t \in Task
      BY <2>1, TaskFacts
    <3> QED
      BY <3>1 DEF Task, Kind
  <2>4. \A s \in Sessions : log[s].told \in [Users -> {None, "ONLINE", "OFFLINE", "FRIEND_OFFLINE"}]
    <3>1. News = {None, "ONLINE", "OFFLINE", "FRIEND_OFFLINE"}
      BY DEF News, Status
    <3> QED
      BY <2>1, <3>1 DEF Typed, Log
  <2>5. TypeOK
    BY <2>1, <2>2, <2>3, <2>4 DEF Typed, TypeOK
  <2> QED
    BY <2>1, <2>5 DEF SeenIsStored, Seen
<1> QED
  BY <1>1, SpecIInv, PTL

\* Status: of two users who are online, however their logins were interleaved, the one
\* with a single session is known to the other as online once the strands are idle.
THEOREM ChatLoginsSeeEachOther == Spec => []LoginsSeeEachOther
<1>1. IInv => LoginsSeeEachOther
  <2> SUFFICES ASSUME IInv, NEW s \in Sessions, NEW t \in Sessions,
                      Active(s), Active(t), userId[s] # userId[t], SessionsOf(userId[s]) = {s}
               PROVE  log[t].told[userId[s]] = "ONLINE"
    BY DEF LoginsSeeEachOther
  <2>1. PICK u \in Users : u = userId[s] /\ Fresh(s, u) /\ \A i : ~WillTell(s, i)
    BY ActiveFacts
  <2>2. PICK v \in Users : v = userId[t] /\ Fresh(t, v) /\ \A i : ~WillLook(t, i)
    BY ActiveFacts
  <2>3. OnlySession(s, u)
    BY <2>1 DEF SessionsOf, OnlySession
  <2>4. Told
    BY DEF IInv
  <2> QED
    BY <2>1, <2>2, <2>3, <2>4 DEF Told
<1> QED
  BY <1>1, SpecIInv, PTL

\* Delivery: no row waits for a user who is online, except a message for which onChat
\* found no receiver before the receiver's login and which it saved after that login had
\* read the table.
THEOREM ChatNothingWaitsForActive == Spec => []NothingWaitsForActive
<1>1. IInv => NothingWaitsForActive
  <2> SUFFICES ASSUME IInv, NEW i \in DOMAIN rows, ~rows[i].delivered, rows[i].m \notin overtaken,
                      NEW s \in SessionsOf(To[rows[i].m]), Active(s)
               PROVE  FALSE
    BY DEF NothingWaitsForActive
  <2>1. s \in Sessions /\ userId[s] = To[rows[i].m] /\ conn[s] = "open"
    BY DEF SessionsOf, Active
  <2>2. WillPush(s, i)
    BY <2>1 DEF IInv, Waiting
  <2>3. ~WillPush(s, i)
    BY <2>1, ActiveFacts
  <2> QED
    BY <2>2, <2>3
<1> QED
  BY <1>1, SpecIInv, PTL

\* Initially nothing was sent.
LEMMA InitCounted == Init => Counted
<1> SUFFICES ASSUME Init PROVE Counted
  OBVIOUS
<1>1. /\ biz = [k \in Strands |-> <<>>] /\ rows = <<>> /\ log = [s \in Sessions |-> Empty]
      /\ sends = [m \in Msgs |-> 0]
  BY DEF Init
<1>2. DOMAIN rows = {} /\ \A k \in Strands : DOMAIN biz[k] = {}
  BY <1>1
<1>3. OneRow /\ HeadOnly
  BY <1>2 DEF OneRow, HeadOnly
<1>4. ASSUME NEW s \in Sessions, NEW m \in Msgs
      PROVE  Within(s, m)
  <2>1. Claims(s, m) = {}
    BY <1>2 DEF Claims, Places
  <2>2. IsFiniteSet(Claims(s, m)) /\ Cardinality(Claims(s, m)) = 0
    BY <2>1, FS_EmptySet
  <2>3. ~MayPush(s, m)
    BY <1>2 DEF MayPush
  <2>4. log[s].got[m] = 0 /\ sends[m] = 0
    BY <1>1 DEF Empty
  <2>5. log[s].got[m] + Cardinality(Claims(s, m)) <= sends[m]
    BY <2>2, <2>4
  <2> QED
    BY <2>2, <2>3, <2>5 DEF Within
<1> QED
  BY <1>3, <1>4 DEF Counted, Budget

\* The count is kept by every step.
LEMMA NextCounted == IInv /\ IInv' /\ Counted /\ [Next]_vars => Counted'
<1> SUFFICES ASSUME IInv, IInv', Counted, [Next]_vars PROVE Counted'
  OBVIOUS
<1>1. CASE UNCHANGED vars
  <2>1. UNCHANGED <<userId, biz, rows, sends, log>>
    BY <1>1 DEF vars
  <2>2. GotSame
    BY <2>1 DEF GotSame
  <2> QED
    BY <2>1, <2>2, CountedSame
<1>2. ASSUME NEW s \in Sessions, Connect(s) \/ Close(s) \/ SendLogin(s) \/ SendOffline(s)
      PROVE  Counted'
  BY <1>2, CountedClients
<1>3. ASSUME NEW s \in Sessions, NEW m \in Msgs, SendChat(s, m)
      PROVE  Counted'
  BY <1>3, CountedSend
<1>4. ASSUME NEW k \in Strands, Step(k)
      PROVE  Counted'
  BY <1>4, CountedBind, CountedReplace, CountedFriend, CountedTell, CountedPull, CountedPush, CountedMark,
     CountedChatGet, CountedSave, CountedSaveFails, CountedDeliver, CountedOffline, CountedBroadcast
     DEF Step
<1>5. CASE Crash
  BY <1>5, CountedCrash
<1> QED
  BY <1>1, <1>2, <1>3, <1>4, <1>5 DEF Next

\* No duplicates: with any number of retries, logins, kicks and crashes a connection
\* gets a message no more often than it was sent.  What onChat forwards and what
\* activateSession resends are never the same sending.
THEOREM ChatNoDuplicateOnSession == Spec => []NoDuplicateOnSession
<1>1. IInv /\ Counted => NoDuplicateOnSession
  <2> SUFFICES ASSUME IInv, Counted, NEW s \in Sessions, NEW m \in Msgs
               PROVE  log[s].got[m] <= sends[m]
    BY DEF NoDuplicateOnSession
  <2>1. IsFiniteSet(Claims(s, m)) /\ log[s].got[m] + Cardinality(Claims(s, m)) <= sends[m]
    BY DEF Counted, Budget, Within
  <2>2. Cardinality(Claims(s, m)) \in Nat
    BY <2>1, FS_CardinalityType
  <2>3. log[s].got[m] \in Nat
    BY DEF IInv, Typed, Log
  <2>4. sends[m] \in Nat
    <3>1. sends \in [Msgs -> 0..MaxSend] /\ MaxSend \in Nat
      BY RoutingAssumption DEF IInv, Typed
    <3> QED
      BY <3>1
  <2> QED
    BY <2>1, <2>2, <2>3, <2>4
<1> QED
  BY <1>1, InitCounted, NextCounted, SpecIInv, PTL DEF Spec

=============================================================================
