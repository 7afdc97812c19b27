-------------------------- MODULE FriendshipProofs --------------------------
(***************************************************************************)
(* Proofs about Friendship for any users, any friends to begin with and    *)
(* any number of requests.                                                 *)
(***************************************************************************)
EXTENDS Friendship, TLAPS

\* A task with its local variables.
Task ==
  {Idle} \cup [op : {"add", "remove", "tellRemoved", "readOwn", "readPeer"}, peer : Users]
         \cup [op : {"tellOwn", "tellPeer"}, peer : Users, list : SUBSET Users]

\* Types, with the lists and without a handler that names its own user.
Typed ==
  /\ friends \subseteq Pairs
  /\ \A u, v \in Users : <<u, v>> \in friends => <<v, u>> \in friends
  /\ status \in [Pairs -> {"absent", "pending", "accepted", "rejected"}]
  /\ task \in [Users -> Task]
  /\ \A u \in Users : task[u].op # "idle" => task[u].peer # u
  /\ shown \in [Users -> SUBSET Users]
  /\ asked \in 0..MaxAsk

\* w's handler is about to list v to x's client.
Lists(w, x, v) ==
  /\ (task[w].op = "tellOwn" /\ x = w) \/ (task[w].op = "tellPeer" /\ x = task[w].peer)
  /\ v \in task[w].list

\* A list that was read is still right when it is sent, unless a deletion crossed it.
ListsHold ==
  \A w, x, v \in Users : Lists(w, x, v) /\ x \notin crossed => <<x, v>> \in friends

\* A deletion that is not yet told still holds, unless an acceptance crossed it.
DeletionsHold ==
  \A u, v \in Users : Busy(v, "tellRemoved", u) /\ u \notin crossed => <<u, v>> \notin friends

\* An answer under way will show v to u's client.
WillTell(u, v) ==
  \/ task[u].op = "readOwn" \/ (task[u].op = "tellOwn" /\ v \in task[u].list)
  \/ \E w \in Users :
       /\ task[w].op \in Telling /\ task[w].peer = u
       /\ task[w].op = "tellPeer" => v \in task[w].list

\* Where a list differs from the table a handler is about to tell the client.
DifferenceIsTold ==
  \A u, v \in Users : u \notin crossed =>
    /\ v \in shown[u] /\ <<u, v>> \notin friends => Busy(v, "tellRemoved", u)
    /\ v \notin shown[u] /\ <<u, v>> \in friends => WillTell(u, v)

IInv == Typed /\ WaitingOnlyIfOvertaken /\ ListsHold /\ DeletionsHold /\ DifferenceIsTold

-----------------------------------------------------------------------------

\* Pairs of users, and the table of friends as its two directions.
LEMMA PairFacts ==
  /\ \A p \in Pairs : p[1] \in Users /\ p[2] \in Users /\ p[1] # p[2] /\ p = <<p[1], p[2]>>
  /\ \A u, v \in Users : u # v => <<u, v>> \in Pairs
  /\ \A u, v \in Users : <<u, v>> \in Pairs => u # v
BY DEF Pairs

\* Being its own mirror image is being symmetric.
LEMMA MirrorFacts ==
  ASSUME NEW S \in SUBSET Pairs
  PROVE  Mirror(S) = S <=> \A u, v \in Users : <<u, v>> \in S => <<v, u>> \in S
<1>1. \A p \in S : p[1] \in Users /\ p[2] \in Users /\ p = <<p[1], p[2]>>
  BY PairFacts
<1>2. ASSUME Mirror(S) = S, NEW u \in Users, NEW v \in Users, <<u, v>> \in S
      PROVE  <<v, u>> \in S
  <2>1. <<v, u>> \in Mirror(S)
    BY <1>2 DEF Mirror
  <2> QED
    BY <1>2, <2>1
<1>3. ASSUME \A u, v \in Users : <<u, v>> \in S => <<v, u>> \in S
      PROVE  Mirror(S) = S
  <2>1. ASSUME NEW p \in S
        PROVE  p \in Mirror(S)
    <3>1. <<p[2], p[1]>> \in S
      BY <1>1, <1>3
    <3>2. p = <<<<p[2], p[1]>>[2], <<p[2], p[1]>>[1]>>
      BY <1>1
    <3> QED
      BY <3>1, <3>2 DEF Mirror
  <2>2. ASSUME NEW p \in Mirror(S)
        PROVE  p \in S
    <3>1. PICK q \in S : p = <<q[2], q[1]>>
      BY DEF Mirror
    <3> QED
      BY <1>1, <1>3, <3>1
  <2> QED
    BY <2>1, <2>2
<1> QED
  BY <1>2, <1>3

\* The fields of tasks.
LEMMA TaskFields ==
  /\ Idle \in Task /\ Idle.op = "idle"
  /\ \A t \in Task : /\ t.op # "idle" => t.peer \in Users
                     /\ t.op \in {"tellOwn", "tellPeer"} => t.list \in SUBSET Users
                     /\ t.op = "idle" => t = Idle
                     /\ t.op \in {"idle", "add", "remove", "tellRemoved"} \cup Telling
  /\ \A op \in {"add", "remove", "tellRemoved", "readOwn", "readPeer"}, v \in Users :
       [op |-> op, peer |-> v] \in Task
  /\ \A op \in {"tellOwn", "tellPeer"}, v \in Users, L \in SUBSET Users :
       [op |-> op, peer |-> v, list |-> L] \in Task
BY DEF Task, Idle, Telling

\* A task is replaced.
LEMMA TaskFacts ==
  ASSUME Typed, NEW u \in Users, NEW t, task' = [task EXCEPT ![u] = t]
  PROVE  /\ task'[u] = t /\ \A w \in Users \ {u} : task'[w] = task[w]
         /\ (t \in Task /\ (t.op # "idle" => t.peer # u)) =>
              /\ task' \in [Users -> Task]
              /\ \A w \in Users : task'[w].op # "idle" => task'[w].peer # w
BY DEF Typed

\* The initial state.
LEMMA InitIInv == Init => IInv
<1> SUFFICES ASSUME Init PROVE IInv
  OBVIOUS
<1>1. Seed \subseteq Pairs /\ MaxAsk \in Nat /\ \A u, v \in Users : <<u, v>> \in Seed => <<v, u>> \in Seed
  BY FriendAssumption, MirrorFacts
<1>2. Typed
  BY <1>1, TaskFields DEF Init, Typed
<1>3. WaitingOnlyIfOvertaken
  BY DEF Init, WaitingOnlyIfOvertaken, Pending
<1>4. \A u \in Users : task[u].op = "idle"
  BY TaskFields DEF Init
<1>5. ListsHold /\ DeletionsHold
  BY <1>4 DEF ListsHold, Lists, DeletionsHold, Busy
<1>6. DifferenceIsTold
  BY DEF Init, DifferenceIsTold
<1> QED
  BY <1>2, <1>3, <1>5, <1>6 DEF IInv

-----------------------------------------------------------------------------
(* The steps by what they do to the tables, the lists and the tasks.       *)

\* A step that changes no table of friends and no list and neither begins nor ends
\* an answer or a deletion.
LEMMA PlainStep ==
  ASSUME IInv, NEW u \in Users, NEW t,
         task' = [task EXCEPT ![u] = t],
         task[u].op \in {"idle", "add", "remove"}, t.op \in {"idle", "add", "remove"},
         friends' = friends, crossed' = crossed,
         \A w \in Users : /\ shown'[w] \subseteq shown[w]
                          /\ \A v \in Users : v \in shown[w] /\ <<w, v>> \in friends => v \in shown'[w]
  PROVE  ListsHold' /\ DeletionsHold' /\ DifferenceIsTold'
<1>0. Typed /\ ListsHold /\ DeletionsHold /\ DifferenceIsTold
  BY DEF IInv
<1>1. task'[u] = t /\ \A w \in Users \ {u} : task'[w] = task[w]
  BY <1>0, TaskFacts
<1>3. \A w \in Users : task[w].op \in {"tellRemoved"} \cup Telling \/ task'[w].op \in {"tellRemoved"} \cup Telling
         => task'[w] = task[w]
  BY <1>1 DEF Telling
<1>4. ListsHold'
  BY <1>0, <1>3 DEF ListsHold, Lists, Telling
<1>5. DeletionsHold'
  BY <1>0, <1>3 DEF DeletionsHold, Busy
<1>6. \A x, v \in Users : WillTell(x, v) => WillTell(x, v)'
  BY <1>3 DEF WillTell, Telling
<1>7. \A x, v \in Users : Busy(v, "tellRemoved", x) => Busy(v, "tellRemoved", x)'
  BY <1>3 DEF Busy
<1>8. DifferenceIsTold'
  BY <1>0, <1>6, <1>7 DEF DifferenceIsTold
<1> QED
  BY <1>4, <1>5, <1>8

\* An agreement: the two are friends, and both clients will be told.
LEMMA AgreeStep ==
  ASSUME IInv, NEW u \in Users, NEW v \in Users, u # v, ReplyResolves(u, v, TRUE)
  PROVE  ListsHold' /\ DeletionsHold' /\ DifferenceIsTold'
<1>0. Typed /\ ListsHold /\ DeletionsHold /\ DifferenceIsTold
  BY DEF IInv
<1>1. /\ task[u].op = "idle" /\ task'[u] = [op |-> "readOwn", peer |-> v]
      /\ \A w \in Users \ {u} : task'[w] = task[w]
      /\ friends' = friends \cup {<<u, v>>, <<v, u>>} /\ shown' = shown
      /\ crossed \subseteq crossed'
      /\ Busy(v, "tellRemoved", u) => u \in crossed' /\ v \in crossed'
  BY <1>0, TaskFacts, TaskFields DEF ReplyResolves, Takes, Becomes, Crosses
<1>3. ListsHold'
  BY <1>0, <1>1 DEF ListsHold, Lists
<1>4. DeletionsHold'
  <2> SUFFICES ASSUME NEW x \in Users, NEW y \in Users, Busy(y, "tellRemoved", x)', x \notin crossed'
               PROVE  <<x, y>> \notin friends'
    BY DEF DeletionsHold
  <2>1. y # u /\ Busy(y, "tellRemoved", x)
    BY <1>1 DEF Busy
  <2>2. <<x, y>> \notin friends
    BY <1>0, <1>1, <2>1 DEF DeletionsHold
  <2>3. ~(x = u /\ y = v)
    BY <1>1, <2>1
  <2> QED
    BY <1>1, <2>1, <2>2, <2>3
<1>5. \A x, y \in Users : WillTell(x, y) => WillTell(x, y)'
  BY <1>1 DEF WillTell, Telling
<1>6. \A y \in Users : WillTell(u, y)' /\ WillTell(v, y)'
  BY <1>1 DEF WillTell, Telling
<1>7. \A x, y \in Users : Busy(y, "tellRemoved", x) => Busy(y, "tellRemoved", x)'
  BY <1>1 DEF Busy
<1>8. DifferenceIsTold'
  <2> SUFFICES ASSUME NEW x \in Users, NEW y \in Users, x \notin crossed'
               PROVE  /\ y \in shown'[x] /\ <<x, y>> \notin friends' => Busy(y, "tellRemoved", x)'
                      /\ y \notin shown'[x] /\ <<x, y>> \in friends' => WillTell(x, y)'
    BY DEF DifferenceIsTold
  <2>1. x \notin crossed
    BY <1>1
  <2> QED
    BY <1>0, <1>1, <1>5, <1>6, <1>7, <2>1 DEF DifferenceIsTold
<1> QED
  BY <1>3, <1>4, <1>8

\* An answer reads a list.
LEMMA ReadStep ==
  ASSUME IInv, NEW u \in Users, NEW v \in Users, ReplyReadsOwn(u, v) \/ ReplyReadsPeer(u, v)
  PROVE  ListsHold' /\ DeletionsHold' /\ DifferenceIsTold'
<1>0. Typed /\ ListsHold /\ DeletionsHold /\ DifferenceIsTold
  BY DEF IInv
<1>1. /\ \/ task[u].op = "readOwn" /\ task'[u] = [op |-> "tellOwn", peer |-> v, list |-> FriendsOf(u)]
         \/ task[u].op = "readPeer" /\ task'[u] = [op |-> "tellPeer", peer |-> v, list |-> FriendsOf(v)]
      /\ task[u].peer = v
      /\ \A w \in Users \ {u} : task'[w] = task[w]
      /\ UNCHANGED <<friends, shown, crossed>>
  BY <1>0, TaskFacts DEF ReplyReadsOwn, ReplyReadsPeer, Busy, db, history
<1>3. ListsHold'
  BY <1>0, <1>1 DEF ListsHold, Lists, FriendsOf
<1>4. \A x, y \in Users : Busy(y, "tellRemoved", x) <=> Busy(y, "tellRemoved", x)'
  BY <1>1 DEF Busy
<1>5. DeletionsHold'
  BY <1>0, <1>1, <1>4 DEF DeletionsHold
<1>6. ASSUME NEW x \in Users, NEW y \in Users, <<x, y>> \in friends, WillTell(x, y)
      PROVE  WillTell(x, y)'
  <2>1. y \in FriendsOf(x)
    BY <1>6 DEF FriendsOf
  <2> QED
    BY <1>1, <1>6, <2>1 DEF WillTell, Telling
<1>7. DifferenceIsTold'
  BY <1>0, <1>1, <1>4, <1>6 DEF DifferenceIsTold
<1> QED
  BY <1>3, <1>5, <1>7

\* An answer sends the list it has read.
LEMMA TellStep ==
  ASSUME IInv, NEW u \in Users, NEW v \in Users, ReplyTellsOwn(u, v) \/ ReplyTellsPeer(u, v)
  PROVE  ListsHold' /\ DeletionsHold' /\ DifferenceIsTold'
<1>0. Typed /\ ListsHold /\ DeletionsHold /\ DifferenceIsTold
  BY DEF IInv
<1>1. PICK x \in Users :
        /\ \/ task[u].op = "tellOwn" /\ x = u /\ task'[u] = [op |-> "readPeer", peer |-> v]
           \/ task[u].op = "tellPeer" /\ x = v /\ task'[u] = Idle
        /\ shown' = [shown EXCEPT ![x] = @ \cup task[u].list]
        /\ task[u].peer = v
        /\ \A w \in Users \ {u} : task'[w] = task[w]
        /\ UNCHANGED <<friends, crossed>>
  BY <1>0, TaskFacts DEF ReplyTellsOwn, ReplyTellsPeer, Busy, Becomes, Ends, Upserts, db, history
<1>3. shown'[x] = shown[x] \cup task[u].list /\ \A w \in Users \ {x} : shown'[w] = shown[w]
  BY <1>0, <1>1 DEF Typed
<1>4. x \notin crossed => \A z \in Users : z \in task[u].list => <<x, z>> \in friends
  BY <1>0, <1>1 DEF ListsHold, Lists
<1>5. ListsHold'
  BY <1>0, <1>1, TaskFields DEF ListsHold, Lists
<1>6. \A y, z \in Users : Busy(y, "tellRemoved", z) <=> Busy(y, "tellRemoved", z)'
  BY <1>1, TaskFields DEF Busy
<1>7. DeletionsHold'
  BY <1>0, <1>1, <1>6 DEF DeletionsHold
<1>8. ASSUME NEW y \in Users, NEW z \in Users, WillTell(y, z)
      PROVE  WillTell(y, z)' \/ z \in shown'[y]
  BY <1>1, <1>3, <1>8, TaskFields DEF WillTell, Telling
<1>9. DifferenceIsTold'
  <2> SUFFICES ASSUME NEW y \in Users, NEW z \in Users, y \notin crossed
               PROVE  /\ z \in shown'[y] /\ <<y, z>> \notin friends => Busy(z, "tellRemoved", y)'
                      /\ z \notin shown'[y] /\ <<y, z>> \in friends => WillTell(y, z)'
    BY <1>1 DEF DifferenceIsTold
  <2>1. z \in shown'[y] /\ <<y, z>> \notin friends => z \in shown[y]
    BY <1>3, <1>4
  <2>2. shown[y] \subseteq shown'[y]
    BY <1>3
  <2> QED
    BY <1>0, <1>6, <1>8, <2>1, <2>2 DEF DifferenceIsTold
<1> QED
  BY <1>5, <1>7, <1>9

\* A deletion: whatever lists are under way for the two are crossed.
LEMMA RemoveStep ==
  ASSUME IInv, NEW u \in Users, NEW v \in Users, u # v, DeleteRemoves(u, v)
  PROVE  ListsHold' /\ DeletionsHold' /\ DifferenceIsTold'
<1>0. Typed /\ ListsHold /\ DeletionsHold /\ DifferenceIsTold
  BY DEF IInv
<1>1. /\ task[u].op = "remove" /\ task'[u] = [op |-> "tellRemoved", peer |-> v]
      /\ \A w \in Users \ {u} : task'[w] = task[w]
      /\ friends' = friends \ {<<u, v>>, <<v, u>>}
      /\ shown'[u] = shown[u] \ {v} /\ \A w \in Users \ {u} : shown'[w] = shown[w]
      /\ crossed \subseteq crossed'
      /\ ListsUnderWay(u, v) => u \in crossed' /\ v \in crossed'
  <2>1. task' = [task EXCEPT ![u] = [op |-> "tellRemoved", peer |-> v]]
    BY DEF DeleteRemoves, Becomes
  <2>2. shown' = [shown EXCEPT ![u] = @ \ {v}]
    BY DEF DeleteRemoves, TakesOff
  <2>3. shown'[u] = shown[u] \ {v} /\ \A w \in Users \ {u} : shown'[w] = shown[w]
    BY <1>0, <2>2 DEF Typed
  <2>4. /\ task[u].op = "remove" /\ friends' = friends \ {<<u, v>>, <<v, u>>}
        /\ crossed \subseteq crossed'
        /\ ListsUnderWay(u, v) => u \in crossed' /\ v \in crossed'
    BY DEF DeleteRemoves, Busy, Without
  <2> QED
    BY <1>0, <2>1, <2>3, <2>4, TaskFacts
<1>3. ListsHold'
  <2> SUFFICES ASSUME NEW w \in Users, NEW x \in Users, NEW y \in Users, Lists(w, x, y)', x \notin crossed'
               PROVE  <<x, y>> \in friends'
    BY DEF ListsHold
  <2>1. w # u /\ Lists(w, x, y) /\ task[w].op \in Telling /\ x \in {w, task[w].peer}
    BY <1>1 DEF Lists, Telling
  <2>2. x \notin {u, v}
    BY <1>1, <2>1 DEF ListsUnderWay
  <2>3. <<x, y>> \in friends
    BY <1>0, <1>1, <2>1 DEF ListsHold
  <2> QED
    BY <1>1, <2>2, <2>3
<1>4. \A x, y \in Users : Busy(y, "tellRemoved", x) => Busy(y, "tellRemoved", x)'
  BY <1>1 DEF Busy
<1>5. DeletionsHold'
  <2> SUFFICES ASSUME NEW x \in Users, NEW y \in Users, Busy(y, "tellRemoved", x)', x \notin crossed'
               PROVE  <<x, y>> \notin friends'
    BY DEF DeletionsHold
  <2>1. CASE y = u
    <3>1. x = v
      BY <1>1, <2>1 DEF Busy
    <3> QED
      BY <1>1, <2>1, <3>1
  <2>2. CASE y # u
    <3>1. Busy(y, "tellRemoved", x)
      BY <1>1, <2>2 DEF Busy
    <3> QED
      BY <1>0, <1>1, <3>1 DEF DeletionsHold
  <2> QED
    BY <2>1, <2>2
<1>6. \A x, y \in Users : WillTell(x, y) => WillTell(x, y)'
  BY <1>1 DEF WillTell, Telling
<1>7. DifferenceIsTold'
  <2> SUFFICES ASSUME NEW x \in Users, NEW y \in Users, x \notin crossed'
               PROVE  /\ y \in shown'[x] /\ <<x, y>> \notin friends' => Busy(y, "tellRemoved", x)'
                      /\ y \notin shown'[x] /\ <<x, y>> \in friends' => WillTell(x, y)'
    BY DEF DifferenceIsTold
  <2>0. x \notin crossed /\ Busy(u, "tellRemoved", v)'
    BY <1>1 DEF Busy
  <2>1. CASE x = u /\ y = v
    BY <1>1, <2>1
  <2>2. CASE x = v /\ y = u
    BY <1>1, <2>0, <2>2
  <2>3. CASE ~(x = u /\ y = v) /\ ~(x = v /\ y = u)
    <3>1. (<<x, y>> \in friends' <=> <<x, y>> \in friends) /\ (y \in shown'[x] <=> y \in shown[x])
      BY <1>1, <2>3
    <3> QED
      BY <1>0, <1>4, <1>6, <2>0, <3>1 DEF DifferenceIsTold
  <2> QED
    BY <2>1, <2>2, <2>3
<1> QED
  BY <1>3, <1>5, <1>7

\* The other client is told of a deletion.
LEMMA RemovedToldStep ==
  ASSUME IInv, NEW u \in Users, NEW v \in Users, DeleteTells(u, v)
  PROVE  ListsHold' /\ DeletionsHold' /\ DifferenceIsTold'
<1>0. Typed /\ ListsHold /\ DeletionsHold /\ DifferenceIsTold
  BY DEF IInv
<1>1. /\ Busy(u, "tellRemoved", v) /\ task'[u] = Idle
      /\ \A w \in Users \ {u} : task'[w] = task[w]
      /\ shown'[v] = shown[v] \ {u} /\ \A w \in Users \ {v} : shown'[w] = shown[w]
      /\ UNCHANGED <<friends, crossed>>
  <2>1. shown' = [shown EXCEPT ![v] = @ \ {u}]
    BY DEF DeleteTells, TakesOff
  <2>2. shown'[v] = shown[v] \ {u} /\ \A w \in Users \ {v} : shown'[w] = shown[w]
    BY <1>0, <2>1 DEF Typed
  <2> QED
    BY <1>0, <2>2, TaskFacts DEF DeleteTells, Ends, db, history
<1>3. ListsHold'
  BY <1>0, <1>1, TaskFields DEF ListsHold, Lists
<1>4. \A x, y \in Users : Busy(y, "tellRemoved", x)' => Busy(y, "tellRemoved", x)
  BY <1>1, TaskFields DEF Busy
<1>5. DeletionsHold'
  BY <1>0, <1>1, <1>4 DEF DeletionsHold
<1>6. \A x, y \in Users : WillTell(x, y) => WillTell(x, y)'
  BY <1>1 DEF WillTell, Telling, Busy
<1>7. DifferenceIsTold'
  <2> SUFFICES ASSUME NEW x \in Users, NEW y \in Users, x \notin crossed
               PROVE  /\ y \in shown'[x] /\ <<x, y>> \notin friends => Busy(y, "tellRemoved", x)'
                      /\ y \notin shown'[x] /\ <<x, y>> \in friends => WillTell(x, y)'
    BY <1>1 DEF DifferenceIsTold
  <2>1. CASE x = v /\ y = u
    BY <1>0, <1>1, <2>1 DEF DeletionsHold
  <2>2. CASE ~(x = v /\ y = u)
    <3>1. y \in shown'[x] <=> y \in shown[x]
      BY <1>1, <2>2
    <3>2. Busy(y, "tellRemoved", x) => Busy(y, "tellRemoved", x)'
      BY <1>1, <2>2 DEF Busy
    <3> QED
      BY <1>0, <1>6, <3>1, <3>2 DEF DifferenceIsTold
  <2> QED
    BY <2>1, <2>2
<1> QED
  BY <1>3, <1>5, <1>7

\* Lists, deletions and differences, for every step.
LEMMA ToldStep ==
  ASSUME IInv, [Next]_vars
  PROVE  ListsHold' /\ DeletionsHold' /\ DifferenceIsTold'
<1>0. Typed /\ ListsHold /\ DeletionsHold /\ DifferenceIsTold
  BY DEF IInv
<1>1. ASSUME UNCHANGED <<friends, task, shown, crossed>>
      PROVE  ListsHold' /\ DeletionsHold' /\ DifferenceIsTold'
  BY <1>0, <1>1 DEF ListsHold, Lists, DeletionsHold, DifferenceIsTold, Busy, WillTell
<1>2. CASE UNCHANGED vars
  BY <1>1, <1>2 DEF vars, db, history
<1>3. ASSUME NEW u \in Users, NEW v \in Users, u # v, Step(u, v)
      PROVE  ListsHold' /\ DeletionsHold' /\ DifferenceIsTold'
  <2> DEFINE add == [op |-> "add", peer |-> v]
             remove == [op |-> "remove", peer |-> v]
  <2>0. add.op = "add" /\ remove.op = "remove" /\ Idle.op = "idle"
    BY TaskFields
  <2>1. ASSUME NEW t \in {Idle, add, remove}, task' = [task EXCEPT ![u] = t],
               task[u].op \in {"idle", "add", "remove"}, UNCHANGED <<friends, shown, crossed>>
        PROVE  ListsHold' /\ DeletionsHold' /\ DifferenceIsTold'
    BY <2>0, <2>1, PlainStep
  <2>2. CASE AddChecks(u, v)
    BY <2>0, <2>1, <2>2 DEF AddChecks, Takes, Ends, Becomes, db, history
  <2>3. CASE AddCreates(u, v) \/ AddFails(u, v) \/ DeleteFails(u, v)
    BY <2>1, <2>3 DEF AddCreates, AddFails, DeleteFails, Busy, Ends, db, history
  <2>4. CASE ReplyResolves(u, v, FALSE)
    BY <2>0, <2>1, <2>4 DEF ReplyResolves, Takes, Ends
  <2>5. CASE ReplyResolves(u, v, TRUE)
    BY <1>3, <2>5, AgreeStep
  <2>6. CASE ReplyRefused(u, v)
    BY <1>1, <2>6 DEF ReplyRefused, db, history
  <2>7. CASE ReplyReadsOwn(u, v) \/ ReplyReadsPeer(u, v)
    BY <2>7, ReadStep
  <2>8. CASE ReplyTellsOwn(u, v) \/ ReplyTellsPeer(u, v)
    BY <2>8, TellStep
  <2>9. CASE DeleteChecks(u, v) /\ <<u, v>> \in friends
    BY <2>0, <2>1, <2>9 DEF DeleteChecks, Takes, Becomes, db, history
  <2>10. CASE DeleteChecks(u, v) /\ <<u, v>> \notin friends
    <3>1. /\ task' = [task EXCEPT ![u] = Idle] /\ task[u].op = "idle"
          /\ shown' = [shown EXCEPT ![u] = @ \ {v}] /\ UNCHANGED <<friends, crossed>>
      BY <2>0, <2>10 DEF DeleteChecks, Takes, Ends, TakesOff, db, history
    <3>2. \A w \in Users : /\ shown'[w] \subseteq shown[w]
                           /\ \A x \in Users : x \in shown[w] /\ <<w, x>> \in friends => x \in shown'[w]
      BY <1>0, <2>10, <3>1 DEF Typed
    <3> QED
      BY <2>0, <3>1, <3>2, PlainStep
  <2>11. CASE DeleteRemoves(u, v)
    BY <1>3, <2>11, RemoveStep
  <2>12. CASE DeleteTells(u, v)
    BY <2>12, RemovedToldStep
  <2> QED
    BY <1>3, <2>2, <2>3, <2>4, <2>5, <2>6, <2>7, <2>8, <2>9, <2>10, <2>11, <2>12 DEF Step
<1> QED
  BY <1>2, <1>3, PairFacts DEF Next

\* Types.
LEMMA TypedStep ==
  ASSUME IInv, [Next]_vars
  PROVE  Typed'
<1>0. Typed /\ MaxAsk \in Nat
  BY FriendAssumption DEF IInv
<1>1. CASE UNCHANGED vars
  BY <1>0, <1>1 DEF vars, db, history, Typed
<1>2. ASSUME NEW u \in Users, NEW v \in Users, u # v, Step(u, v)
      PROVE  Typed'
  <2> DEFINE TaskOK == /\ task \in [Users -> Task]
                       /\ \A w \in Users : task[w].op # "idle" => task[w].peer # w
  <2>1. TaskOK'
    <3>0. \A w \in Users : FriendsOf(w) \in SUBSET Users
      BY DEF FriendsOf
    <3>1. ASSUME NEW op \in {"add", "remove", "tellRemoved", "readOwn", "readPeer"}, Becomes(u, op, v)
          PROVE  TaskOK'
      <4>1. [op |-> op, peer |-> v] \in Task /\ [op |-> op, peer |-> v].peer # u
        BY <1>2, TaskFields
      <4> QED
        BY <1>0, <3>1, <4>1, TaskFacts DEF Becomes
    <3>2. CASE Ends(u)
      BY <1>0, <3>2, TaskFields, TaskFacts DEF Ends
    <3>3. ASSUME NEW op \in {"tellOwn", "tellPeer"}, NEW w \in Users,
                 task' = [task EXCEPT ![u] = [op |-> op, peer |-> v, list |-> FriendsOf(w)]]
          PROVE  TaskOK'
      <4>1. /\ [op |-> op, peer |-> v, list |-> FriendsOf(w)] \in Task
            /\ [op |-> op, peer |-> v, list |-> FriendsOf(w)].peer # u
        BY <1>2, <3>0, TaskFields
      <4> QED
        BY <1>0, <3>3, <4>1, TaskFacts
    <3>4. CASE UNCHANGED task
      BY <1>0, <3>4 DEF Typed
    <3> QED
      BY <1>2, <3>1, <3>2, <3>3, <3>4 DEF Step, AddChecks, AddCreates, AddFails, ReplyResolves, ReplyRefused,
         ReplyReadsOwn, ReplyTellsOwn, ReplyReadsPeer, ReplyTellsPeer, DeleteChecks, DeleteRemoves,
         DeleteFails, DeleteTells
  <2>2. /\ friends' \subseteq Pairs
        /\ \A x, y \in Users : <<x, y>> \in friends' => <<y, x>> \in friends'
    <3>1. friends' = friends \/ friends' = friends \cup {<<u, v>>, <<v, u>>}
          \/ friends' = friends \ {<<u, v>>, <<v, u>>}
      BY <1>2 DEF Step, AddChecks, AddCreates, AddFails, ReplyResolves, ReplyRefused,
         ReplyReadsOwn, ReplyTellsOwn, ReplyReadsPeer, ReplyTellsPeer, DeleteChecks, DeleteRemoves,
         DeleteFails, DeleteTells, Without, db
    <3> QED
      BY <1>0, <1>2, <3>1, PairFacts DEF Typed
  <2>3. status' \in [Pairs -> {"absent", "pending", "accepted", "rejected"}]
    <3>1. CASE UNCHANGED status
      BY <1>0, <3>1 DEF Typed
    <3>2. CASE AddCreates(u, v)
      BY <1>0, <3>2 DEF AddCreates, Typed
    <3>3. ASSUME NEW agree \in BOOLEAN, status' = Resolved(u, v, agree)
          PROVE  status' \in [Pairs -> {"absent", "pending", "accepted", "rejected"}]
      BY <1>0, <3>3 DEF Resolved, Typed
    <3> QED
      BY <1>2, <3>1, <3>2, <3>3 DEF Step, AddChecks, AddFails, ReplyResolves, ReplyRefused,
         ReplyReadsOwn, ReplyTellsOwn, ReplyReadsPeer, ReplyTellsPeer, DeleteChecks, DeleteRemoves,
         DeleteFails, DeleteTells, db
  <2>4. shown' \in [Users -> SUBSET Users]
    <3>1. CASE UNCHANGED shown
      BY <1>0, <3>1 DEF Typed
    <3>2. CASE TakesOff(u, v) \/ TakesOff(v, u)
      BY <1>0, <3>2 DEF TakesOff, Typed
    <3>3. ASSUME task[u].op \in {"tellOwn", "tellPeer"}, Upserts(u, task[u].list) \/ Upserts(v, task[u].list)
          PROVE  shown' \in [Users -> SUBSET Users]
      <4>1. task[u].list \in SUBSET Users
        BY <1>0, <3>3, TaskFields DEF Typed
      <4> QED
        BY <1>0, <3>3, <4>1 DEF Upserts, Typed
    <3> QED
      BY <1>2, <3>1, <3>2, <3>3 DEF Step, AddChecks, AddCreates, AddFails, ReplyResolves, ReplyRefused,
         ReplyReadsOwn, ReplyTellsOwn, ReplyReadsPeer, ReplyTellsPeer, DeleteChecks, DeleteRemoves,
         DeleteFails, DeleteTells, Busy
  <2>5. asked' \in 0..MaxAsk
    <3>1. asked' = asked \/ (asked < MaxAsk /\ asked' = asked + 1)
      BY <1>2 DEF Step, AddChecks, AddCreates, AddFails, ReplyResolves, ReplyRefused,
         ReplyReadsOwn, ReplyTellsOwn, ReplyReadsPeer, ReplyTellsPeer, DeleteChecks, DeleteRemoves,
         DeleteFails, DeleteTells, Takes
    <3> QED
      BY <1>0, <3>1 DEF Typed
  <2> QED
    BY <2>1, <2>2, <2>3, <2>4, <2>5 DEF Typed
<1> QED
  BY <1>1, <1>2, PairFacts DEF Next

\* Requests that wait between friends.
LEMMA WaitingStep ==
  ASSUME IInv, [Next]_vars
  PROVE  WaitingOnlyIfOvertaken'
<1>0. Typed /\ WaitingOnlyIfOvertaken
  BY DEF IInv
<1>1. CASE UNCHANGED status /\ friends' \subseteq friends /\ overtaken' = overtaken
  BY <1>0, <1>1 DEF WaitingOnlyIfOvertaken, Pending
<1>2. ASSUME NEW u \in Users, NEW v \in Users, u # v, AddCreates(u, v)
      PROVE  WaitingOnlyIfOvertaken'
  BY <1>0, <1>2, PairFacts DEF AddCreates, WaitingOnlyIfOvertaken, Pending, Typed
<1>3. ASSUME NEW u \in Users, NEW v \in Users, u # v, NEW agree \in BOOLEAN, ReplyResolves(u, v, agree)
      PROVE  WaitingOnlyIfOvertaken'
  <2>1. \A p \in Pairs : /\ status'[p] = "pending" => status[p] = "pending" /\ p # <<v, u>>
                         /\ status'[p] = "pending" /\ agree => p # <<u, v>>
    BY <1>0, <1>3 DEF ReplyResolves, Resolved
  <2>2. friends' = (IF agree THEN friends \cup {<<u, v>>, <<v, u>>} ELSE friends) /\ overtaken' = overtaken
    BY <1>3 DEF ReplyResolves
  <2> QED
    BY <1>0, <2>1, <2>2 DEF WaitingOnlyIfOvertaken, Pending
<1>4. ASSUME NEW u \in Users, NEW v \in Users, u # v, Step(u, v)
      PROVE  WaitingOnlyIfOvertaken'
  <2>1. \/ AddCreates(u, v) \/ \E agree \in BOOLEAN : ReplyResolves(u, v, agree)
        \/ UNCHANGED status /\ friends' \subseteq friends /\ overtaken' = overtaken
    BY <1>4 DEF Step, AddChecks, AddFails, ReplyRefused,
       ReplyReadsOwn, ReplyTellsOwn, ReplyReadsPeer, ReplyTellsPeer, DeleteChecks, DeleteRemoves,
       DeleteFails, DeleteTells, Without, db, history
  <2> QED
    BY <1>1, <1>2, <1>3, <1>4, <2>1
<1>5. CASE UNCHANGED vars
  BY <1>1, <1>5 DEF vars, db, history
<1> QED
  BY <1>4, <1>5, PairFacts DEF Next

-----------------------------------------------------------------------------

\* The inductive invariant.
LEMMA IInvInvariant == Spec => []IInv
<1>1. IInv /\ [Next]_vars => IInv'
  BY TypedStep, WaitingStep, ToldStep DEF IInv
<1> QED
  BY InitIInv, <1>1, PTL DEF Spec

\* Between friends no request waits in either direction, except one that an
\* onAddFriend created on what it had read before (createFriendRequest and
\* resolveFriendRequest).
THEOREM FriendsWaitingOnlyIfOvertaken == Spec => []WaitingOnlyIfOvertaken
<1>1. IInv => WaitingOnlyIfOvertaken
  BY DEF IInv
<1> QED
  BY IInvInvariant, <1>1, PTL

\* t_friend always holds both directions of a pair or neither, and when every
\* handler is done each client shows exactly its user's friends, unless a deletion
\* and an acceptance crossed (onAddFriendReply and onDeleteFriend).
THEOREM FriendsListsAgree == Spec => []ListsAgree
<1>1. IInv => ListsAgree
  <2> SUFFICES ASSUME IInv PROVE ListsAgree
    OBVIOUS
  <2>0. Typed /\ DifferenceIsTold
    BY DEF IInv
  <2>1. TypeOK
    <3>1. Mirror(friends) = friends
      BY <2>0, MirrorFacts DEF Typed
    <3>2. \A u \in Users : \/ task[u] = Idle
                           \/ /\ task[u].op \in {"add", "remove", "tellRemoved"} \cup Telling
                              /\ task[u].peer \in Users \ {u}
      BY <2>0, TaskFields DEF Typed
    <3> QED
      BY <2>0, <3>1, <3>2 DEF Typed, TypeOK
  <2>2. ASSUME Quiet, NEW u \in Users \ crossed
        PROVE  shown[u] = FriendsOf(u)
    <3>1. \A w \in Users : task[w].op = "idle"
      BY <2>2, TaskFields DEF Quiet
    <3>2. \A v \in Users : ~Busy(v, "tellRemoved", u) /\ ~WillTell(u, v)
      BY <3>1 DEF Busy, WillTell, Telling
    <3>3. \A v \in Users : v \in shown[u] <=> <<u, v>> \in friends
      BY <2>0, <3>2 DEF DifferenceIsTold
    <3>4. shown[u] \subseteq Users
      BY <2>0 DEF Typed
    <3> QED
      BY <3>3, <3>4 DEF FriendsOf
  <2> QED
    BY <2>1, <2>2 DEF ListsAgree
<1> QED
  BY IInvInvariant, <1>1, PTL
=============================================================================
