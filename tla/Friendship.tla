----------------------------- MODULE Friendship -----------------------------
(***************************************************************************)
(* Friends of im_server: handlers/FriendHandler.cpp and the t_friend and   *)
(* friend_requests tables of Database.cpp.                                 *)
(*                                                                         *)
(* Every user has one connection, on a business strand of its own: the     *)
(* requests of one user are handled one after the other, those of two      *)
(* users in parallel.  Each read of the database and each write (one       *)
(* transaction of the write queue) is a step of its own, so that what a    *)
(* handler read may be stale when it acts on it.                           *)
(*                                                                         *)
(* A client shows the friends the server told it of (upsertFriend and      *)
(* DeleteFriendResult of MainViewModel.kt); a connection delivers in       *)
(* order, so shown changes when the server sends.                          *)
(*                                                                         *)
(* Abstractions: users are found by nick, so AddFriend names the user; the *)
(* fields of a friend other than who it is, times, and pushes that only    *)
(* cause a refresh are left out.                                           *)
(***************************************************************************)
EXTENDS Naturals, FiniteSets

CONSTANTS
  Users,
  Seed,      \* pairs of the t_friend table when the run begins
  MaxAsk     \* bound: requests of the clients

Pairs == {p \in Users \X Users : p[1] # p[2]}

Mirror(S) == {<<p[2], p[1]>> : p \in S}

ASSUME FriendAssumption ==
  /\ Seed \subseteq Pairs /\ Mirror(Seed) = Seed
  /\ MaxAsk \in Nat

VARIABLES
  friends,   \* t_friend: pairs <<idA, idB>>
  status,    \* friend_requests: status of the request <<requester, target>>
  task,      \* task[u]: what the strand of u's connection is doing
  shown,     \* shown[u]: the friends u's client shows
  asked,     \* requests of clients so far
  overtaken, \* history: requests created between users who were friends by then
  crossed    \* history: users whose deletion and acceptance overlapped

db == <<friends, status>>
history == <<overtaken, crossed>>
vars == <<db, task, shown, asked, history>>

Idle == [op |-> "idle"]

FriendsOf(u) == {v \in Users : <<u, v>> \in friends}

Init ==
  /\ friends = Seed
  /\ status = [p \in Pairs |-> "absent"]
  /\ task = [u \in Users |-> Idle]
  /\ shown = [u \in Users |-> {v \in Users : <<u, v>> \in Seed}]
  /\ asked = 0
  /\ overtaken = {} /\ crossed = {}

Busy(u, op, v) == task[u].op = op /\ task[u].peer = v

Becomes(u, op, v) == task' = [task EXCEPT ![u] = [op |-> op, peer |-> v]]

Ends(u) == task' = [task EXCEPT ![u] = Idle]

(* The client of u gets FRIEND_INFO (upsertFriend), or that v is gone.     *)
Upserts(u, list) == shown' = [shown EXCEPT ![u] = @ \cup list]

TakesOff(u, v) == shown' = [shown EXCEPT ![u] = @ \ {v}]

(* The next request of u's client is taken from the strand.                *)
Takes(u) ==
  /\ task[u] = Idle
  /\ asked < MaxAsk
  /\ asked' = asked + 1

-----------------------------------------------------------------------------
(* onAddFriend.                                                            *)

AddChecks(u, v) ==
  /\ Takes(u)
  /\ IF <<u, v>> \in friends THEN Ends(u) ELSE Becomes(u, "add", v)
  /\ UNCHANGED <<db, shown, history>>

(* createFriendRequest: a new row, or the old row pending again.           *)
AddCreates(u, v) ==
  /\ Busy(u, "add", v)
  /\ status' = [status EXCEPT ![<<u, v>>] = "pending"]
  /\ overtaken' = IF <<u, v>> \in friends THEN overtaken \cup {<<u, v>>} ELSE overtaken
  /\ Ends(u)
  /\ UNCHANGED <<friends, shown, asked, crossed>>

(* The insertion fails: ADD_FRIEND_DB_ERROR.                               *)
AddFails(u, v) ==
  /\ Busy(u, "add", v)
  /\ Ends(u)
  /\ UNCHANGED <<db, shown, asked, history>>

-----------------------------------------------------------------------------
(* onAddFriendReply: u answers the request of v.                           *)

(* Mutant of the next: the other direction is left alone.                  *)
ResolvedOneWay(u, v, agree) ==
  [status EXCEPT ![<<v, u>>] = IF agree THEN "accepted" ELSE "rejected"]

(* resolveFriendRequest, one transaction: only a pending request counts,   *)
(* and an agreement settles a pending request in the other direction too.  *)
Resolved(u, v, agree) ==
  [p \in Pairs |->
     IF p = <<v, u>> THEN IF agree THEN "accepted" ELSE "rejected"
     ELSE IF p = <<u, v>> /\ agree /\ status[p] = "pending" THEN "accepted"
     ELSE status[p]]

(* v has removed u and not yet told u's client.                            *)
Crosses(u, v) == Busy(v, "tellRemoved", u)

ReplyResolves(u, v, agree) ==
  /\ Takes(u)
  /\ status[<<v, u>>] = "pending"
  /\ status' = Resolved(u, v, agree)
  /\ friends' = IF agree THEN friends \cup {<<u, v>>, <<v, u>>} ELSE friends
  /\ IF agree THEN Becomes(u, "readOwn", v) ELSE Ends(u)
  /\ crossed' = IF agree /\ Crosses(u, v) THEN crossed \cup {u, v} ELSE crossed
  /\ UNCHANGED <<shown, overtaken>>

(* No pending request, or the transaction fails and is rolled back.        *)
ReplyRefused(u, v) ==
  /\ Takes(u)
  /\ UNCHANGED <<db, task, shown, history>>

(* getFriends(u), then one FRIEND_INFO per friend to u.                    *)
ReplyReadsOwn(u, v) ==
  /\ Busy(u, "readOwn", v)
  /\ task' = [task EXCEPT ![u] = [op |-> "tellOwn", peer |-> v, list |-> FriendsOf(u)]]
  /\ UNCHANGED <<db, shown, asked, history>>

ReplyTellsOwn(u, v) ==
  /\ Busy(u, "tellOwn", v)
  /\ Upserts(u, task[u].list)
  /\ Becomes(u, "readPeer", v)
  /\ UNCHANGED <<db, asked, history>>

(* The same for the requester.                                             *)
ReplyReadsPeer(u, v) ==
  /\ Busy(u, "readPeer", v)
  /\ task' = [task EXCEPT ![u] = [op |-> "tellPeer", peer |-> v, list |-> FriendsOf(v)]]
  /\ UNCHANGED <<db, shown, asked, history>>

ReplyTellsPeer(u, v) ==
  /\ Busy(u, "tellPeer", v)
  /\ Upserts(v, task[u].list)
  /\ Ends(u)
  /\ UNCHANGED <<db, asked, history>>

-----------------------------------------------------------------------------
(* onDeleteFriend.                                                         *)

(* isFriend; DELETE_FRIEND_NOT_FRIEND takes v off the client's list.       *)
DeleteChecks(u, v) ==
  /\ Takes(u)
  /\ IF <<u, v>> \in friends
     THEN Becomes(u, "remove", v) /\ UNCHANGED shown
     ELSE Ends(u) /\ TakesOff(u, v)
  /\ UNCHANGED <<db, history>>

(* removeFriendBidirectional deletes both rows in one transaction.         *)
Without(u, v) == friends \ {<<u, v>>, <<v, u>>}

Telling == {"readOwn", "tellOwn", "readPeer", "tellPeer"}

(* Any user's answer that is about to list u's or v's friends.             *)
ListsUnderWay(u, v) ==
  \E w \in Users : task[w].op \in Telling /\ {w, task[w].peer} \cap {u, v} # {}

DeleteRemoves(u, v) ==
  /\ Busy(u, "remove", v)
  /\ friends' = Without(u, v)
  /\ TakesOff(u, v)
  /\ Becomes(u, "tellRemoved", v)
  /\ crossed' = IF ListsUnderWay(u, v) THEN crossed \cup {u, v} ELSE crossed
  /\ UNCHANGED <<status, asked, overtaken>>

DeleteFails(u, v) ==
  /\ Busy(u, "remove", v)
  /\ Ends(u)
  /\ UNCHANGED <<db, shown, asked, history>>

(* Mutant of the next: the other client is not told.                       *)
DeleteTellsNobody(u, v) ==
  /\ Busy(u, "tellRemoved", v)
  /\ Ends(u)
  /\ UNCHANGED <<db, shown, asked, history>>

(* The other client is told to take u off its list.                        *)
DeleteTells(u, v) ==
  /\ Busy(u, "tellRemoved", v)
  /\ TakesOff(v, u)
  /\ Ends(u)
  /\ UNCHANGED <<db, asked, history>>

-----------------------------------------------------------------------------
Step(u, v) ==
  \/ AddChecks(u, v) \/ AddCreates(u, v) \/ AddFails(u, v)
  \/ \E agree \in BOOLEAN : ReplyResolves(u, v, agree)
  \/ ReplyRefused(u, v)
  \/ ReplyReadsOwn(u, v) \/ ReplyTellsOwn(u, v)
  \/ ReplyReadsPeer(u, v) \/ ReplyTellsPeer(u, v)
  \/ DeleteChecks(u, v) \/ DeleteRemoves(u, v) \/ DeleteFails(u, v) \/ DeleteTells(u, v)

Next == \E p \in Pairs : Step(p[1], p[2])

Spec == Init /\ [][Next]_vars

-----------------------------------------------------------------------------
(* Properties.                                                             *)

(* The state has its type, and t_friend holds both directions of a pair or *)
(* neither, as the transactions of Database.cpp intend.                    *)
TypeOK ==
  /\ friends \subseteq Pairs /\ Mirror(friends) = friends
  /\ status \in [Pairs -> {"absent", "pending", "accepted", "rejected"}]
  /\ \A u \in Users : \/ task[u] = Idle
                      \/ /\ task[u].op \in {"add", "remove", "tellRemoved"} \cup Telling
                         /\ task[u].peer \in Users \ {u}
  /\ shown \in [Users -> SUBSET Users]
  /\ asked \in 0..MaxAsk

(* pendingFriendRequests: what the client lists as waiting.                *)
Pending == {p \in Pairs : status[p] = "pending"}

(* resolveFriendRequest ("after accepting either, the other must not show  *)
(* as waiting either"): between friends no request waits, in either        *)
(* direction, except one created after they had become friends by an       *)
(* onAddFriend that had looked before.                                     *)
WaitingOnlyIfOvertaken == Pending \cap friends \subseteq overtaken

Quiet == \A u \in Users : task[u] = Idle

(* onAddFriendReply, onDeleteFriend: when every handler is done, a client  *)
(* shows exactly its user's friends, unless a deletion overlapped an       *)
(* answer that lists the friends of one of the two; the table of friends   *)
(* is symmetric throughout.                                                *)
ListsAgree ==
  /\ TypeOK
  /\ Quiet => \A u \in Users \ crossed : shown[u] = FriendsOf(u)

=============================================================================
