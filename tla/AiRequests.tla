----------------------------- MODULE AiRequests -----------------------------
(***************************************************************************)
(* AI reply suggestions of im_server: ai/AiRequestLimiter.cpp and          *)
(* handlers/AiHandler.cpp.                                                 *)
(*                                                                         *)
(* onReply runs on the business strand of its connection: it asks the      *)
(* limiter (mutex_), then registers the request (m_cancelMutex) and posts a*)
(* task to the threads of m_workers.  onCancel runs on the strand of any   *)
(* connection of the user.  A task looks at the cancel marks,              *)
(* reads the history, finds its connection again through a weak pointer,   *)
(* calls the model, looks at the marks again, answers, and its FinishGuard *)
(* removes the marks and then frees the user's slot.                       *)
(*                                                                         *)
(* Abstractions: requests are numbered in the order the limiter admits     *)
(* them, and requests[n] keeps what the task captured.  The text of a      *)
(* request, the context and the suggestions are left out: an outcome is    *)
(* "result" (OK or an upstream error), "refused" (nothing to work on) or   *)
(* none.  The checks before tryAcquire change no state but a counter for   *)
(* the log; they are the parameter-free refusal of an ill-formed call.     *)
(* The clock counts units of which Minute and ReplayWindow are lengths.    *)
(***************************************************************************)
EXTENDS Naturals, Sequences, FiniteSets

CONSTANTS
  Users, Ids,       \* users and the request ids their clients choose
  Sessions,         \* connections
  Owner,            \* [Sessions -> Users]: who is logged in when the run begins
  None,             \* no user: the connection is gone
  Workers,          \* threads of m_workers (2)
  PerMinute,        \* rateLimitPerMinute
  MaxPending,       \* maxPendingRequests
  Minute,           \* the rate limit's window
  ReplayWindow,     \* replayWindowSeconds
  MaxTime,          \* bound: the clock
  MaxRequests,      \* bound: requests the limiter admits
  MaxMoves          \* bound: connections that end or change their user

ASSUME AiAssumption ==
  /\ None \notin Users /\ Owner \in [Sessions -> Users]
  /\ {Workers, PerMinute, MaxPending, Minute, ReplayWindow} \subseteq Nat \ {0}
  /\ {MaxTime, MaxRequests, MaxMoves} \subseteq Nat

VARIABLES
  now,        \* the clock
  inFlight,   \* inFlightUsers_
  recent,     \* recentRequests_: per user, the times of admitted requests
  seen,       \* seenIds_: per user, pairs <<request id, time>>
  active,     \* m_activeRequests: keys <<user, request id>>
  cancelled,  \* m_cancelledRequests
  requests,   \* what the tasks captured, and where each task is
  pool,       \* the queue of m_workers
  bound,      \* user of each connection, None once it is destroyed
  moves       \* connections ended or changed so far

limiter == <<inFlight, recent, seen>>
marks == <<active, cancelled>>
vars == <<now, limiter, marks, requests, pool, bound, moves>>

Key(n) == <<requests[n].user, requests[n].id>>

(* Where a request is: admitted by the limiter, registered and posted; then*)
(* the task, until its guard has erased the marks and freed the slot.      *)
OnWorker == {"started", "model", "checked", "ended", "erased"}
Pcs == {"admitted", "posted"} \cup OnWorker \cup {"done"}

Init ==
  /\ now = 0
  /\ inFlight = {}
  /\ recent = [u \in Users |-> <<>>]
  /\ seen = [u \in Users |-> {}]
  /\ active = {} /\ cancelled = {}
  /\ requests = <<>>
  /\ pool = <<>>
  /\ bound = Owner
  /\ moves = 0

(* The strand of a connection is busy while onReply is between its steps.  *)
StrandFree(s) ==
  \A n \in DOMAIN requests : requests[n].pc = "admitted" => requests[n].session # s

Moves(n, pc) == requests' = [requests EXCEPT ![n].pc = pc]

-----------------------------------------------------------------------------
(* The limiter.                                                            *)

(* Mutant: an id is forgotten at the last instant of its window.           *)
UnexpiredShort(u) == {e \in seen[u] : now < e[2] + ReplayWindow}

Unexpired(u) == {e \in seen[u] : ~(e[2] + ReplayWindow < now)}

(* The front of recentRequests_ is popped while it is older than a minute. *)
Old(t) == t + Minute < now

FirstKept(u) ==
  CHOOSE i \in 1..(Len(recent[u]) + 1) :
    /\ \A j \in 1..(i - 1) : Old(recent[u][j])
    /\ i <= Len(recent[u]) => ~Old(recent[u][i])

Recent(u) == SubSeq(recent[u], FirstKept(u), Len(recent[u]))

Duplicate(u, id) == \E e \in Unexpired(u) : e[1] = id

Full(u) == u \in inFlight \/ Cardinality(inFlight) >= MaxPending

RateFree(u) == Len(Recent(u)) < PerMinute

(* tryAcquire answers Accepted, first step of an admitted onReply.         *)
ReplyAdmitted(s, id) ==
  LET u == bound[s] IN
  /\ u # None /\ StrandFree(s)
  /\ Len(requests) < MaxRequests
  /\ ~Duplicate(u, id) /\ ~Full(u) /\ RateFree(u)
  /\ recent' = [recent EXCEPT ![u] = Append(Recent(u), now)]
  /\ seen' = [seen EXCEPT ![u] = Unexpired(u) \cup {<<id, now>>}]
  /\ inFlight' = inFlight \cup {u}
  /\ requests' = Append(requests, [user |-> u, id |-> id, session |-> s, at |-> now,
                                   pc |-> "admitted", outcome |-> "none", calledOff |-> FALSE,
                                   moved |-> FALSE])
  /\ UNCHANGED <<now, marks, pool, bound, moves>>

(* tryAcquire answers Duplicate, Busy or QueueFull: only seenIds_ has been *)
(* pruned; or RateLimited: recentRequests_ too.                            *)
ReplyRefused(s, id) ==
  LET u == bound[s] IN
  /\ u # None /\ StrandFree(s)
  /\ seen' = [seen EXCEPT ![u] = Unexpired(u)]
  /\ \/ /\ Duplicate(u, id) \/ Full(u)
        /\ UNCHANGED recent
     \/ /\ ~Duplicate(u, id) /\ ~Full(u) /\ ~RateFree(u)
        /\ recent' = [recent EXCEPT ![u] = Recent(u)]
  /\ UNCHANGED <<now, inFlight, marks, requests, pool, bound, moves>>

-----------------------------------------------------------------------------
(* The rest of onReply, and onCancel.                                      *)

(* Under m_cancelMutex, then the task is posted, which nothing but the     *)
(* pool can see.                                                           *)
Register(n) ==
  /\ requests[n].pc = "admitted"
  /\ active' = active \cup {Key(n)}
  /\ pool' = Append(pool, n)
  /\ Moves(n, "posted")
  /\ UNCHANGED <<now, limiter, cancelled, bound, moves>>

(* onCancel: the mark is taken only for a registered request.  calledOff   *)
(* remembers the cancels that come before the model has answered.          *)
CancelMarks(k) ==
  /\ cancelled' = cancelled \cup {k}
  /\ requests' = [n \in DOMAIN requests |->
       IF Key(n) = k /\ requests[n].pc \in {"posted", "started", "model"}
       THEN [requests[n] EXCEPT !.calledOff = TRUE] ELSE requests[n]]

Cancel(s, id) ==
  /\ bound[s] # None /\ StrandFree(s)
  /\ <<bound[s], id>> \in active
  /\ CancelMarks(<<bound[s], id>>)
  /\ UNCHANGED <<now, limiter, active, pool, bound, moves>>

-----------------------------------------------------------------------------
(* The task.                                                               *)

Running == {n \in DOMAIN requests : requests[n].pc \in OnWorker}

(* A free thread takes the oldest task and looks at the cancel marks.      *)
Start ==
  /\ pool # <<>> /\ Cardinality(Running) < Workers
  /\ pool' = Tail(pool)
  /\ Moves(Head(pool), IF Key(Head(pool)) \in cancelled THEN "ended" ELSE "started")
  /\ UNCHANGED <<now, limiter, marks, bound, moves>>

(* weakSession.lock() succeeds and the connection is still the user's.     *)
StillThere(n) == bound[requests[n].session] = requests[n].user

(* roamMessages and buildReplyContext; without text there is nothing to do.*)
ReadContext(n) ==
  /\ requests[n].pc = "started"
  /\ \/ ~StillThere(n) /\ Moves(n, "ended")
     \/ StillThere(n) /\ Moves(n, "model")
     \/ /\ StillThere(n)
        /\ requests' = [requests EXCEPT ![n].pc = "ended", ![n].outcome = "refused"]
  /\ UNCHANGED <<now, limiter, marks, pool, bound, moves>>

(* Mutant: the marks are not looked at after the model call.               *)
NoSecondCheck(n) ==
  /\ requests[n].pc = "model"
  /\ Moves(n, "checked")
  /\ UNCHANGED <<now, limiter, marks, pool, bound, moves>>

(* generateReplySuggestions, an HTTPS call with a time limit, has returned,*)
(* and the marks are looked at again.                                      *)
CheckAgain(n) ==
  /\ requests[n].pc = "model"
  /\ Moves(n, IF Key(n) \in cancelled THEN "ended" ELSE "checked")
  /\ UNCHANGED <<now, limiter, marks, pool, bound, moves>>

Answer(n) ==
  /\ requests[n].pc = "checked"
  /\ requests' = [requests EXCEPT ![n].pc = "ended",
                    ![n].outcome = IF StillThere(n) THEN "result" ELSE @]
  /\ UNCHANGED <<now, limiter, marks, pool, bound, moves>>

(* finishRequest(userId, requestId), the guard's destructor: the marks     *)
(* under m_cancelMutex, then release() under the limiter's.                *)
(* Mutant: the cancel mark stays.                                          *)
EraseActiveOnly(n) ==
  /\ requests[n].pc = "ended"
  /\ active' = active \ {Key(n)}
  /\ Moves(n, "erased")
  /\ UNCHANGED <<now, limiter, cancelled, pool, bound, moves>>

EraseMarks(n) ==
  /\ requests[n].pc = "ended"
  /\ active' = active \ {Key(n)}
  /\ cancelled' = cancelled \ {Key(n)}
  /\ Moves(n, "erased")
  /\ UNCHANGED <<now, limiter, pool, bound, moves>>

(* Mutant: the slot is not freed.                                          *)
KeepSlot(n) ==
  /\ requests[n].pc = "erased"
  /\ Moves(n, "done")
  /\ UNCHANGED <<now, limiter, marks, pool, bound, moves>>

Release(n) ==
  /\ requests[n].pc = "erased"
  /\ inFlight' = inFlight \ {requests[n].user}
  /\ Moves(n, "done")
  /\ UNCHANGED <<now, recent, seen, marks, pool, bound, moves>>

-----------------------------------------------------------------------------
(* The world: time passes, connections end, a connection logs in again.    *)
(* moved remembers the requests whose connection ended or changed its user.*)

Tick ==
  /\ now < MaxTime
  /\ now' = now + 1
  /\ UNCHANGED <<limiter, marks, requests, pool, bound, moves>>

Rebinds(s, user) ==
  /\ bound' = [bound EXCEPT ![s] = user]
  /\ requests' = [n \in DOMAIN requests |->
                    [requests[n] EXCEPT !.moved = @ \/ requests[n].session = s]]
  /\ moves < MaxMoves
  /\ moves' = moves + 1

Leave(s) ==
  /\ bound[s] # None /\ StrandFree(s)
  /\ Rebinds(s, None)
  /\ UNCHANGED <<now, limiter, marks, pool>>

LoginAs(s, u) ==
  /\ bound[s] \notin {None, u} /\ StrandFree(s)
  /\ Rebinds(s, u)
  /\ UNCHANGED <<now, limiter, marks, pool>>

TaskStep(n) ==
  \/ ReadContext(n) \/ CheckAgain(n) \/ Answer(n)
  \/ EraseMarks(n) \/ Release(n)

Next ==
  \/ \E s \in Sessions, id \in Ids :
       ReplyAdmitted(s, id) \/ ReplyRefused(s, id) \/ Cancel(s, id)
  \/ \E n \in DOMAIN requests : Register(n)
  \/ Start
  \/ \E n \in DOMAIN requests : TaskStep(n)
  \/ Tick
  \/ \E s \in Sessions : Leave(s)
  \/ \E s \in Sessions, u \in Users : LoginAs(s, u)

Spec == Init /\ [][Next]_vars

(* A strand runs what is posted to it, the pool's threads run, and the     *)
(* model call has a time limit: each of these steps is taken in the end.   *)
Fairness ==
  /\ WF_vars(\E n \in DOMAIN requests : Register(n))
  /\ WF_vars(Start)
  /\ \A n \in 1..MaxRequests : WF_vars(n \in DOMAIN requests /\ TaskStep(n))

FairSpec == Spec /\ Fairness

-----------------------------------------------------------------------------
(* Properties.                                                             *)

Request == [user : Users, id : Ids, session : Sessions, at : 0..MaxTime, pc : Pcs,
            outcome : {"none", "refused", "result"}, calledOff : BOOLEAN, moved : BOOLEAN]

Unfinished == {n \in DOMAIN requests : requests[n].pc # "done"}

(* The state has its type, and the limiter keeps at most perMinute_ times  *)
(* per user.                                                               *)
TypeOK ==
  /\ now \in 0..MaxTime
  /\ inFlight \subseteq Users
  /\ recent \in [Users -> Seq(0..MaxTime)]
  /\ \A u \in Users : Len(recent[u]) <= PerMinute
  /\ seen \in [Users -> SUBSET (Ids \X (0..MaxTime))]
  /\ active \subseteq Users \X Ids /\ cancelled \subseteq Users \X Ids
  /\ requests \in Seq(Request)
  /\ pool \in Seq(DOMAIN requests)
  /\ bound \in [Sessions -> Users \cup {None}]
  /\ moves \in 0..MaxMoves

(* The limiter, onReply, onCancel and finishRequest keep their books       *)
(* however strands, tasks and guards interleave: the users in flight are   *)
(* exactly those with an unfinished request, one each and at most          *)
(* maxPending_; every request between its registration and its guard can   *)
(* be cancelled; and no mark outlives its request, to fall on a later one  *)
(* with the same id.  (With the types.)                                    *)
BooksMatchRequests ==
  /\ TypeOK
  /\ inFlight = {requests[n].user : n \in Unfinished}
  /\ \A m, n \in Unfinished : requests[m].user = requests[n].user => m = n
  /\ Cardinality(Unfinished) <= MaxPending
  /\ active = {Key(n) : n \in {m \in Unfinished : requests[m].pc \notin {"admitted", "erased"}}}
  /\ cancelled \subseteq active

(* tryAcquire: over every window of a minute that ends now, a user has had *)
(* at most perMinute_ requests admitted, and an id a user has used is not  *)
(* admitted again within the replay window, whatever was pruned in between.*)
WindowsHold ==
  /\ \A u \in Users :
       Cardinality({n \in DOMAIN requests :
                      requests[n].user = u /\ requests[n].at + Minute >= now}) <= PerMinute
  /\ \A m, n \in DOMAIN requests :
       m < n /\ Key(m) = Key(n) => requests[m].at + ReplayWindow < requests[n].at

(* onReply's task: a request cancelled before its task looked at the marks *)
(* for the second time never shows the model's answer, and one that ended  *)
(* without an answer was cancelled before, or its connection ended or      *)
(* changed its user after the limiter had let the request in.              *)
SilentIffCalledOff ==
  \A n \in DOMAIN requests :
    /\ requests[n].calledOff => requests[n].outcome # "result"
    /\ requests[n].pc \in {"erased", "done"} /\ requests[n].outcome = "none"
         => requests[n].calledOff \/ requests[n].moved

(* FinishGuard: a user who is in flight can ask again in the end.          *)
UserIsServed == \A u \in Users : u \in inFlight ~> u \notin inFlight

=============================================================================
