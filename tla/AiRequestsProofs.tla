-------------------------- MODULE AiRequestsProofs --------------------------
(***************************************************************************)
(* Proofs about AiRequests for any users, connections and request ids, any *)
(* limits and windows, and any number of requests, workers and moves.      *)
(***************************************************************************)
EXTENDS AiRequests, FiniteSetTheorems, SequenceTheorems, WellFoundedInduction, TLAPS

\* A request whose key is among m_activeRequests, and one onCancel can still stop.
Marked == {"posted", "started", "model", "checked", "ended"}
Open == {"posted", "started", "model"}
Ended == {"ended", "erased", "done"}

\* The limiter's users in flight and the unfinished requests, one for one.
Slots ==
  /\ \A n \in DOMAIN requests : requests[n].pc # "done" => requests[n].user \in inFlight
  /\ \A u \in inFlight : \E n \in DOMAIN requests :
       requests[n].pc # "done" /\ requests[n].user = u
  /\ \A m, n \in DOMAIN requests :
       requests[m].pc # "done" /\ requests[n].pc # "done"
         /\ requests[m].user = requests[n].user => m = n
  /\ IsFiniteSet(inFlight) /\ Cardinality(inFlight) <= MaxPending

\* The keys of m_activeRequests and the requests between registration and guard.
Keys ==
  /\ \A n \in DOMAIN requests : requests[n].pc \in Marked => Key(n) \in active
  /\ \A k \in active : \E n \in DOMAIN requests : requests[n].pc \in Marked /\ Key(n) = k
  /\ cancelled \subseteq active

\* A queued task has been posted and not started, and is queued once.
Queued ==
  /\ \A i \in 1..Len(pool) : requests[pool[i]].pc = "posted"
  /\ \A i, j \in 1..Len(pool) : pool[i] = pool[j] => i = j

\* A request that can still be stopped is marked exactly when it was called off.
SilentAt(n) ==
  /\ requests[n].pc \in Open => (requests[n].calledOff <=> Key(n) \in cancelled)
  /\ requests[n].pc \in {"admitted", "checked"} => ~requests[n].calledOff
  /\ requests[n].pc \notin Ended => requests[n].outcome = "none"
  /\ requests[n].calledOff => requests[n].outcome # "result"
  /\ requests[n].pc \in Ended /\ requests[n].outcome = "none"
       => requests[n].calledOff \/ requests[n].moved
  /\ ~requests[n].moved => StillThere(n)

CalledOff == \A n \in DOMAIN requests : SilentAt(n)

\* f finds, for each time the limiter keeps of user u, the request it belongs to, and
\* misses none that is still in the window.
Counts(u, f) ==
  /\ \A i \in 1..Len(recent[u]) : requests[f[i]].at = recent[u][i]
  /\ \A n \in DOMAIN requests : requests[n].user = u /\ ~Old(requests[n].at) =>
       \E i \in 1..Len(recent[u]) : f[i] = n

\* Every request the limiter let in is among the times and ids it keeps, as long as the
\* windows ask for it.
Remembered ==
  /\ \A u \in Users : \E f \in [1..Len(recent[u]) -> DOMAIN requests] : Counts(u, f)
  /\ \A n \in DOMAIN requests :
       \/ <<requests[n].id, requests[n].at>> \in seen[requests[n].user]
       \/ requests[n].at + ReplayWindow < now
  /\ \A m, n \in DOMAIN requests :
       m < n /\ Key(m) = Key(n) => requests[m].at + ReplayWindow < requests[n].at

IInv == TypeOK /\ Slots /\ Keys /\ Queued /\ CalledOff /\ Remembered

-----------------------------------------------------------------------------
(* Steps, seen from the requests.                                          *)

\* A step of request n alone: it goes to a new place and may get an outcome.
Turns(n, to, out) ==
  /\ n \in DOMAIN requests
  /\ requests' \in Seq(Request) /\ DOMAIN requests' = DOMAIN requests
  /\ \A m \in DOMAIN requests : m # n => requests'[m] = requests[m]
  /\ requests'[n].user = requests[n].user /\ requests'[n].id = requests[n].id
  /\ requests'[n].session = requests[n].session /\ requests'[n].at = requests[n].at
  /\ requests'[n].calledOff = requests[n].calledOff
  /\ requests'[n].moved = requests[n].moved
  /\ requests'[n].pc = to /\ requests'[n].outcome = out

\* What the requests are.
LEMMA RequestFacts ==
  ASSUME TypeOK
  PROVE  /\ requests \in Seq(Request) /\ Len(requests) \in Nat
         /\ DOMAIN requests = 1..Len(requests)
         /\ \A n \in DOMAIN requests :
              /\ requests[n] \in Request
              /\ requests[n].user \in Users /\ requests[n].id \in Ids
              /\ requests[n].session \in Sessions /\ requests[n].at \in 0..MaxTime
              /\ requests[n].pc \in Pcs /\ requests[n].calledOff \in BOOLEAN
              /\ requests[n].outcome \in {"none", "refused", "result"}
              /\ requests[n].moved \in BOOLEAN
<1>1. requests \in Seq(Request)
  BY DEF TypeOK
<1>2. Len(requests) \in Nat /\ DOMAIN requests = 1..Len(requests)
  BY <1>1, LenProperties
<1>3. \A n \in DOMAIN requests : requests[n] \in Request
  BY <1>1, <1>2, ElementOfSeq
<1> QED
  BY <1>1, <1>2, <1>3 DEF Request

\* The step of one request, from the assignment.
LEMMA TurnsFacts ==
  ASSUME TypeOK, NEW n \in DOMAIN requests, NEW to \in Pcs,
         NEW out \in {"none", "refused", "result"},
         requests' = [requests EXCEPT ![n] = [requests[n] EXCEPT !.pc = to, !.outcome = out]]
  PROVE  Turns(n, to, out)
<1> DEFINE r == [requests[n] EXCEPT !.pc = to, !.outcome = out]
<1>1. requests[n] \in Request
  BY RequestFacts
<1>2. r \in Request
  BY <1>1 DEF Request
<1>3. /\ r.user = requests[n].user /\ r.id = requests[n].id
      /\ r.session = requests[n].session /\ r.at = requests[n].at
      /\ r.calledOff = requests[n].calledOff /\ r.moved = requests[n].moved
      /\ r.pc = to /\ r.outcome = out
  BY <1>1 DEF Request
<1> HIDE DEF r
<1>4. requests' = [requests EXCEPT ![n] = r]
  BY DEF r
<1>5. /\ requests \in Seq(Request) /\ n \in 1..Len(requests)
      /\ DOMAIN requests = 1..Len(requests)
  BY RequestFacts
<1>6. /\ requests' \in Seq(Request) /\ Len(requests') = Len(requests)
      /\ \A m \in 1..Len(requests) : requests'[m] = IF m = n THEN r ELSE requests[m]
  BY <1>2, <1>4, <1>5, ExceptSeq
<1>7. DOMAIN requests' = 1..Len(requests)
  BY <1>6, LenProperties
<1>8. requests'[n] = r
  BY <1>5, <1>6
<1> QED
  BY <1>3, <1>5, <1>6, <1>7, <1>8 DEF Turns

\* Moves is a step of one request.
LEMMA MovesFacts ==
  ASSUME TypeOK, NEW n \in DOMAIN requests, NEW to \in Pcs, Moves(n, to)
  PROVE  Turns(n, to, requests[n].outcome)
<1>1. /\ requests[n] \in Request /\ requests[n].outcome \in {"none", "refused", "result"}
  BY RequestFacts
<1>2. [requests[n] EXCEPT !.pc = to]
        = [requests[n] EXCEPT !.pc = to, !.outcome = requests[n].outcome]
  BY <1>1 DEF Request
<1>3. requests' = [requests EXCEPT ![n] = [requests[n] EXCEPT !.pc = to]]
  BY DEF Moves
<1> QED
  BY <1>1, <1>2, <1>3, TurnsFacts

\* A step after which every request is still who it was.
Kept ==
  /\ requests' \in Seq(Request) /\ DOMAIN requests' = DOMAIN requests
  /\ \A m \in DOMAIN requests :
       /\ requests'[m].user = requests[m].user /\ requests'[m].id = requests[m].id
       /\ requests'[m].session = requests[m].session /\ requests'[m].at = requests[m].at
       /\ Key(m)' = Key(m)

\* A step that moves no request on, though it may leave a history mark on some.
Relabels ==
  /\ Kept
  /\ \A m \in DOMAIN requests : /\ requests'[m].pc = requests[m].pc
                                /\ requests'[m].outcome = requests[m].outcome

\* A step of one request keeps who they are.
LEMMA TurnsKeeps ==
  ASSUME NEW n, NEW to, NEW out, Turns(n, to, out)
  PROVE  Kept
<1>1. \A m \in DOMAIN requests :
        /\ requests'[m].user = requests[m].user /\ requests'[m].id = requests[m].id
        /\ requests'[m].session = requests[m].session /\ requests'[m].at = requests[m].at
  BY DEF Turns
<1> QED
  BY <1>1 DEF Turns, Kept, Key

\* onCancel moves no request on.
LEMMA CancelFacts ==
  ASSUME TypeOK, NEW k, CancelMarks(k)
  PROVE  /\ Relabels
         /\ \A m \in DOMAIN requests :
              /\ requests'[m].moved = requests[m].moved
              /\ requests'[m].calledOff =
                   IF Key(m) = k /\ requests[m].pc \in Open THEN TRUE
                   ELSE requests[m].calledOff
<1> DEFINE r(m) == IF Key(m) = k /\ requests[m].pc \in {"posted", "started", "model"}
                   THEN [requests[m] EXCEPT !.calledOff = TRUE] ELSE requests[m]
           N == Len(requests)
<1>0. /\ N \in Nat /\ DOMAIN requests = 1..N
      /\ \A m \in 1..N : requests[m] \in Request
  BY RequestFacts
<1>1. requests' = [m \in 1..N |-> r(m)]
  BY <1>0 DEF CancelMarks
<1>2. ASSUME NEW m \in 1..N
      PROVE  /\ r(m) \in Request
             /\ r(m).user = requests[m].user /\ r(m).id = requests[m].id
             /\ r(m).session = requests[m].session /\ r(m).at = requests[m].at
             /\ r(m).pc = requests[m].pc /\ r(m).outcome = requests[m].outcome
             /\ r(m).moved = requests[m].moved
             /\ r(m).calledOff = IF Key(m) = k /\ requests[m].pc \in Open THEN TRUE
                                 ELSE requests[m].calledOff
  <2>1. requests[m] \in Request
    BY <1>0
  <2> QED
    BY <2>1 DEF Request, Open
<1> HIDE DEF r, N
<1>3. requests' \in [1..N -> Request]
  BY <1>1, <1>2
<1>4. requests' \in Seq(Request) /\ DOMAIN requests' = DOMAIN requests
  BY <1>0, <1>3, SeqDef
<1>5. \A m \in DOMAIN requests : requests'[m] = r(m)
  BY <1>0, <1>1
<1>6. \A m \in DOMAIN requests : Key(m)' = Key(m)
  BY <1>0, <1>2, <1>5 DEF Key
<1> QED
  BY <1>0, <1>2, <1>4, <1>5, <1>6 DEF Relabels, Kept

\* A connection that ends or changes its user moves no request on.
LEMMA RebindsFacts ==
  ASSUME TypeOK, NEW s \in Sessions, NEW user \in Users \cup {None}, Rebinds(s, user)
  PROVE  /\ Relabels
         /\ \A m \in DOMAIN requests :
              /\ requests'[m].calledOff = requests[m].calledOff
              /\ requests'[m].moved = (requests[m].moved \/ requests[m].session = s)
         /\ bound' \in [Sessions -> Users \cup {None}] /\ moves' \in 0..MaxMoves
         /\ \A t \in Sessions : t # s => bound'[t] = bound[t]
<1> DEFINE r(m) == [requests[m] EXCEPT !.moved = @ \/ requests[m].session = s]
           N == Len(requests)
<1>0. /\ N \in Nat /\ DOMAIN requests = 1..N
      /\ \A m \in 1..N : requests[m] \in Request
  BY RequestFacts
<1>1. requests' = [m \in 1..N |-> r(m)]
  BY <1>0 DEF Rebinds
<1>2. ASSUME NEW m \in 1..N
      PROVE  /\ r(m) \in Request
             /\ r(m).user = requests[m].user /\ r(m).id = requests[m].id
             /\ r(m).session = requests[m].session /\ r(m).at = requests[m].at
             /\ r(m).pc = requests[m].pc /\ r(m).outcome = requests[m].outcome
             /\ r(m).calledOff = requests[m].calledOff
             /\ r(m).moved = (requests[m].moved \/ requests[m].session = s)
  <2>1. requests[m] \in Request
    BY <1>0
  <2> QED
    BY <2>1 DEF Request
<1> HIDE DEF r, N
<1>3. requests' \in [1..N -> Request]
  BY <1>1, <1>2
<1>4. requests' \in Seq(Request) /\ DOMAIN requests' = DOMAIN requests
  BY <1>0, <1>3, SeqDef
<1>5. \A m \in DOMAIN requests : requests'[m] = r(m)
  BY <1>0, <1>1
<1>6. \A m \in DOMAIN requests : Key(m)' = Key(m)
  BY <1>0, <1>2, <1>5 DEF Key
<1>7. /\ bound' = [bound EXCEPT ![s] = user] /\ moves' = moves + 1 /\ moves < MaxMoves
      /\ bound \in [Sessions -> Users \cup {None}] /\ moves \in 0..MaxMoves
      /\ MaxMoves \in Nat
  BY AiAssumption DEF Rebinds, TypeOK
<1>8. /\ bound' \in [Sessions -> Users \cup {None}] /\ moves' \in 0..MaxMoves
      /\ \A t \in Sessions : t # s => bound'[t] = bound[t]
  BY <1>7
<1> QED
  BY <1>0, <1>2, <1>4, <1>5, <1>6, <1>8 DEF Relabels, Kept

\* The steps of a task and its registration, each a step of one request.
LEMMA TaskFacts ==
  ASSUME TypeOK, NEW n \in DOMAIN requests
  PROVE  /\ Register(n) => Turns(n, "posted", requests[n].outcome)
         /\ ReadContext(n) => \/ ~StillThere(n) /\ Turns(n, "ended", requests[n].outcome)
                              \/ Turns(n, "model", requests[n].outcome)
                              \/ Turns(n, "ended", "refused")
         /\ CheckAgain(n) => Turns(n, IF Key(n) \in cancelled THEN "ended" ELSE "checked",
                                   requests[n].outcome)
         /\ Answer(n) => Turns(n, "ended", IF StillThere(n) THEN "result"
                                           ELSE requests[n].outcome)
         /\ EraseMarks(n) => Turns(n, "erased", requests[n].outcome)
         /\ Release(n) => Turns(n, "done", requests[n].outcome)
<1>0. /\ {"admitted", "posted", "started", "model", "checked", "ended", "erased", "done"} = Pcs
      /\ requests[n] \in Request
      /\ requests[n].outcome \in {"none", "refused", "result"}
      /\ requests \in Seq(Request) /\ n \in DOMAIN requests
  BY RequestFacts DEF Pcs, OnWorker
<1>1. \A to \in Pcs : Moves(n, to) => Turns(n, to, requests[n].outcome)
  BY MovesFacts
<1>2. \A to \in Pcs, out \in {"none", "refused", "result"} :
        requests' = [requests EXCEPT ![n] = [requests[n] EXCEPT !.pc = to, !.outcome = out]]
          => Turns(n, to, out)
  BY TurnsFacts
<1>3. Register(n) => Moves(n, "posted")
  BY DEF Register
<1>4. CheckAgain(n) => Moves(n, IF Key(n) \in cancelled THEN "ended" ELSE "checked")
  BY DEF CheckAgain
<1>5. EraseMarks(n) => Moves(n, "erased")
  BY DEF EraseMarks
<1>6. Release(n) => Moves(n, "done")
  BY DEF Release
<1>7. ReadContext(n) => \/ ~StillThere(n) /\ Moves(n, "ended")
                        \/ Moves(n, "model")
                        \/ requests' = [requests EXCEPT ![n] =
                             [requests[n] EXCEPT !.pc = "ended", !.outcome = "refused"]]
  <2>1. [requests EXCEPT ![n].pc = "ended", ![n].outcome = "refused"] =
          [requests EXCEPT ![n] = [requests[n] EXCEPT !.pc = "ended", !.outcome = "refused"]]
    BY <1>0
  <2> QED
    BY <2>1 DEF ReadContext
<1>8. ASSUME NEW out
      PROVE  [requests EXCEPT ![n].pc = "ended", ![n].outcome = out] =
               [requests EXCEPT ![n] = [requests[n] EXCEPT !.pc = "ended", !.outcome = out]]
  BY <1>0
<1>9. Answer(n) => requests' = [requests EXCEPT ![n] =
        [requests[n] EXCEPT !.pc = "ended",
           !.outcome = IF StillThere(n) THEN "result" ELSE requests[n].outcome]]
  <2>1. [requests EXCEPT ![n].pc = "ended",
           ![n].outcome = IF StillThere(n) THEN "result" ELSE @] =
        [requests EXCEPT ![n].pc = "ended",
           ![n].outcome = IF StillThere(n) THEN "result" ELSE requests[n].outcome]
    BY <1>0 DEF Request
  <2> QED
    BY <2>1, <1>8 DEF Answer
<1>10. Answer(n) => Turns(n, "ended", IF StillThere(n) THEN "result" ELSE requests[n].outcome)
  <2>1. CASE StillThere(n)
    BY <1>0, <1>2, <1>9, <2>1
  <2>2. CASE ~StillThere(n)
    BY <1>0, <1>2, <1>9, <2>2
  <2> QED
    BY <2>1, <2>2
<1>11. ReadContext(n) => \/ ~StillThere(n) /\ Turns(n, "ended", requests[n].outcome)
                         \/ Turns(n, "model", requests[n].outcome)
                         \/ Turns(n, "ended", "refused")
  BY <1>0, <1>1, <1>2, <1>7
<1>12. CheckAgain(n) => Turns(n, IF Key(n) \in cancelled THEN "ended" ELSE "checked",
                              requests[n].outcome)
  BY <1>0, <1>1, <1>4
<1> QED
  BY <1>0, <1>1, <1>3, <1>5, <1>6, <1>10, <1>11, <1>12

\* The task a worker starts is posted, and the rest of the queue stays.
LEMMA StartFacts ==
  ASSUME TypeOK, Queued, Start
  PROVE  /\ pool[1] \in DOMAIN requests /\ requests[pool[1]].pc = "posted"
         /\ Turns(pool[1], IF Key(pool[1]) \in cancelled THEN "ended" ELSE "started",
                  requests[pool[1]].outcome)
         /\ pool' \in Seq(DOMAIN requests) /\ Len(pool) \in Nat /\ Len(pool') = Len(pool) - 1
         /\ \A i \in 1..Len(pool') : /\ i + 1 \in 1..Len(pool) /\ pool'[i] = pool[i + 1]
                                     /\ pool[i + 1] # pool[1]
<1>1. /\ pool \in Seq(DOMAIN requests) /\ pool # <<>> /\ pool' = Tail(pool)
      /\ Moves(Head(pool), IF Key(Head(pool)) \in cancelled THEN "ended" ELSE "started")
  BY DEF Start, TypeOK
<1>2. /\ Len(pool) \in Nat \ {0} /\ Head(pool) = pool[1] /\ pool[1] \in DOMAIN requests
  BY <1>1, EmptySeq, ElementOfSeq
<1>3. /\ pool' \in Seq(DOMAIN requests) /\ Len(pool') = Len(pool) - 1
      /\ \A i \in 1..Len(pool') : pool'[i] = pool[i + 1]
  BY <1>1, HeadTailProperties
<1>4. \A i \in 1..Len(pool') : i + 1 \in 1..Len(pool) /\ i + 1 # 1 /\ 1 \in 1..Len(pool)
  BY <1>2, <1>3
<1>5. requests[pool[1]].pc = "posted" /\ \A i \in 1..Len(pool') : pool[i + 1] # pool[1]
  BY <1>2, <1>4 DEF Queued
<1>6. (IF Key(pool[1]) \in cancelled THEN "ended" ELSE "started") \in Pcs
  BY DEF Pcs, OnWorker
<1>7. Turns(pool[1], IF Key(pool[1]) \in cancelled THEN "ended" ELSE "started",
            requests[pool[1]].outcome)
  BY <1>1, <1>2, <1>6, MovesFacts
<1> QED
  BY <1>2, <1>3, <1>4, <1>5, <1>7

\* What tryAcquire leaves of a user's times: it pops old ones only, from the front.
LEMMA PrunedFacts ==
  ASSUME TypeOK, NEW u \in Users
  PROVE  \E k \in 1..(Len(recent[u]) + 1) :
           /\ \A j \in 1..(k - 1) : Old(recent[u][j])
           /\ Recent(u) \in Seq(0..MaxTime)
           /\ Len(recent[u]) \in Nat /\ Len(Recent(u)) = Len(recent[u]) - k + 1
           /\ \A i \in 1..Len(Recent(u)) : Recent(u)[i] = recent[u][k + i - 1]
<1> DEFINE N == Len(recent[u])
           S == {i \in 1..(N + 1) : i <= N => ~Old(recent[u][i])}
           R == {p \in Nat \X Nat : p[1] < p[2]}
<1>1. recent[u] \in Seq(0..MaxTime)
  BY DEF TypeOK
<1>2. N \in Nat /\ \A i \in 1..N : recent[u][i] \in 0..MaxTime
  BY <1>1, LenProperties, ElementOfSeq
<1> HIDE DEF N
<1>3. N + 1 \in S /\ S \subseteq Nat
  BY <1>2
<1>4. R = OpToRel(<, Nat)
  BY DEF OpToRel
<1> HIDE DEF R
<1>5. IsWellFoundedOn(R, Nat)
  BY <1>4, NatLessThanWellFounded, Zenon
<1> HIDE DEF S
<1>6. PICK k \in S : \A i \in S : ~(<<i, k>> \in R)
  BY <1>3, <1>5, WFMin
<1>7. k \in 1..(N + 1) /\ (k <= N => ~Old(recent[u][k]))
  BY DEF S
<1>8. ASSUME NEW j \in 1..(k - 1)
      PROVE  Old(recent[u][j])
  <2>1. j \in Nat /\ k \in Nat /\ j < k /\ j \in 1..(N + 1) /\ j <= N
    BY <1>2, <1>7
  <2>2. <<j, k>> \in R
    BY <2>1 DEF R
  <2>3. j \notin S
    BY <1>6, <2>2
  <2> QED
    BY <2>1, <2>3 DEF S
<1> DEFINE F(i) == /\ \A j \in 1..(i - 1) : Old(recent[u][j])
                   /\ i <= N => ~Old(recent[u][i])
<1>9. \E i \in 1..(N + 1) : F(i)
  BY <1>7, <1>8
<1>10. FirstKept(u) = CHOOSE i \in 1..(N + 1) : F(i)
  BY DEF FirstKept, N
<1>11. FirstKept(u) \in 1..(N + 1) /\ \A j \in 1..(FirstKept(u) - 1) : Old(recent[u][j])
  BY <1>9, <1>10
<1> HIDE DEF F
<1>12. PICK f \in 1..(N + 1) : f = FirstKept(u)
  BY <1>11
<1>13. /\ f \in Int /\ N \in Int /\ \A i \in f..N : recent[u][i] \in 0..MaxTime
  BY <1>2, <1>12
<1>14. Recent(u) = SubSeq(recent[u], f, N)
  BY <1>12 DEF Recent, N
<1>15. /\ Recent(u) \in Seq(0..MaxTime)
       /\ Len(Recent(u)) = IF f <= N THEN N - f + 1 ELSE 0
       /\ \A i \in 1..(N - f + 1) : Recent(u)[i] = recent[u][f + i - 1]
  BY <1>13, <1>14, SubSeqProperties
<1>16. Len(Recent(u)) = N - f + 1
  BY <1>2, <1>12, <1>15
<1>17. \A j \in 1..(f - 1) : Old(recent[u][j])
  BY <1>11, <1>12
<1>18. /\ f \in 1..(N + 1) /\ \A j \in 1..(f - 1) : Old(recent[u][j])
       /\ Recent(u) \in Seq(0..MaxTime)
       /\ N \in Nat /\ Len(Recent(u)) = N - f + 1
       /\ \A i \in 1..Len(Recent(u)) : Recent(u)[i] = recent[u][f + i - 1]
  BY <1>2, <1>12, <1>15, <1>16, <1>17
<1> QED
  BY <1>18 DEF N

\* A request the limiter lets in is the newest, and nothing else about the requests changes.
LEMMA AdmitFacts ==
  ASSUME TypeOK, NEW s \in Sessions, NEW id \in Ids, ReplyAdmitted(s, id)
  PROVE  /\ bound[s] \in Users /\ Len(requests) \in Nat
         /\ requests' \in Seq(Request)
         /\ DOMAIN requests = 1..Len(requests) /\ DOMAIN requests' = 1..(Len(requests) + 1)
         /\ \A n \in DOMAIN requests : requests'[n] = requests[n] /\ Key(n)' = Key(n)
         /\ LET r == requests'[Len(requests) + 1] IN
              /\ r.user = bound[s] /\ r.id = id /\ r.session = s /\ r.at = now
              /\ r.pc = "admitted" /\ r.outcome = "none" /\ ~r.calledOff /\ ~r.moved
         /\ \A n : n = Len(requests) + 1 => Key(n)' = <<bound[s], id>>
         /\ UNCHANGED <<now, active, cancelled, pool, bound, moves>>
         /\ inFlight' = inFlight \cup {bound[s]}
         /\ ~Full(bound[s]) /\ ~Duplicate(bound[s], id) /\ RateFree(bound[s])
<1> DEFINE e == [user |-> bound[s], id |-> id, session |-> s, at |-> now, pc |-> "admitted",
                 outcome |-> "none", calledOff |-> FALSE, moved |-> FALSE]
           N == Len(requests)
<1>1. /\ bound[s] \in Users /\ now \in 0..MaxTime
  BY DEF ReplyAdmitted, TypeOK
<1>2. e \in Request
  BY <1>1 DEF Request, Pcs
<1>3. requests' = Append(requests, e)
  BY Zenon DEF ReplyAdmitted
<1>4. /\ e.user = bound[s] /\ e.id = id /\ e.session = s /\ e.at = now
      /\ e.pc = "admitted" /\ e.outcome = "none" /\ ~e.calledOff /\ ~e.moved
  OBVIOUS
<1> HIDE DEF e
<1>5. requests \in Seq(Request) /\ N \in Nat /\ DOMAIN requests = 1..N
  BY RequestFacts
<1>6. /\ requests' \in Seq(Request) /\ Len(requests') = N + 1
      /\ \A n \in 1..N : requests'[n] = requests[n]
      /\ requests'[N + 1] = e
  BY <1>2, <1>3, <1>5, AppendProperties
<1>7. DOMAIN requests' = 1..(N + 1)
  BY <1>6, LenProperties
<1>8. \A n \in DOMAIN requests : Key(n)' = Key(n)
  BY <1>5, <1>6 DEF Key
<1>9. \A n : n = N + 1 => Key(n)' = <<bound[s], id>>
  BY <1>4, <1>6 DEF Key
<1>10. UNCHANGED <<now, active, cancelled, pool, bound, moves>>
  BY DEF ReplyAdmitted, marks
<1>11. inFlight' = inFlight \cup {bound[s]}
       /\ ~Full(bound[s]) /\ ~Duplicate(bound[s], id) /\ RateFree(bound[s])
  BY DEF ReplyAdmitted
<1> QED
  BY <1>1, <1>4, <1>5, <1>6, <1>7, <1>8, <1>9, <1>10, <1>11

-----------------------------------------------------------------------------
(* The inductive invariant.                                                *)

\* At the start nothing is in flight, remembered or queued.
LEMMA InitIInv == Init => IInv
<1> SUFFICES ASSUME Init PROVE IInv
  OBVIOUS
<1>1. /\ requests = <<>> /\ DOMAIN requests = {} /\ pool = <<>> /\ Len(pool) = 0
      /\ inFlight = {} /\ active = {} /\ cancelled = {} /\ now = 0
  BY DEF Init
<1>2. /\ requests \in Seq(Request) /\ pool \in Seq(DOMAIN requests)
      /\ <<>> \in Seq(0..MaxTime) /\ Len(<<>>) = 0
  BY <1>1, EmptySeq
<1>3. \A u \in Users : recent[u] = <<>> /\ seen[u] = {}
  BY DEF Init
<1>4. PerMinute \in Nat /\ MaxTime \in Nat /\ MaxMoves \in Nat /\ MaxPending \in Nat
  BY AiAssumption
<1>5. TypeOK
  <2>1. /\ recent \in [Users -> Seq(0..MaxTime)]
        /\ seen \in [Users -> SUBSET (Ids \X (0..MaxTime))]
    BY <1>2 DEF Init
  <2>2. bound \in [Sessions -> Users \cup {None}] /\ moves \in 0..MaxMoves
    BY <1>4, AiAssumption DEF Init
  <2>3. \A u \in Users : Len(recent[u]) <= PerMinute
    BY <1>2, <1>3, <1>4
  <2> QED
    BY <1>1, <1>2, <1>4, <2>1, <2>2, <2>3 DEF TypeOK
<1>6. Slots
  BY <1>1, <1>4, FS_EmptySet DEF Slots
<1>7. Keys /\ Queued /\ CalledOff
  BY <1>1 DEF Keys, Queued, CalledOff
<1>8. Remembered
  <2>1. ASSUME NEW u \in Users
        PROVE  \E f \in [1..Len(recent[u]) -> DOMAIN requests] : Counts(u, f)
    <3>1. Len(recent[u]) = 0 /\ 1..0 = {}
      BY <1>2, <1>3
    <3>2. <<>> \in [1..Len(recent[u]) -> DOMAIN requests]
      BY <3>1
    <3>3. Counts(u, <<>>)
      BY <1>1, <3>1 DEF Counts
    <3> QED
      BY <3>2, <3>3
  <2> QED
    BY <1>1, <2>1 DEF Remembered
<1> QED
  BY <1>5, <1>6, <1>7, <1>8 DEF IInv

\* The pool after a task is posted.
LEMMA RegisterFacts ==
  ASSUME TypeOK, NEW n \in DOMAIN requests, Register(n)
  PROVE  /\ requests[n].pc = "admitted" /\ active' = active \cup {Key(n)}
         /\ UNCHANGED <<now, inFlight, recent, seen, cancelled, bound, moves>>
         /\ pool' \in Seq(DOMAIN requests) /\ Len(pool) \in Nat /\ Len(pool') = Len(pool) + 1
         /\ \A i \in 1..Len(pool) : pool'[i] = pool[i]
         /\ pool'[Len(pool) + 1] = n
<1>1. /\ pool \in Seq(DOMAIN requests) /\ pool' = Append(pool, n)
  BY DEF TypeOK, Register
<1>2. /\ pool' \in Seq(DOMAIN requests) /\ Len(pool) \in Nat /\ Len(pool') = Len(pool) + 1
      /\ \A i \in 1..Len(pool) : pool'[i] = pool[i]
      /\ pool'[Len(pool) + 1] = n
  BY <1>1, AppendProperties, LenProperties
<1> QED
  BY <1>2 DEF Register, limiter

\* The limiter's own state keeps its type.
LEMMA LimiterTypeStep ==
  ASSUME TypeOK, [Next]_vars
  PROVE  /\ recent' \in [Users -> Seq(0..MaxTime)]
         /\ \A u \in Users : Len(recent'[u]) <= PerMinute
         /\ seen' \in [Users -> SUBSET (Ids \X (0..MaxTime))]
         /\ now' \in 0..MaxTime /\ inFlight' \subseteq Users
<1>0. /\ recent \in [Users -> Seq(0..MaxTime)]
      /\ \A u \in Users : Len(recent[u]) <= PerMinute
      /\ seen \in [Users -> SUBSET (Ids \X (0..MaxTime))]
      /\ now \in 0..MaxTime /\ inFlight \subseteq Users /\ PerMinute \in Nat /\ MaxTime \in Nat
  BY AiAssumption DEF TypeOK
<1>1. CASE UNCHANGED <<recent, seen, now, inFlight>>
  BY <1>0, <1>1
<1>2. ASSUME NEW s \in Sessions, NEW id \in Ids, ReplyAdmitted(s, id)
      PROVE  /\ recent' \in [Users -> Seq(0..MaxTime)]
             /\ \A u \in Users : Len(recent'[u]) <= PerMinute
             /\ seen' \in [Users -> SUBSET (Ids \X (0..MaxTime))]
             /\ now' = now /\ inFlight' \subseteq Users
  <2>1. PICK b \in Users : b = bound[s]
    BY <1>2, AdmitFacts
  <2>2. /\ recent' = [recent EXCEPT ![b] = Append(Recent(b), now)]
        /\ seen' = [seen EXCEPT ![b] = Unexpired(b) \cup {<<id, now>>}]
        /\ inFlight' = inFlight \cup {b} /\ now' = now /\ Len(Recent(b)) < PerMinute
    BY <1>2, <2>1 DEF ReplyAdmitted, RateFree
  <2>3. Recent(b) \in Seq(0..MaxTime)
    BY PrunedFacts
  <2>4. /\ Append(Recent(b), now) \in Seq(0..MaxTime)
        /\ Len(Append(Recent(b), now)) = Len(Recent(b)) + 1 /\ Len(Recent(b)) \in Nat
    BY <1>0, <2>3, AppendProperties, LenProperties
  <2>5. Unexpired(b) \cup {<<id, now>>} \in SUBSET (Ids \X (0..MaxTime))
    BY <1>0 DEF Unexpired
  <2>6. /\ recent' \in [Users -> Seq(0..MaxTime)]
        /\ \A u \in Users : recent'[u] = IF u = b THEN Append(Recent(b), now) ELSE recent[u]
    BY <1>0, <2>2, <2>4
  <2>7. \A u \in Users : Len(recent'[u]) <= PerMinute
    BY <1>0, <2>2, <2>4, <2>6
  <2> QED
    BY <1>0, <2>2, <2>5, <2>6, <2>7
<1>3. ASSUME NEW s \in Sessions, NEW id \in Ids, ReplyRefused(s, id)
      PROVE  /\ recent' \in [Users -> Seq(0..MaxTime)]
             /\ \A u \in Users : Len(recent'[u]) <= PerMinute
             /\ seen' \in [Users -> SUBSET (Ids \X (0..MaxTime))]
             /\ UNCHANGED <<now, inFlight>>
  <2>1. PICK b \in Users : b = bound[s]
    BY <1>3 DEF ReplyRefused, TypeOK
  <2>2. /\ seen' = [seen EXCEPT ![b] = Unexpired(b)] /\ UNCHANGED <<now, inFlight>>
        /\ recent' = recent \/ recent' = [recent EXCEPT ![b] = Recent(b)]
    BY <1>3, <2>1 DEF ReplyRefused
  <2>3. Recent(b) \in Seq(0..MaxTime) /\ Len(Recent(b)) <= Len(recent[b])
        /\ Len(recent[b]) \in Nat /\ Len(Recent(b)) \in Nat
    <3>1. PICK k \in 1..(Len(recent[b]) + 1) :
            /\ Recent(b) \in Seq(0..MaxTime) /\ Len(recent[b]) \in Nat
            /\ Len(Recent(b)) = Len(recent[b]) - k + 1
      BY PrunedFacts
    <3> QED
      BY <3>1
  <2>4. Unexpired(b) \in SUBSET (Ids \X (0..MaxTime))
    BY <1>0 DEF Unexpired
  <2>5. /\ recent' \in [Users -> Seq(0..MaxTime)]
        /\ \A u \in Users : recent'[u] = recent[u] \/ (u = b /\ recent'[u] = Recent(b))
    BY <1>0, <2>2, <2>3
  <2>6. \A u \in Users : Len(recent'[u]) <= PerMinute
    <3>1. Len(Recent(b)) <= PerMinute
      BY <1>0, <2>3
    <3> QED
      BY <1>0, <2>5, <3>1
  <2> QED
    BY <1>0, <2>2, <2>4, <2>5, <2>6
<1>4. CASE Tick
  BY <1>0, <1>4 DEF Tick, limiter
<1>5. ASSUME NEW n \in DOMAIN requests, TaskStep(n) \/ Register(n)
      PROVE  UNCHANGED <<recent, seen, now>> /\ inFlight' \subseteq inFlight
  BY <1>5 DEF TaskStep, Register, ReadContext, CheckAgain, Answer, EraseMarks, Release, limiter
<1>6. CASE Start
  BY <1>1, <1>6 DEF Start, limiter
<1>7. ASSUME NEW s \in Sessions, NEW id \in Ids, Cancel(s, id)
      PROVE  UNCHANGED <<recent, seen, now, inFlight>>
  BY <1>7 DEF Cancel, limiter
<1>8. ASSUME NEW s \in Sessions, NEW u \in Users, Leave(s) \/ LoginAs(s, u)
      PROVE  UNCHANGED <<recent, seen, now, inFlight>>
  BY <1>8 DEF Leave, LoginAs, limiter
<1>9. ASSUME NEW s \in Sessions, Leave(s)
      PROVE  UNCHANGED <<recent, seen, now, inFlight>>
  BY <1>9 DEF Leave, limiter
<1>10. CASE UNCHANGED vars
  BY <1>1, <1>10 DEF vars, limiter
<1> QED
  BY <1>0, <1>1, <1>2, <1>3, <1>4, <1>5, <1>6, <1>7, <1>8, <1>9, <1>10 DEF Next

\* Types.
LEMMA TypeStep ==
  ASSUME TypeOK, Queued, [Next]_vars
  PROVE  TypeOK'
<1> DEFINE Marks == active \subseteq Users \X Ids /\ cancelled \subseteq Users \X Ids
           Others == /\ Marks /\ requests \in Seq(Request) /\ pool \in Seq(DOMAIN requests)
                     /\ bound \in [Sessions -> Users \cup {None}] /\ moves \in 0..MaxMoves
<1> SUFFICES Others'
  BY LimiterTypeStep DEF TypeOK
<1>0. Others
  BY DEF TypeOK
<1>k. \A n \in DOMAIN requests : Key(n) \in Users \X Ids
  BY RequestFacts DEF Key
<1>1. CASE UNCHANGED <<active, cancelled, requests, pool, bound, moves>>
  BY <1>0, <1>1
<1>2. ASSUME NEW s \in Sessions, NEW id \in Ids, ReplyAdmitted(s, id)
      PROVE  Others'
  <2>1. /\ requests' \in Seq(Request) /\ Len(requests) \in Nat
        /\ DOMAIN requests = 1..Len(requests) /\ DOMAIN requests' = 1..(Len(requests) + 1)
        /\ UNCHANGED <<active, cancelled, pool, bound, moves>>
    BY <1>2, AdmitFacts
  <2>2. DOMAIN requests \subseteq DOMAIN requests'
    BY <2>1
  <2>3. pool' \in Seq(DOMAIN requests')
    BY <1>0, <2>1, <2>2, SeqMonotonic
  <2> QED
    BY <1>0, <2>1, <2>3
<1>3. ASSUME NEW s \in Sessions, NEW id \in Ids, Cancel(s, id)
      PROVE  Others'
  <2>1. /\ CancelMarks(<<bound[s], id>>) /\ cancelled' = cancelled \cup {<<bound[s], id>>}
        /\ <<bound[s], id>> \in active /\ UNCHANGED <<active, pool, bound, moves>>
    BY <1>3 DEF Cancel, CancelMarks
  <2>2. requests' \in Seq(Request) /\ DOMAIN requests' = DOMAIN requests
    BY <2>1, CancelFacts DEF Relabels, Kept
  <2> QED
    BY <1>0, <2>1, <2>2
<1>4. ASSUME NEW s \in Sessions, NEW user \in Users \cup {None}, Rebinds(s, user),
             UNCHANGED <<active, cancelled, pool>>
      PROVE  Others'
  BY <1>0, <1>4, RebindsFacts DEF Relabels, Kept
<1>5. ASSUME NEW n \in DOMAIN requests, Register(n)
      PROVE  Others'
  <2>1. requests' \in Seq(Request) /\ DOMAIN requests' = DOMAIN requests
    BY <1>5, TaskFacts DEF Turns
  <2> QED
    BY <1>0, <1>k, <1>5, <2>1, RegisterFacts
<1>6. ASSUME NEW n \in DOMAIN requests, TaskStep(n)
      PROVE  Others'
  <2>1. requests' \in Seq(Request) /\ DOMAIN requests' = DOMAIN requests
    BY <1>6, TaskFacts DEF Turns, TaskStep
  <2>2. /\ UNCHANGED <<pool, bound, moves>>
        /\ active' \subseteq active /\ cancelled' \subseteq cancelled
    BY <1>6 DEF TaskStep, ReadContext, CheckAgain, Answer, EraseMarks, Release, marks
  <2> QED
    BY <1>0, <2>1, <2>2
<1>7. CASE Start
  <2>1. /\ requests' \in Seq(Request) /\ DOMAIN requests' = DOMAIN requests
        /\ pool' \in Seq(DOMAIN requests)
    BY <1>7, StartFacts DEF Turns
  <2>2. UNCHANGED <<active, cancelled, bound, moves>>
    BY <1>7 DEF Start, marks
  <2> QED
    BY <1>0, <2>1, <2>2
<1>8. ASSUME NEW s \in Sessions, NEW id \in Ids, ReplyRefused(s, id)
      PROVE  UNCHANGED <<active, cancelled, requests, pool, bound, moves>>
  BY <1>8 DEF ReplyRefused, marks
<1>9. CASE Tick \/ UNCHANGED vars
  BY <1>1, <1>9 DEF Tick, vars, marks
<1>10. ASSUME NEW s \in Sessions, Leave(s)
       PROVE  Others'
  BY <1>4, <1>10 DEF Leave, marks
<1>11. ASSUME NEW s \in Sessions, NEW u \in Users, LoginAs(s, u)
       PROVE  Others'
  BY <1>4, <1>11 DEF LoginAs, marks
<1> HIDE DEF Others
<1> QED
  BY <1>1, <1>2, <1>3, <1>5, <1>6, <1>7, <1>8, <1>9, <1>10, <1>11 DEF Next

\* While no request comes or goes, the slots stay.
LEMMA SlotsKept ==
  ASSUME Slots, Kept, UNCHANGED inFlight,
         \A m \in DOMAIN requests : requests'[m].pc = "done" <=> requests[m].pc = "done"
  PROVE  Slots'
<1>1. /\ DOMAIN requests' = DOMAIN requests
      /\ \A m \in DOMAIN requests : requests'[m].user = requests[m].user
  BY DEF Kept
<1> QED
  BY <1>1 DEF Slots

\* A user is in flight exactly while a request of theirs is unfinished.
LEMMA SlotsStep ==
  ASSUME IInv, [Next]_vars
  PROVE  Slots'
<1>0. TypeOK /\ Slots /\ Queued
  BY DEF IInv
<1>1. CASE UNCHANGED <<inFlight, requests>>
  BY <1>0, <1>1 DEF Slots
<1>2. ASSUME NEW s \in Sessions, NEW id \in Ids, ReplyAdmitted(s, id)
      PROVE  Slots'
  <2> DEFINE N == Len(requests)
  <2>1. PICK b \in Users : b = bound[s]
    BY <1>0, <1>2, AdmitFacts
  <2>2. /\ N \in Nat /\ DOMAIN requests = 1..N /\ DOMAIN requests' = 1..(N + 1)
        /\ \A n \in DOMAIN requests : requests'[n] = requests[n]
        /\ requests'[N + 1].user = b /\ requests'[N + 1].pc = "admitted"
        /\ inFlight' = inFlight \cup {b} /\ b \notin inFlight
        /\ ~(Cardinality(inFlight) >= MaxPending)
    BY <1>0, <1>2, <2>1, AdmitFacts DEF Full
  <2>3. \A n \in 1..(N + 1) : n \in 1..N \/ n = N + 1
    BY <2>2
  <2>4. N + 1 \in 1..(N + 1) /\ N + 1 \notin 1..N /\ 1..N \subseteq 1..(N + 1)
    BY <2>2
  <2> HIDE DEF N
  <2>5. /\ IsFiniteSet(inFlight) /\ Cardinality(inFlight) \in Nat /\ MaxPending \in Nat
    BY <1>0, FS_CardinalityType, AiAssumption DEF Slots
  <2>6. IsFiniteSet(inFlight') /\ Cardinality(inFlight') <= MaxPending
    <3>1. /\ IsFiniteSet(inFlight \cup {b})
          /\ Cardinality(inFlight \cup {b}) = Cardinality(inFlight) + 1
      BY <2>2, <2>5, FS_AddElement
    <3> QED
      BY <2>2, <2>5, <3>1
  <2>7. \A n \in DOMAIN requests' : requests'[n].pc # "done" => requests'[n].user \in inFlight'
    BY <1>0, <2>2, <2>3 DEF Slots
  <2>8. \A u \in inFlight' : \E n \in DOMAIN requests' :
          requests'[n].pc # "done" /\ requests'[n].user = u
    <3>1. ASSUME NEW u \in inFlight'
          PROVE  \E n \in DOMAIN requests' : requests'[n].pc # "done" /\ requests'[n].user = u
      <4>1. CASE u = b
        BY <2>2, <2>4, <4>1
      <4>2. CASE u \in inFlight
        BY <1>0, <2>2, <2>4, <4>2 DEF Slots
      <4> QED
        BY <2>2, <4>1, <4>2
    <3> QED
      BY <3>1
  <2>9. \A n \in DOMAIN requests : requests[n].pc # "done" => requests[n].user # b
    BY <1>0, <2>2 DEF Slots
  <2>10. \A m, n \in DOMAIN requests' :
           requests'[m].pc # "done" /\ requests'[n].pc # "done"
             /\ requests'[m].user = requests'[n].user => m = n
    BY <1>0, <2>2, <2>3, <2>9 DEF Slots
  <2> QED
    BY <2>6, <2>7, <2>8, <2>10 DEF Slots
<1>3. ASSUME NEW s \in Sessions, NEW id \in Ids, Cancel(s, id)
      PROVE  Slots'
  <2>1. Kept /\ \A m \in DOMAIN requests : requests'[m].pc = requests[m].pc
    BY <1>0, <1>3, CancelFacts DEF Cancel, Relabels
  <2> QED
    BY <1>0, <1>3, <2>1, SlotsKept DEF Cancel, limiter
<1>4. ASSUME NEW s \in Sessions, NEW user \in Users \cup {None}, Rebinds(s, user),
             UNCHANGED inFlight
      PROVE  Slots'
  <2>1. Kept /\ \A m \in DOMAIN requests : requests'[m].pc = requests[m].pc
    BY <1>0, <1>4, RebindsFacts DEF Relabels
  <2> QED
    BY <1>0, <1>4, <2>1, SlotsKept
<1>5. ASSUME NEW n \in DOMAIN requests, NEW to, NEW out, Turns(n, to, out),
             to # "done", requests[n].pc # "done", UNCHANGED inFlight
      PROVE  Slots'
  <2>1. Kept
    BY <1>5, TurnsKeeps
  <2>2. \A m \in DOMAIN requests : requests'[m].pc = "done" <=> requests[m].pc = "done"
    BY <1>5 DEF Turns
  <2> QED
    BY <1>0, <1>5, <2>1, <2>2, SlotsKept
<1>6. ASSUME NEW n \in DOMAIN requests,
             Register(n) \/ ReadContext(n) \/ CheckAgain(n) \/ Answer(n) \/ EraseMarks(n)
      PROVE  Slots'
  <2>1. \E to, out : Turns(n, to, out) /\ to # "done"
    BY <1>0, <1>6, TaskFacts
  <2>2. requests[n].pc # "done" /\ UNCHANGED inFlight
    BY <1>6 DEF Register, ReadContext, CheckAgain, Answer, EraseMarks, limiter
  <2> QED
    BY <1>5, <2>1, <2>2
<1>7. ASSUME NEW n \in DOMAIN requests, Release(n)
      PROVE  Slots'
  <2>1. PICK v \in Users : v = requests[n].user
    BY <1>0, RequestFacts
  <2>2. /\ requests[n].pc = "erased" /\ inFlight' = inFlight \ {v}
    BY <1>7, <2>1 DEF Release
  <2>3. /\ DOMAIN requests' = DOMAIN requests /\ requests'[n].pc = "done"
        /\ \A m \in DOMAIN requests : m # n => requests'[m] = requests[m]
    BY <1>0, <1>7, TaskFacts DEF Turns
  <2>4. \A m \in DOMAIN requests : m # n /\ requests[m].pc # "done" => requests[m].user # v
    BY <1>0, <2>1, <2>2 DEF Slots
  <2>5. /\ IsFiniteSet(inFlight) /\ Cardinality(inFlight) \in Nat
        /\ Cardinality(inFlight) <= MaxPending /\ MaxPending \in Nat
    BY <1>0, FS_CardinalityType, AiAssumption DEF Slots
  <2>6. IsFiniteSet(inFlight') /\ Cardinality(inFlight') <= MaxPending
    <3>1. /\ IsFiniteSet(inFlight \ {v})
          /\ Cardinality(inFlight \ {v}) \in {Cardinality(inFlight), Cardinality(inFlight) - 1}
      BY <2>5, FS_RemoveElement
    <3> QED
      BY <2>2, <2>5, <3>1
  <2>7. \A m \in DOMAIN requests' : requests'[m].pc # "done" => requests'[m].user \in inFlight'
    BY <1>0, <2>2, <2>3, <2>4 DEF Slots
  <2>8. \A u \in inFlight' : \E m \in DOMAIN requests' :
          requests'[m].pc # "done" /\ requests'[m].user = u
    BY <1>0, <2>1, <2>2, <2>3 DEF Slots
  <2>9. \A l, m \in DOMAIN requests' :
          requests'[l].pc # "done" /\ requests'[m].pc # "done"
            /\ requests'[l].user = requests'[m].user => l = m
    BY <1>0, <2>3 DEF Slots
  <2> QED
    BY <2>6, <2>7, <2>8, <2>9 DEF Slots
<1>8. CASE Start
  <2>1. /\ UNCHANGED inFlight /\ pool[1] \in DOMAIN requests /\ requests[pool[1]].pc = "posted"
        /\ \E to, out : Turns(pool[1], to, out) /\ to # "done"
    BY <1>0, <1>8, StartFacts DEF Start, limiter
  <2> QED
    BY <1>5, <2>1
<1>9. ASSUME NEW s \in Sessions, NEW id \in Ids, ReplyRefused(s, id)
      PROVE  Slots'
  BY <1>1, <1>9 DEF ReplyRefused
<1>10. CASE Tick \/ UNCHANGED vars
  BY <1>1, <1>10 DEF Tick, vars, limiter
<1>11. ASSUME NEW s \in Sessions, Leave(s)
       PROVE  Slots'
  BY <1>4, <1>11 DEF Leave, limiter
<1>12. ASSUME NEW s \in Sessions, NEW u \in Users, LoginAs(s, u)
       PROVE  Slots'
  BY <1>4, <1>12 DEF LoginAs, limiter
<1> QED
  BY <1>2, <1>3, <1>6, <1>7, <1>8, <1>9, <1>10, <1>11, <1>12 DEF Next, TaskStep

\* While no request gets or loses its key, the keys stay.
LEMMA KeysKept ==
  ASSUME Keys, Kept, UNCHANGED active, cancelled' \subseteq active,
         \A m \in DOMAIN requests : requests'[m].pc \in Marked <=> requests[m].pc \in Marked
  PROVE  Keys'
<1>1. /\ DOMAIN requests' = DOMAIN requests
      /\ \A m \in DOMAIN requests : Key(m)' = Key(m)
  BY DEF Kept
<1> QED
  BY <1>1 DEF Keys

\* A key is registered exactly while its request is between registration and guard.
LEMMA KeysStep ==
  ASSUME IInv, [Next]_vars
  PROVE  Keys'
<1>0. TypeOK /\ Slots /\ Keys /\ Queued /\ cancelled \subseteq active
  BY DEF IInv, Keys
<1>1. CASE UNCHANGED <<active, cancelled, requests>>
  BY <1>0, <1>1 DEF Keys, Key
<1>2. ASSUME NEW s \in Sessions, NEW id \in Ids, ReplyAdmitted(s, id)
      PROVE  Keys'
  <2>1. /\ Len(requests) \in Nat /\ UNCHANGED <<active, cancelled>>
        /\ DOMAIN requests = 1..Len(requests) /\ DOMAIN requests' = 1..(Len(requests) + 1)
        /\ \A n \in DOMAIN requests : requests'[n] = requests[n] /\ Key(n)' = Key(n)
        /\ requests'[Len(requests) + 1].pc = "admitted"
    BY <1>0, <1>2, AdmitFacts
  <2>2. \A n \in DOMAIN requests' : n \in DOMAIN requests \/ n = Len(requests) + 1
    BY <2>1
  <2>3. DOMAIN requests \subseteq DOMAIN requests' /\ "admitted" \notin Marked
    BY <2>1 DEF Marked
  <2>4. \A n \in DOMAIN requests' : requests'[n].pc \in Marked => n \in DOMAIN requests
    BY <2>1, <2>2, <2>3
  <2>5. \A n \in DOMAIN requests' : requests'[n].pc \in Marked => Key(n)' \in active'
    BY <1>0, <2>1, <2>4 DEF Keys
  <2>6. \A k \in active' : \E n \in DOMAIN requests' :
          requests'[n].pc \in Marked /\ Key(n)' = k
    BY <1>0, <2>1, <2>3 DEF Keys
  <2> QED
    BY <1>0, <2>1, <2>5, <2>6 DEF Keys
<1>3. ASSUME NEW s \in Sessions, NEW id \in Ids, Cancel(s, id)
      PROVE  Keys'
  <2>1. Kept /\ \A m \in DOMAIN requests : requests'[m].pc = requests[m].pc
    BY <1>0, <1>3, CancelFacts DEF Cancel, Relabels
  <2>2. UNCHANGED active /\ cancelled' \subseteq active
    BY <1>0, <1>3 DEF Cancel, CancelMarks
  <2> QED
    BY <1>0, <2>1, <2>2, KeysKept
<1>4. ASSUME NEW s \in Sessions, NEW user \in Users \cup {None}, Rebinds(s, user),
             UNCHANGED <<active, cancelled>>
      PROVE  Keys'
  <2>1. Kept /\ \A m \in DOMAIN requests : requests'[m].pc = requests[m].pc
    BY <1>0, <1>4, RebindsFacts DEF Relabels
  <2> QED
    BY <1>0, <1>4, <2>1, KeysKept
<1>5. ASSUME NEW n \in DOMAIN requests, NEW to, NEW out, Turns(n, to, out),
             to \in Marked <=> requests[n].pc \in Marked, UNCHANGED <<active, cancelled>>
      PROVE  Keys'
  <2>1. Kept
    BY <1>5, TurnsKeeps
  <2>2. \A m \in DOMAIN requests : requests'[m].pc \in Marked <=> requests[m].pc \in Marked
    BY <1>5 DEF Turns
  <2> QED
    BY <1>0, <1>5, <2>1, <2>2, KeysKept
<1>6. ASSUME NEW n \in DOMAIN requests, ReadContext(n) \/ CheckAgain(n) \/ Answer(n)
      PROVE  Keys'
  <2>1. \E to, out : Turns(n, to, out) /\ to \in Marked
    BY <1>0, <1>6, TaskFacts DEF Marked
  <2>2. requests[n].pc \in Marked /\ UNCHANGED <<active, cancelled>>
    BY <1>6 DEF ReadContext, CheckAgain, Answer, marks, Marked
  <2> QED
    BY <1>5, <2>1, <2>2
<1>7. ASSUME NEW n \in DOMAIN requests, Release(n)
      PROVE  Keys'
  <2>1. Turns(n, "done", requests[n].outcome)
    BY <1>0, <1>7, TaskFacts
  <2>2. /\ requests[n].pc = "erased" /\ UNCHANGED <<active, cancelled>>
        /\ "erased" \notin Marked /\ "done" \notin Marked
    BY <1>7 DEF Release, marks, Marked
  <2> QED
    BY <1>5, <2>1, <2>2
<1>8. CASE Start
  <2>1. /\ UNCHANGED <<active, cancelled>> /\ pool[1] \in DOMAIN requests
        /\ requests[pool[1]].pc \in Marked
        /\ \E to, out : Turns(pool[1], to, out) /\ to \in Marked
    BY <1>0, <1>8, StartFacts DEF Start, marks, Marked
  <2> QED
    BY <1>5, <2>1
<1>9. ASSUME NEW n \in DOMAIN requests, Register(n)
      PROVE  Keys'
  <2>1. Turns(n, "posted", requests[n].outcome)
    BY <1>0, <1>9, TaskFacts
  <2>2. /\ DOMAIN requests' = DOMAIN requests /\ requests'[n].pc = "posted"
        /\ \A m \in DOMAIN requests : m # n => requests'[m] = requests[m]
        /\ \A m \in DOMAIN requests : Key(m)' = Key(m)
    BY <2>1, TurnsKeeps DEF Turns, Kept
  <2>3. /\ requests[n].pc = "admitted" /\ active' = active \cup {Key(n)} /\ UNCHANGED cancelled
        /\ "admitted" \notin Marked /\ "posted" \in Marked
    BY <1>0, <1>9, RegisterFacts DEF Marked
  <2>4. \A m \in DOMAIN requests' : requests'[m].pc \in Marked => Key(m)' \in active'
    BY <1>0, <2>2, <2>3 DEF Keys
  <2>5. \A k \in active' : \E m \in DOMAIN requests' :
          requests'[m].pc \in Marked /\ Key(m)' = k
    <3>1. ASSUME NEW k \in active
          PROVE  \E m \in DOMAIN requests' : requests'[m].pc \in Marked /\ Key(m)' = k
      <4>1. PICK m \in DOMAIN requests : requests[m].pc \in Marked /\ Key(m) = k
        BY <1>0 DEF Keys
      <4> QED
        BY <2>2, <2>3, <4>1
    <3> QED
      BY <2>2, <2>3, <3>1
  <2> QED
    BY <1>0, <2>3, <2>4, <2>5 DEF Keys
<1>10. ASSUME NEW n \in DOMAIN requests, EraseMarks(n)
       PROVE  Keys'
  <2>1. Turns(n, "erased", requests[n].outcome)
    BY <1>0, <1>10, TaskFacts
  <2>2. /\ DOMAIN requests' = DOMAIN requests /\ requests'[n].pc = "erased"
        /\ \A m \in DOMAIN requests : m # n => requests'[m] = requests[m]
        /\ \A m \in DOMAIN requests : Key(m)' = Key(m)
    BY <2>1, TurnsKeeps DEF Turns, Kept
  <2>3. /\ requests[n].pc = "ended" /\ active' = active \ {Key(n)}
        /\ cancelled' = cancelled \ {Key(n)} /\ "erased" \notin Marked /\ "done" \notin Marked
    BY <1>10 DEF EraseMarks, Marked
  <2>4. \A m \in DOMAIN requests : m # n /\ requests[m].pc \in Marked => Key(m) # Key(n)
    BY <1>0, <2>3 DEF Slots, Key
  <2>5. \A m \in DOMAIN requests' : requests'[m].pc \in Marked => Key(m)' \in active'
    BY <1>0, <2>2, <2>3, <2>4 DEF Keys
  <2>6. \A k \in active' : \E m \in DOMAIN requests' :
          requests'[m].pc \in Marked /\ Key(m)' = k
    <3>1. ASSUME NEW k \in active, k # Key(n)
          PROVE  \E m \in DOMAIN requests' : requests'[m].pc \in Marked /\ Key(m)' = k
      <4>1. PICK m \in DOMAIN requests : requests[m].pc \in Marked /\ Key(m) = k
        BY <1>0 DEF Keys
      <4> QED
        BY <2>2, <3>1, <4>1
    <3> QED
      BY <2>3, <3>1
  <2> QED
    BY <1>0, <2>3, <2>5, <2>6 DEF Keys
<1>11. ASSUME NEW s \in Sessions, NEW id \in Ids, ReplyRefused(s, id)
       PROVE  Keys'
  BY <1>1, <1>11 DEF ReplyRefused, marks
<1>12. CASE Tick \/ UNCHANGED vars
  BY <1>1, <1>12 DEF Tick, vars, marks
<1>13. ASSUME NEW s \in Sessions, Leave(s)
       PROVE  Keys'
  BY <1>4, <1>13 DEF Leave, marks
<1>14. ASSUME NEW s \in Sessions, NEW u \in Users, LoginAs(s, u)
       PROVE  Keys'
  BY <1>4, <1>14 DEF LoginAs, marks
<1> QED
  BY <1>2, <1>3, <1>6, <1>7, <1>8, <1>9, <1>10, <1>11, <1>12, <1>13, <1>14
  DEF Next, TaskStep

\* The pool holds posted tasks, each once.
LEMMA QueuedStep ==
  ASSUME IInv, [Next]_vars
  PROVE  Queued'
<1>0. /\ TypeOK /\ Queued /\ pool \in Seq(DOMAIN requests)
      /\ \A i \in 1..Len(pool) : pool[i] \in DOMAIN requests
  BY ElementOfSeq DEF IInv, TypeOK
<1>1. ASSUME UNCHANGED pool,
             \A m \in DOMAIN requests : requests[m].pc = "posted" => requests'[m].pc = "posted"
      PROVE  Queued'
  BY <1>0, <1>1 DEF Queued
<1>2. ASSUME NEW s \in Sessions, NEW id \in Ids, ReplyAdmitted(s, id)
      PROVE  Queued'
  BY <1>0, <1>1, <1>2, AdmitFacts
<1>3. ASSUME NEW s \in Sessions, NEW id \in Ids, Cancel(s, id)
      PROVE  Queued'
  BY <1>0, <1>1, <1>3, CancelFacts DEF Cancel, Relabels
<1>4. ASSUME NEW s \in Sessions, NEW user \in Users \cup {None}, Rebinds(s, user),
             UNCHANGED pool
      PROVE  Queued'
  BY <1>0, <1>1, <1>4, RebindsFacts DEF Relabels
<1>5. ASSUME NEW n \in DOMAIN requests, TaskStep(n)
      PROVE  Queued'
  <2>1. \E to, out : Turns(n, to, out)
    BY <1>0, <1>5, TaskFacts DEF TaskStep
  <2>2. requests[n].pc # "posted" /\ UNCHANGED pool
    BY <1>5 DEF TaskStep, ReadContext, CheckAgain, Answer, EraseMarks, Release
  <2> QED
    BY <1>1, <2>1, <2>2 DEF Turns
<1>6. ASSUME NEW n \in DOMAIN requests, Register(n)
      PROVE  Queued'
  <2>1. Turns(n, "posted", requests[n].outcome)
    BY <1>0, <1>6, TaskFacts
  <2>2. /\ requests[n].pc = "admitted" /\ Len(pool) \in Nat /\ Len(pool') = Len(pool) + 1
        /\ \A i \in 1..Len(pool) : pool'[i] = pool[i]
        /\ pool'[Len(pool) + 1] = n
    BY <1>0, <1>6, RegisterFacts
  <2>3. \A i \in 1..Len(pool) : pool[i] # n
    BY <1>0, <2>2 DEF Queued
  <2>4. \A i \in 1..Len(pool') : i \in 1..Len(pool) \/ i = Len(pool) + 1
    BY <2>2
  <2>5. \A i \in 1..Len(pool') : requests'[pool'[i]].pc = "posted"
    <3>1. /\ requests'[n].pc = "posted"
          /\ \A m \in DOMAIN requests : m # n => requests'[m] = requests[m]
      BY <2>1 DEF Turns
    <3>2. \A i \in 1..Len(pool) : requests[pool[i]].pc = "posted"
      BY <1>0 DEF Queued
    <3>3. \A i \in 1..Len(pool) : requests'[pool'[i]].pc = "posted"
      BY <1>0, <2>2, <2>3, <3>1, <3>2
    <3> QED
      BY <2>2, <2>4, <3>1, <3>3
  <2>6. \A i, j \in 1..Len(pool') : pool'[i] = pool'[j] => i = j
    BY <1>0, <2>2, <2>3, <2>4 DEF Queued
  <2> QED
    BY <2>5, <2>6 DEF Queued
<1>7. CASE Start
  <2>1. /\ \E to, out : Turns(pool[1], to, out)
        /\ Len(pool) \in Nat /\ Len(pool') = Len(pool) - 1
        /\ \A i \in 1..Len(pool') : /\ i + 1 \in 1..Len(pool) /\ pool'[i] = pool[i + 1]
                                    /\ pool[i + 1] # pool[1]
    BY <1>0, <1>7, StartFacts
  <2>2. \A i \in 1..Len(pool') : requests'[pool'[i]] = requests[pool[i + 1]]
    BY <1>0, <2>1 DEF Turns
  <2>3. \A i \in 1..Len(pool') : requests'[pool'[i]].pc = "posted"
    BY <1>0, <2>1, <2>2 DEF Queued
  <2>4. \A i, j \in 1..Len(pool') : pool'[i] = pool'[j] => i = j
    <3>1. ASSUME NEW i \in 1..Len(pool'), NEW j \in 1..Len(pool'), pool'[i] = pool'[j]
          PROVE  i = j
      <4>1. i + 1 = j + 1
        BY <1>0, <2>1, <3>1 DEF Queued
      <4> QED
        BY <4>1
    <3> QED
      BY <3>1
  <2> QED
    BY <2>3, <2>4 DEF Queued
<1>8. ASSUME NEW s \in Sessions, NEW id \in Ids, ReplyRefused(s, id)
      PROVE  Queued'
  BY <1>1, <1>8 DEF ReplyRefused
<1>9. CASE Tick \/ UNCHANGED vars
  BY <1>1, <1>9 DEF Tick, vars
<1>10. ASSUME NEW s \in Sessions, Leave(s)
       PROVE  Queued'
  BY <1>4, <1>10 DEF Leave
<1>11. ASSUME NEW s \in Sessions, NEW u \in Users, LoginAs(s, u)
       PROVE  Queued'
  BY <1>4, <1>11 DEF LoginAs
<1> QED
  BY <1>2, <1>3, <1>5, <1>6, <1>7, <1>8, <1>9, <1>10, <1>11 DEF Next

\* A request that does not move, while its mark and its connection stay.
LEMMA SilentKept ==
  ASSUME NEW m, SilentAt(m), requests'[m] = requests[m],
         requests[m].pc \in Open => (Key(m) \in cancelled' <=> Key(m) \in cancelled),
         bound'[requests[m].session] = bound[requests[m].session]
  PROVE  SilentAt(m)'
<1>1. Key(m)' = Key(m) /\ StillThere(m)' = StillThere(m)
  BY DEF Key, StillThere
<1> QED
  BY <1>1 DEF SilentAt

\* Cancel marks, what was called off and what was answered stay in step.
LEMMA CalledOffStep ==
  ASSUME IInv, [Next]_vars
  PROVE  CalledOff'
<1>0. /\ TypeOK /\ Slots /\ Keys /\ Queued /\ CalledOff /\ cancelled \subseteq active
      /\ \A m \in DOMAIN requests : SilentAt(m)
  BY DEF IInv, Keys, CalledOff
<1>t. /\ DOMAIN requests = 1..Len(requests) /\ Len(requests) \in Nat
      /\ \A m \in DOMAIN requests : /\ requests[m].calledOff \in BOOLEAN
                                    /\ requests[m].moved \in BOOLEAN
                                    /\ requests[m].session \in Sessions
                                    /\ requests[m].user \in Users
                                    /\ requests[m].pc \in Pcs
  BY <1>0, RequestFacts
<1>1. CASE UNCHANGED <<cancelled, requests, bound>>
  BY <1>0, <1>1 DEF CalledOff, SilentAt, Key, StillThere
<1>2. ASSUME NEW s \in Sessions, NEW id \in Ids, ReplyAdmitted(s, id)
      PROVE  CalledOff'
  <2> DEFINE N == Len(requests)
  <2>1. /\ N \in Nat /\ UNCHANGED <<cancelled, bound>> /\ DOMAIN requests = 1..N
        /\ DOMAIN requests' = 1..(N + 1)
        /\ \A n \in DOMAIN requests : requests'[n] = requests[n]
        /\ LET r == requests'[N + 1] IN
              /\ r.user = bound[s] /\ r.session = s
              /\ r.pc = "admitted" /\ r.outcome = "none" /\ ~r.calledOff /\ ~r.moved
    BY <1>0, <1>2, AdmitFacts
  <2>2. \A n \in DOMAIN requests : SilentAt(n)'
    BY <1>0, <2>1, SilentKept
  <2> HIDE DEF N
  <2>3. ASSUME NEW n, n = N + 1
        PROVE  SilentAt(n)'
    BY <2>1, <2>3 DEF SilentAt, StillThere, Open, Ended
  <2> QED
    BY <2>1, <2>2, <2>3 DEF CalledOff
<1>3. ASSUME NEW s \in Sessions, NEW id \in Ids, Cancel(s, id)
      PROVE  CalledOff'
  <2> DEFINE k == <<bound[s], id>>
  <2>1. /\ CancelMarks(k) /\ cancelled' = cancelled \cup {k} /\ UNCHANGED bound
    BY <1>3 DEF Cancel, CancelMarks
  <2> HIDE DEF k
  <2>2. /\ DOMAIN requests' = DOMAIN requests
        /\ \A m \in DOMAIN requests :
             /\ requests'[m].session = requests[m].session
             /\ requests'[m].user = requests[m].user /\ Key(m)' = Key(m)
             /\ requests'[m].pc = requests[m].pc /\ requests'[m].outcome = requests[m].outcome
             /\ requests'[m].moved = requests[m].moved
             /\ requests'[m].calledOff =
                  IF Key(m) = k /\ requests[m].pc \in Open THEN TRUE ELSE requests[m].calledOff
    BY <1>0, <2>1, CancelFacts DEF Relabels, Kept
  <2>3. ASSUME NEW m \in DOMAIN requests
        PROVE  SilentAt(m)'
    <3>1. StillThere(m)' = StillThere(m) /\ SilentAt(m)
      BY <1>0, <2>1, <2>2 DEF StillThere
    <3>2. CASE Key(m) = k /\ requests[m].pc \in Open
      BY <1>t, <2>1, <2>2, <3>1, <3>2 DEF SilentAt, Open, Ended
    <3>3. CASE ~(Key(m) = k /\ requests[m].pc \in Open)
      <4>1. /\ requests'[m].calledOff = requests[m].calledOff
            /\ requests[m].pc \in Open => (Key(m) \in cancelled' <=> Key(m) \in cancelled)
        BY <2>1, <2>2, <3>3
      <4> QED
        BY <2>2, <3>1, <4>1 DEF SilentAt
    <3> QED
      BY <3>2, <3>3
  <2> QED
    BY <2>2, <2>3 DEF CalledOff
<1>4. ASSUME NEW s \in Sessions, NEW user \in Users \cup {None}, Rebinds(s, user),
             UNCHANGED cancelled
      PROVE  CalledOff'
  <2>1. /\ DOMAIN requests' = DOMAIN requests
        /\ \A m \in DOMAIN requests :
             /\ requests'[m].session = requests[m].session
             /\ requests'[m].user = requests[m].user /\ Key(m)' = Key(m)
             /\ requests'[m].pc = requests[m].pc /\ requests'[m].outcome = requests[m].outcome
             /\ requests'[m].calledOff = requests[m].calledOff
             /\ requests'[m].moved = (requests[m].moved \/ requests[m].session = s)
        /\ \A t \in Sessions : t # s => bound'[t] = bound[t]
    BY <1>0, <1>4, RebindsFacts DEF Relabels, Kept
  <2>2. ASSUME NEW m \in DOMAIN requests
        PROVE  SilentAt(m)'
    <3>1. ~requests'[m].moved => StillThere(m)'
      <4>1. ~requests'[m].moved => ~requests[m].moved /\ requests[m].session # s
        BY <2>1
      <4>2. ~requests[m].moved => StillThere(m)
        BY <1>0 DEF SilentAt
      <4>3. requests[m].session # s => StillThere(m)' = StillThere(m)
        BY <1>t, <2>1 DEF StillThere
      <4> QED
        BY <4>1, <4>2, <4>3
    <3> QED
      BY <1>0, <1>4, <2>1, <3>1 DEF SilentAt
  <2> QED
    BY <2>1, <2>2 DEF CalledOff
<1>5. ASSUME NEW n \in DOMAIN requests, NEW to, NEW out, Turns(n, to, out), UNCHANGED bound,
             \A m \in DOMAIN requests : m # n /\ requests[m].pc \in Open =>
               (Key(m) \in cancelled' <=> Key(m) \in cancelled),
             to \in Open => (requests[n].calledOff <=> Key(n) \in cancelled'),
             to \in {"admitted", "checked"} => ~requests[n].calledOff,
             to \notin Ended => out = "none",
             requests[n].calledOff => out # "result",
             to \in Ended /\ out = "none" => requests[n].calledOff \/ requests[n].moved
      PROVE  CalledOff'
  <2>1. \A m \in DOMAIN requests : m # n => SilentAt(m)'
    BY <1>0, <1>5, SilentKept DEF Turns
  <2>2. /\ requests'[n].user = requests[n].user /\ requests'[n].session = requests[n].session
        /\ requests'[n].calledOff = requests[n].calledOff
        /\ requests'[n].moved = requests[n].moved /\ requests'[n].pc = to
        /\ requests'[n].outcome = out /\ DOMAIN requests' = DOMAIN requests
        /\ Key(n)' = Key(n)
    BY <1>5, TurnsKeeps DEF Turns, Kept
  <2>3. StillThere(n)' = StillThere(n)
    BY <1>5, <2>2 DEF StillThere
  <2>4. SilentAt(n)'
    BY <1>0, <1>5, <2>2, <2>3 DEF SilentAt
  <2> QED
    BY <2>1, <2>2, <2>4 DEF CalledOff
<1>6. ASSUME NEW n \in DOMAIN requests, Register(n)
      PROVE  CalledOff'
  <2>1. Turns(n, "posted", requests[n].outcome)
    BY <1>0, <1>6, TaskFacts
  <2>2. requests[n].pc = "admitted" /\ UNCHANGED <<cancelled, bound>>
    BY <1>0, <1>6, RegisterFacts
  <2>3. ~requests[n].calledOff /\ requests[n].outcome = "none"
    BY <1>0, <2>2 DEF SilentAt, Ended
  <2>4. Key(n) \notin cancelled
    <3>1. SUFFICES ASSUME Key(n) \in active PROVE FALSE
      BY <1>0
    <3>2. PICK m \in DOMAIN requests : requests[m].pc \in Marked /\ Key(m) = Key(n)
      BY <1>0, <3>1 DEF Keys
    <3>3. requests[m].user = requests[n].user /\ requests[m].pc # "done" /\ m # n
      BY <2>2, <3>2 DEF Key, Marked
    <3> QED
      BY <1>0, <2>2, <3>3 DEF Slots
  <2> QED
    BY <1>5, <2>1, <2>2, <2>3, <2>4 DEF Open, Ended
<1>7. CASE Start
  <2>1. PICK n \in DOMAIN requests : n = pool[1]
    BY <1>0, <1>7, StartFacts
  <2>2. /\ requests[n].pc = "posted" /\ UNCHANGED <<cancelled, bound>>
        /\ Turns(n, IF Key(n) \in cancelled THEN "ended" ELSE "started", requests[n].outcome)
    BY <1>0, <1>7, <2>1, StartFacts DEF Start, marks
  <2>3. (requests[n].calledOff <=> Key(n) \in cancelled) /\ requests[n].outcome = "none"
    BY <1>0, <2>2 DEF SilentAt, Open, Ended
  <2>4. CASE Key(n) \in cancelled
    BY <1>5, <2>2, <2>3, <2>4 DEF Open, Ended
  <2>5. CASE Key(n) \notin cancelled
    BY <1>5, <2>2, <2>3, <2>5 DEF Open, Ended
  <2> QED
    BY <2>4, <2>5
<1>8. ASSUME NEW n \in DOMAIN requests, ReadContext(n)
      PROVE  CalledOff'
  <2>1. requests[n].pc = "started" /\ UNCHANGED <<cancelled, bound>>
    BY <1>8 DEF ReadContext, marks
  <2>2. /\ (requests[n].calledOff <=> Key(n) \in cancelled) /\ requests[n].outcome = "none"
        /\ ~requests[n].moved => StillThere(n)
    BY <1>0, <2>1 DEF SilentAt, Open, Ended
  <2>3. CASE ~StillThere(n) /\ Turns(n, "ended", requests[n].outcome)
    BY <1>5, <2>1, <2>2, <2>3 DEF Open, Ended
  <2>4. CASE Turns(n, "model", requests[n].outcome)
    BY <1>5, <2>1, <2>2, <2>4 DEF Open, Ended
  <2>5. CASE Turns(n, "ended", "refused")
    BY <1>5, <2>1, <2>2, <2>5 DEF Open, Ended
  <2> QED
    BY <1>0, <1>8, <2>3, <2>4, <2>5, TaskFacts
<1>9. ASSUME NEW n \in DOMAIN requests, CheckAgain(n)
      PROVE  CalledOff'
  <2>1. /\ requests[n].pc = "model" /\ UNCHANGED <<cancelled, bound>>
        /\ Turns(n, IF Key(n) \in cancelled THEN "ended" ELSE "checked", requests[n].outcome)
    BY <1>0, <1>9, TaskFacts DEF CheckAgain, marks
  <2>2. (requests[n].calledOff <=> Key(n) \in cancelled) /\ requests[n].outcome = "none"
    BY <1>0, <2>1 DEF SilentAt, Open, Ended
  <2>3. CASE Key(n) \in cancelled
    BY <1>5, <2>1, <2>2, <2>3 DEF Open, Ended
  <2>4. CASE Key(n) \notin cancelled
    BY <1>5, <2>1, <2>2, <2>4 DEF Open, Ended
  <2> QED
    BY <2>3, <2>4
<1>10. ASSUME NEW n \in DOMAIN requests, Answer(n)
       PROVE  CalledOff'
  <2>1. requests[n].pc = "checked" /\ UNCHANGED <<cancelled, bound>>
    BY <1>10 DEF Answer, marks
  <2>2. /\ ~requests[n].calledOff /\ requests[n].outcome = "none"
        /\ ~requests[n].moved => StillThere(n)
    BY <1>0, <2>1 DEF SilentAt, Open, Ended
  <2>3. Turns(n, "ended", IF StillThere(n) THEN "result" ELSE requests[n].outcome)
    BY <1>0, <1>10, TaskFacts
  <2>4. CASE StillThere(n)
    BY <1>5, <2>1, <2>2, <2>3, <2>4 DEF Open, Ended
  <2>5. CASE ~StillThere(n)
    BY <1>5, <2>1, <2>2, <2>3, <2>5 DEF Open, Ended
  <2> QED
    BY <2>4, <2>5
<1>11. ASSUME NEW n \in DOMAIN requests, EraseMarks(n)
       PROVE  CalledOff'
  <2>1. /\ requests[n].pc = "ended" /\ cancelled' = cancelled \ {Key(n)} /\ UNCHANGED bound
        /\ Turns(n, "erased", requests[n].outcome)
    BY <1>0, <1>11, TaskFacts DEF EraseMarks
  <2>2. SilentAt(n)
    BY <1>0
  <2>3. \A m \in DOMAIN requests : m # n /\ requests[m].pc \in Open => Key(m) # Key(n)
    BY <1>0, <2>1 DEF Slots, Key, Open
  <2> QED
    BY <1>5, <2>1, <2>2, <2>3 DEF SilentAt, Open, Ended
<1>12. ASSUME NEW n \in DOMAIN requests, Release(n)
       PROVE  CalledOff'
  <2>1. /\ requests[n].pc = "erased" /\ UNCHANGED <<cancelled, bound>>
        /\ Turns(n, "done", requests[n].outcome)
    BY <1>0, <1>12, TaskFacts DEF Release, marks
  <2>2. SilentAt(n)
    BY <1>0
  <2> QED
    BY <1>5, <2>1, <2>2 DEF SilentAt, Open, Ended
<1>13. ASSUME NEW s \in Sessions, NEW id \in Ids, ReplyRefused(s, id)
       PROVE  CalledOff'
  BY <1>1, <1>13 DEF ReplyRefused, marks
<1>14. CASE Tick \/ UNCHANGED vars
  BY <1>1, <1>14 DEF Tick, vars, marks
<1>15. ASSUME NEW s \in Sessions, Leave(s)
       PROVE  CalledOff'
  BY <1>4, <1>15 DEF Leave, marks
<1>16. ASSUME NEW s \in Sessions, NEW u \in Users, LoginAs(s, u)
       PROVE  CalledOff'
  BY <1>4, <1>16 DEF LoginAs, marks
<1> QED
  BY <1>2, <1>3, <1>6, <1>7, <1>8, <1>9, <1>10, <1>11, <1>12, <1>13, <1>14, <1>15, <1>16
  DEF Next, TaskStep

\* The request of each time, after the old times have been popped.
LEMMA CountsPruned ==
  ASSUME TypeOK, NEW u \in Users, NEW f \in [1..Len(recent[u]) -> DOMAIN requests], Counts(u, f)
  PROVE  \E g \in [1..Len(Recent(u)) -> DOMAIN requests] :
           /\ \A i \in 1..Len(Recent(u)) : requests[g[i]].at = Recent(u)[i]
           /\ \A n \in DOMAIN requests : requests[n].user = u /\ ~Old(requests[n].at) =>
                \E i \in 1..Len(Recent(u)) : g[i] = n
<1> DEFINE N == Len(recent[u])
           M == Len(Recent(u))
<1>1. PICK k \in 1..(N + 1) :
        /\ \A j \in 1..(k - 1) : Old(recent[u][j])
        /\ N \in Nat /\ M = N - k + 1
        /\ \A i \in 1..M : Recent(u)[i] = recent[u][k + i - 1]
  BY PrunedFacts
<1> DEFINE g == [i \in 1..M |-> f[k + i - 1]]
<1>2. \A i \in 1..M : k + i - 1 \in 1..N
  BY <1>1
<1>3. /\ f \in [1..N -> DOMAIN requests]
      /\ \A i \in 1..N : requests[f[i]].at = recent[u][i]
      /\ \A n \in DOMAIN requests : requests[n].user = u /\ ~Old(requests[n].at) =>
           \E i \in 1..N : f[i] = n
  BY DEF Counts
<1>4. g \in [1..M -> DOMAIN requests] /\ \A i \in 1..M : g[i] = f[k + i - 1]
  BY <1>2, <1>3
<1> HIDE DEF g, N, M
<1>5. ASSUME NEW i \in 1..M
      PROVE  requests[g[i]].at = Recent(u)[i]
  <2>1. PICK j \in 1..N : j = k + i - 1
    BY <1>2
  <2>2. g[i] = f[j]
    BY <1>4, <2>1
  <2>3. Recent(u)[i] = recent[u][j]
    BY <1>1, <2>1
  <2> QED
    BY <1>3, <2>2, <2>3
<1>6. ASSUME NEW n \in DOMAIN requests, requests[n].user = u, ~Old(requests[n].at)
      PROVE  \E i \in 1..M : g[i] = n
  <2>1. PICK j \in 1..N : f[j] = n
    BY <1>3, <1>6
  <2>2. ~Old(recent[u][j])
    BY <1>3, <1>6, <2>1
  <2>3. j \notin 1..(k - 1)
    BY <1>1, <2>2
  <2>4. j - k + 1 \in 1..M /\ k + (j - k + 1) - 1 = j
    BY <1>1, <2>3
  <2> QED
    BY <1>4, <2>1, <2>4
<1> QED
  BY <1>4, <1>5, <1>6 DEF M

\* Nothing is forgotten while the limiter is left alone, as time passes.
LEMMA RememberedKept ==
  ASSUME TypeOK, Remembered, Kept, UNCHANGED <<recent, seen>>, now' \in Nat, now <= now'
  PROVE  Remembered'
<1>1. /\ DOMAIN requests' = DOMAIN requests
      /\ \A m \in DOMAIN requests :
           /\ requests'[m].user = requests[m].user /\ requests'[m].id = requests[m].id
           /\ requests'[m].at = requests[m].at /\ Key(m)' = Key(m)
           /\ requests[m].at \in Nat
  BY RequestFacts DEF Kept
<1>2. now \in Nat /\ Minute \in Nat /\ ReplayWindow \in Nat
  BY AiAssumption DEF TypeOK
<1>3. \A x \in Nat : Old(x) => Old(x)'
  BY <1>2 DEF Old
<1>4. ASSUME NEW u \in Users
      PROVE  \E f \in [1..Len(recent'[u]) -> DOMAIN requests'] : Counts(u, f)'
  <2>1. PICK f \in [1..Len(recent[u]) -> DOMAIN requests] : Counts(u, f)
    BY DEF Remembered
  <2>2. \A n \in DOMAIN requests : ~Old(requests[n].at)' => ~Old(requests[n].at)
    <3>1. \A x \in Nat : \A n \in DOMAIN requests : requests[n].at = x => requests'[n].at = x
      BY <1>1
    <3> QED
      BY <1>1, <1>3, <3>1 DEF Old
  <2>3. Counts(u, f)'
    BY <1>1, <2>1, <2>2 DEF Counts
  <2> QED
    BY <1>1, <2>1, <2>3
<1>5. \A n \in DOMAIN requests' :
        \/ <<requests'[n].id, requests'[n].at>> \in seen'[requests'[n].user]
        \/ requests'[n].at + ReplayWindow < now'
  BY <1>1, <1>2 DEF Remembered
<1>6. \A m, n \in DOMAIN requests' :
        m < n /\ Key(m)' = Key(n)' => requests'[m].at + ReplayWindow < requests'[n].at
  BY <1>1 DEF Remembered
<1> QED
  BY <1>4, <1>5, <1>6 DEF Remembered

\* The limiter remembers what its windows need.
LEMMA RememberedStep ==
  ASSUME IInv, [Next]_vars
  PROVE  Remembered'
<1>0. TypeOK /\ Queued /\ Remembered
  BY DEF IInv
<1>t. /\ now \in Nat /\ Minute \in Nat /\ ReplayWindow \in Nat /\ MaxTime \in Nat
      /\ recent \in [Users -> Seq(0..MaxTime)]
      /\ seen \in [Users -> SUBSET (Ids \X (0..MaxTime))]
      /\ now \in 0..MaxTime
      /\ DOMAIN requests = 1..Len(requests) /\ Len(requests) \in Nat
      /\ \A n \in DOMAIN requests : /\ requests[n].at \in 0..MaxTime /\ requests[n].at \in Nat
                                    /\ requests[n].user \in Users /\ requests[n].id \in Ids
  BY <1>0, AiAssumption, RequestFacts DEF TypeOK
<1>1. ASSUME Kept, UNCHANGED <<recent, seen>>, now' \in Nat, now <= now'
      PROVE  Remembered'
  BY <1>0, <1>1, RememberedKept
<1>2. ASSUME NEW s \in Sessions, NEW id \in Ids, ReplyAdmitted(s, id)
      PROVE  Remembered'
  <2> DEFINE N == Len(requests)
  <2>1. PICK b \in Users : b = bound[s]
    BY <1>0, <1>2, AdmitFacts
  <2>2. /\ DOMAIN requests' = 1..(N + 1) /\ DOMAIN requests = 1..N /\ N \in Nat
        /\ \A n \in DOMAIN requests : requests'[n] = requests[n] /\ Key(n)' = Key(n)
        /\ requests'[N + 1].user = b /\ requests'[N + 1].id = id /\ requests'[N + 1].at = now
        /\ \A n : n = N + 1 => Key(n)' = <<b, id>>
        /\ now' = now /\ ~Duplicate(b, id)
    BY <1>0, <1>2, <2>1, AdmitFacts
  <2>3. /\ recent' = [recent EXCEPT ![b] = Append(Recent(b), now)]
        /\ seen' = [seen EXCEPT ![b] = Unexpired(b) \cup {<<id, now>>}]
    BY <1>2, <2>1 DEF ReplyAdmitted
  <2>4. /\ \A u \in Users : u # b => recent'[u] = recent[u] /\ seen'[u] = seen[u]
        /\ recent'[b] = Append(Recent(b), now)
        /\ seen'[b] = Unexpired(b) \cup {<<id, now>>}
    BY <1>t, <2>3
  <2> HIDE DEF N
  <2>5. \A n \in DOMAIN requests' : n \in DOMAIN requests \/ n = N + 1
    BY <2>2
  <2>6. DOMAIN requests \subseteq DOMAIN requests' /\ N + 1 \in DOMAIN requests'
    BY <2>2
  <2>7. ASSUME NEW u \in Users, u # b
        PROVE  \E f \in [1..Len(recent'[u]) -> DOMAIN requests'] : Counts(u, f)'
    <3>1. PICK f \in [1..Len(recent[u]) -> DOMAIN requests] : Counts(u, f)
      BY <1>0 DEF Remembered
    <3>2. f \in [1..Len(recent'[u]) -> DOMAIN requests']
      BY <2>4, <2>6, <2>7
    <3>3. Counts(u, f)'
      BY <2>2, <2>4, <2>5, <2>7, <3>1 DEF Counts, Old
    <3> QED
      BY <3>2, <3>3
  <2>8. \E f \in [1..Len(recent'[b]) -> DOMAIN requests'] : Counts(b, f)'
    <3> DEFINE M == Len(Recent(b))
    <3>1. PICK g \in [1..M -> DOMAIN requests] :
            /\ \A i \in 1..M : requests[g[i]].at = Recent(b)[i]
            /\ \A n \in DOMAIN requests : requests[n].user = b /\ ~Old(requests[n].at) =>
                 \E i \in 1..M : g[i] = n
      <4>1. PICK f \in [1..Len(recent[b]) -> DOMAIN requests] : Counts(b, f)
        BY <1>0 DEF Remembered
      <4> QED
        BY <1>0, <4>1, CountsPruned
    <3>2. Recent(b) \in Seq(0..MaxTime)
      BY <1>0, PrunedFacts
    <3>3. /\ M \in Nat /\ Len(recent'[b]) = M + 1
          /\ \A i \in 1..M : recent'[b][i] = Recent(b)[i]
          /\ recent'[b][M + 1] = now
      BY <1>t, <2>4, <3>2, AppendProperties, LenProperties
    <3> HIDE DEF M
    <3>4. \A i \in 1..(M + 1) : i = M + 1 \/ i \in 1..M
      BY <3>3
    <3>5. PICK h \in [1..(M + 1) -> DOMAIN requests'] :
            /\ h[M + 1] = N + 1
            /\ \A i \in 1..M : h[i] = g[i] /\ i \in 1..(M + 1)
      <4> DEFINE z == [i \in 1..(M + 1) |-> IF i = M + 1 THEN N + 1 ELSE g[i]]
      <4>1. /\ z \in [1..(M + 1) -> DOMAIN requests'] /\ z[M + 1] = N + 1
            /\ \A i \in 1..M : z[i] = g[i] /\ i \in 1..(M + 1)
        BY <2>6, <3>1, <3>3, <3>4
      <4> HIDE DEF z
      <4> QED
        BY <4>1
    <3>6. ASSUME NEW i \in 1..(M + 1)
          PROVE  requests'[h[i]].at = recent'[b][i]
      <4>1. CASE i = M + 1
        BY <2>2, <3>3, <3>5, <4>1
      <4>2. CASE i \in 1..M
        <5>1. h[i] = g[i] /\ g[i] \in DOMAIN requests
          BY <3>1, <3>5, <4>2
        <5>2. requests'[h[i]] = requests[g[i]]
          BY <2>2, <5>1
        <5> QED
          BY <3>1, <3>3, <4>2, <5>2
      <4> QED
        BY <3>4, <4>1, <4>2
    <3>7. ASSUME NEW n \in DOMAIN requests', requests'[n].user = b, ~Old(requests[n].at)'
          PROVE  \E i \in 1..(M + 1) : h[i] = n
      <4>1. CASE n = N + 1
        <5>1. M + 1 \in 1..(M + 1)
          BY <3>3
        <5> QED
          BY <3>5, <4>1, <5>1
      <4>2. CASE n \in DOMAIN requests
        <5>1. requests[n].user = b /\ ~Old(requests[n].at)
          BY <2>2, <3>7, <4>2 DEF Old
        <5>2. PICK i \in 1..M : g[i] = n
          BY <3>1, <4>2, <5>1
        <5> QED
          BY <3>5, <5>2
      <4> QED
        BY <2>5, <4>1, <4>2
    <3>8. Counts(b, h)'
      BY <3>3, <3>6, <3>7 DEF Counts
    <3>9. h \in [1..Len(recent'[b]) -> DOMAIN requests']
      BY <3>3, <3>5
    <3> QED
      BY <3>8, <3>9
  <2>9. ASSUME NEW n \in DOMAIN requests'
        PROVE  \/ <<requests'[n].id, requests'[n].at>> \in seen'[requests'[n].user]
               \/ requests'[n].at + ReplayWindow < now'
    <3>1. CASE n = N + 1
      BY <2>2, <2>4, <3>1
    <3>2. CASE n \in DOMAIN requests
      <4>1. /\ requests'[n] = requests[n] /\ requests[n].user \in Users
            /\ \/ <<requests[n].id, requests[n].at>> \in seen[requests[n].user]
               \/ requests[n].at + ReplayWindow < now
        BY <1>0, <1>t, <2>2, <3>2 DEF Remembered
      <4>2. CASE requests[n].user = b /\ <<requests[n].id, requests[n].at>> \in seen[b]
        BY <2>2, <2>4, <4>1, <4>2 DEF Unexpired
      <4> QED
        BY <2>2, <2>4, <4>1, <4>2
    <3> QED
      BY <2>5, <3>1, <3>2
  <2>10. ASSUME NEW m \in DOMAIN requests, Key(m) = <<b, id>>
         PROVE  requests[m].at + ReplayWindow < now
    <3>1. requests[m].user = b /\ requests[m].id = id
      BY <2>10 DEF Key
    <3>2. SUFFICES ASSUME <<id, requests[m].at>> \in seen[b],
                          ~(requests[m].at + ReplayWindow < now)
                   PROVE  FALSE
      BY <1>0, <3>1 DEF Remembered
    <3>3. <<id, requests[m].at>> \in Unexpired(b)
      BY <3>2 DEF Unexpired
    <3> QED
      BY <2>2, <3>3 DEF Duplicate
  <2>11. ASSUME NEW m \in DOMAIN requests', NEW n \in DOMAIN requests', m < n, Key(m)' = Key(n)'
         PROVE  requests'[m].at + ReplayWindow < requests'[n].at
    <3>1. m \in DOMAIN requests
      BY <2>2, <2>11
    <3>2. CASE n = N + 1
      BY <2>2, <2>10, <2>11, <3>1, <3>2
    <3>3. CASE n \in DOMAIN requests
      BY <1>0, <2>2, <2>11, <3>1, <3>3 DEF Remembered
    <3> QED
      BY <2>5, <3>2, <3>3
  <2>12. \A u \in Users : \E f \in [1..Len(recent'[u]) -> DOMAIN requests'] : Counts(u, f)'
    BY <2>7, <2>8
  <2> QED
    BY <2>9, <2>11, <2>12 DEF Remembered
<1>3. ASSUME NEW s \in Sessions, NEW id \in Ids, ReplyRefused(s, id)
      PROVE  Remembered'
  <2>1. PICK b \in Users : b = bound[s]
    BY <1>0, <1>3 DEF ReplyRefused, TypeOK
  <2>2. /\ UNCHANGED <<now, requests>> /\ seen' = [seen EXCEPT ![b] = Unexpired(b)]
        /\ recent' = recent \/ recent' = [recent EXCEPT ![b] = Recent(b)]
    BY <1>3, <2>1 DEF ReplyRefused
  <2>3. /\ \A u \in Users : u # b => recent'[u] = recent[u] /\ seen'[u] = seen[u]
        /\ recent'[b] = recent[b] \/ recent'[b] = Recent(b)
        /\ seen'[b] = Unexpired(b)
    BY <1>t, <2>2
  <2>4. ASSUME NEW u \in Users
        PROVE  \E f \in [1..Len(recent'[u]) -> DOMAIN requests'] : Counts(u, f)'
    <3>1. PICK f \in [1..Len(recent[u]) -> DOMAIN requests] : Counts(u, f)
      BY <1>0 DEF Remembered
    <3>2. CASE recent'[u] = recent[u]
      <4>1. Counts(u, f)'
        BY <2>2, <3>1, <3>2 DEF Counts, Old
      <4> QED
        BY <2>2, <3>2, <4>1
    <3>3. CASE u = b /\ recent'[u] = Recent(u)
      <4>1. PICK g \in [1..Len(Recent(u)) -> DOMAIN requests] :
              /\ \A i \in 1..Len(Recent(u)) : requests[g[i]].at = Recent(u)[i]
              /\ \A n \in DOMAIN requests : requests[n].user = u /\ ~Old(requests[n].at) =>
                   \E i \in 1..Len(Recent(u)) : g[i] = n
        BY <1>0, <3>1, CountsPruned
      <4>2. Counts(u, g)'
        BY <2>2, <3>3, <4>1 DEF Counts, Old
      <4> QED
        BY <2>2, <3>3, <4>1, <4>2
    <3> QED
      BY <2>3, <3>2, <3>3
  <2>5. ASSUME NEW n \in DOMAIN requests
        PROVE  \/ <<requests[n].id, requests[n].at>> \in seen'[requests[n].user]
               \/ requests[n].at + ReplayWindow < now
    <3>1. /\ requests[n].user \in Users
          /\ \/ <<requests[n].id, requests[n].at>> \in seen[requests[n].user]
             \/ requests[n].at + ReplayWindow < now
      BY <1>0, <1>t DEF Remembered
    <3>2. CASE requests[n].user = b /\ <<requests[n].id, requests[n].at>> \in seen[b]
      BY <2>3, <3>2 DEF Unexpired
    <3> QED
      BY <2>3, <3>1, <3>2
  <2>6. \A m, n \in DOMAIN requests :
          m < n /\ Key(m)' = Key(n)' => requests[m].at + ReplayWindow < requests[n].at
    BY <1>0, <2>2 DEF Remembered, Key
  <2> QED
    BY <2>2, <2>4, <2>5, <2>6 DEF Remembered
<1>4. ASSUME UNCHANGED requests
      PROVE  Kept
  BY <1>0, <1>4, RequestFacts DEF Kept, Key
<1>5. CASE Tick \/ UNCHANGED vars
  BY <1>1, <1>4, <1>5, <1>t DEF Tick, vars, limiter
<1>6. ASSUME NEW s \in Sessions, NEW id \in Ids, Cancel(s, id)
      PROVE  Remembered'
  <2>1. Kept
    BY <1>0, <1>6, CancelFacts DEF Cancel, Relabels
  <2> QED
    BY <1>1, <1>6, <1>t, <2>1 DEF Cancel, limiter
<1>7. ASSUME NEW s \in Sessions, Leave(s)
      PROVE  Remembered'
  <2>1. Kept
    BY <1>0, <1>7, RebindsFacts DEF Leave, Relabels
  <2> QED
    BY <1>1, <1>7, <1>t, <2>1 DEF Leave, limiter
<1>8. ASSUME NEW s \in Sessions, NEW u \in Users, LoginAs(s, u)
      PROVE  Remembered'
  <2>1. Kept
    BY <1>0, <1>8, RebindsFacts DEF LoginAs, Relabels
  <2> QED
    BY <1>1, <1>8, <1>t, <2>1 DEF LoginAs, limiter
<1>9. ASSUME NEW n \in DOMAIN requests, Register(n) \/ TaskStep(n)
      PROVE  Remembered'
  <2>1. \E to, out : Turns(n, to, out)
    BY <1>0, <1>9, TaskFacts DEF TaskStep
  <2>2. Kept
    BY <2>1, TurnsKeeps
  <2>3. UNCHANGED <<recent, seen, now>>
    BY <1>9 DEF TaskStep, Register, ReadContext, CheckAgain, Answer, EraseMarks, Release,
                limiter
  <2> QED
    BY <1>1, <1>t, <2>2, <2>3
<1>10. CASE Start
  <2>1. Kept
    BY <1>0, <1>10, StartFacts, TurnsKeeps
  <2> QED
    BY <1>1, <1>10, <1>t, <2>1 DEF Start, limiter
<1> QED
  BY <1>2, <1>3, <1>5, <1>6, <1>7, <1>8, <1>9, <1>10 DEF Next

\* IInv is an invariant of the specification.
LEMMA IInvInvariant == Spec => []IInv
<1>1. IInv /\ [Next]_vars => IInv'
  BY TypeStep, SlotsStep, KeysStep, QueuedStep, CalledOffStep, RememberedStep DEF IInv
<1> QED
  BY InitIInv, <1>1, PTL DEF Spec

\* AiRequestLimiter, onReply, onCancel and finishRequest keep their books, with any number
\* of users, connections, requests and workers.
THEOREM AiBooksMatchRequests == Spec => []BooksMatchRequests
<1>1. IInv => BooksMatchRequests
  <2> SUFFICES ASSUME IInv PROVE BooksMatchRequests
    OBVIOUS
  <2>0. TypeOK /\ Slots /\ Keys
    BY DEF IInv
  <2>1. inFlight = {requests[n].user : n \in Unfinished}
    BY <2>0 DEF Slots, Unfinished
  <2>2. \A m, n \in Unfinished : requests[m].user = requests[n].user => m = n
    BY <2>0 DEF Slots, Unfinished
  <2>3. Cardinality(Unfinished) <= MaxPending
    <3> DEFINE f == [n \in Unfinished |-> requests[n].user]
    <3>1. f \in Injection(Unfinished, inFlight)
      BY <2>1, <2>2 DEF Injection, IsInjective
    <3>2. /\ IsFiniteSet(inFlight) /\ Cardinality(inFlight) <= MaxPending
          /\ Cardinality(inFlight) \in Nat /\ MaxPending \in Nat
      BY <2>0, FS_CardinalityType, AiAssumption DEF Slots
    <3> HIDE DEF f
    <3>3. IsFiniteSet(Unfinished) /\ Cardinality(Unfinished) <= Cardinality(inFlight)
      BY <3>1, <3>2, FS_Injection
    <3>4. Cardinality(Unfinished) \in Nat
      BY <3>3, FS_CardinalityType
    <3> QED
      BY <3>2, <3>3, <3>4
  <2>4. active = {Key(n) :
          n \in {m \in Unfinished : requests[m].pc \notin {"admitted", "erased"}}}
    <3>1. \A n \in DOMAIN requests : requests[n].pc \in Marked <=>
            n \in {m \in Unfinished : requests[m].pc \notin {"admitted", "erased"}}
      <4>1. \A n \in DOMAIN requests : requests[n].pc \in Pcs
        BY <2>0, RequestFacts
      <4> QED
        BY <4>1 DEF Pcs, OnWorker, Marked, Unfinished
    <3>2. \A n : n \in {m \in Unfinished : requests[m].pc \notin {"admitted", "erased"}} =>
            n \in DOMAIN requests
      BY DEF Unfinished
    <3> QED
      BY <2>0, <3>1, <3>2 DEF Keys
  <2> QED
    BY <2>0, <2>1, <2>2, <2>3, <2>4 DEF BooksMatchRequests, Keys
<1> QED
  BY IInvInvariant, <1>1, PTL

\* tryAcquire: the rate and the replay window hold for every limit, window and pattern of
\* requests, though the times and ids it keeps are pruned only when it is asked.
THEOREM AiWindowsHold == Spec => []WindowsHold
<1>1. IInv => WindowsHold
  <2> SUFFICES ASSUME IInv PROVE WindowsHold
    OBVIOUS
  <2>0. TypeOK /\ Remembered
    BY DEF IInv
  <2>1. ASSUME NEW u \in Users
        PROVE  Cardinality({n \in DOMAIN requests :
                 requests[n].user = u /\ requests[n].at + Minute >= now}) <= PerMinute
    <3> DEFINE W == {n \in DOMAIN requests :
                       requests[n].user = u /\ requests[n].at + Minute >= now}
               L == 1..Len(recent[u])
    <3>1. PICK f \in [L -> DOMAIN requests] : Counts(u, f)
      BY <2>0 DEF Remembered
    <3>2. /\ Len(recent[u]) \in Nat /\ Len(recent[u]) <= PerMinute /\ PerMinute \in Nat
          /\ now \in Nat /\ Minute \in Nat
      BY <2>0, AiAssumption, LenProperties DEF TypeOK
    <3>3. \A n \in W : ~Old(requests[n].at) /\ requests[n].user = u /\ n \in DOMAIN requests
      <4>1. \A n \in DOMAIN requests : requests[n].at \in Nat
        BY <2>0, RequestFacts
      <4> QED
        BY <3>2, <4>1 DEF Old
    <3>4. \A n \in W : \E i \in L : f[i] = n
      BY <3>1, <3>3 DEF Counts
    <3> DEFINE S == {i \in L : f[i] \in W}
               g == [i \in S |-> f[i]]
    <3>5. IsFiniteSet(L) /\ Cardinality(L) = Len(recent[u])
      BY <3>2, FS_Interval
    <3> HIDE DEF W, L
    <3>6. S \in SUBSET L
      OBVIOUS
    <3>7. IsFiniteSet(S) /\ Cardinality(S) <= Cardinality(L)
      BY <3>5, <3>6, FS_Subset
    <3>8. g \in Surjection(S, W)
      BY <3>4 DEF Surjection
    <3> HIDE DEF g, S
    <3>9. IsFiniteSet(W) /\ Cardinality(W) <= Cardinality(S)
      BY <3>7, <3>8, FS_Surjection
    <3>10. Cardinality(W) \in Nat /\ Cardinality(S) \in Nat
      BY <3>7, <3>9, FS_CardinalityType
    <3>11. Cardinality(W) <= PerMinute
      BY <3>2, <3>5, <3>7, <3>9, <3>10
    <3> QED
      BY <3>11 DEF W
  <2>2. \A m, n \in DOMAIN requests :
          m < n /\ Key(m) = Key(n) => requests[m].at + ReplayWindow < requests[n].at
    BY <2>0 DEF Remembered
  <2> QED
    BY <2>1, <2>2 DEF WindowsHold
<1> QED
  BY IInvInvariant, <1>1, PTL

\* The task of onReply: a request called off in time is never answered by the model, and
\* one without an answer was called off or lost its connection.
THEOREM AiSilentIffCalledOff == Spec => []SilentIffCalledOff
<1>1. IInv => SilentIffCalledOff
  BY DEF IInv, CalledOff, SilentAt, SilentIffCalledOff, Ended
<1> QED
  BY IInvInvariant, <1>1, PTL

=============================================================================
