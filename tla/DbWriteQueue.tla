---------------------------- MODULE DbWriteQueue ----------------------------
(***************************************************************************)
(* The single-writer queue of the database: im_server/src/DbWriteQueue.h   *)
(* and DbWriteQueue.cpp.                                                   *)
(*                                                                         *)
(* submit() queues a task under m_mtx, notifies the worker after it let go *)
(* of the mutex, and blocks on the task's future.  The worker waits on     *)
(* m_cv; a notification reaches it only while it is asleep.  A task may    *)
(* throw, and may call submit() itself.  The destructor may start while    *)
(* callers are blocked on a future (they use the queue no more), not while *)
(* one is still inside submit() before that.                               *)
(*                                                                         *)
(* What the tasks write is Database's business: a task is who submitted it *)
(* and how it behaves.                                                     *)
(***************************************************************************)
EXTENDS Naturals, Sequences

CONSTANTS Callers,
          MaxSubmits    \* bound: accepted tasks

ASSUME SubmitsAssumption == MaxSubmits \in Nat

VARIABLES
  running,    \* m_running: "yes" or "no"
  db,         \* m_db: "open" or "closed"
  accepted,   \* every task ever queued, oldest first
  taken,      \* how many of them the worker has taken; the rest is m_queue
  ran,        \* how many of them have run to their end
  worker,     \* where the worker thread stands
  workerId,   \* m_workerId: "unset" or "set"
  caller,     \* where each calling thread stands
  result,     \* result[c]: what the future of c's task holds
  dtor        \* where the destructor stands

queueVars == <<running, db, accepted, taken, ran, worker, workerId, caller, result, dtor>>
callerVars == <<caller, result>>
workerVars == <<taken, ran, worker, workerId>>

TaskKinds == {"plain", "throws", "nested"}
Task == [by : Callers, kind : TaskKinds]

QueueInit ==
  /\ running = "no" /\ db = "closed"
  /\ accepted = <<>> /\ taken = 0 /\ ran = 0
  /\ worker = "none" /\ workerId = "unset"
  /\ caller = [c \in Callers |-> "idle"]
  /\ result = [c \in Callers |-> "none"]
  /\ dtor = "no"

QueueEmpty == taken = Len(accepted)

\* notify: wakes the worker if it is asleep, is lost otherwise.
Woken == IF worker = "asleep" THEN "check" ELSE worker

\* open(): once; a second call finds it running and does nothing.  (A database that
\* cannot be opened changes nothing.)
Open ==
  /\ dtor = "no" /\ running = "no"
  /\ db' = "open" /\ running' = "yes" /\ worker' = "start"
  /\ UNCHANGED <<accepted, taken, ran, workerId, callerVars, dtor>>

\* submit() up to the end of its critical section.
Submit(c, kind) ==
  /\ caller[c] = "idle" /\ dtor # "closed"
  /\ Len(accepted) < MaxSubmits
  /\ IF running = "no"
     THEN /\ result' = [result EXCEPT ![c] = "refused"]
          /\ UNCHANGED <<accepted, caller>>
     ELSE /\ accepted' = Append(accepted, [by |-> c, kind |-> kind])
          /\ caller' = [caller EXCEPT ![c] = "notify"]
          /\ result' = [result EXCEPT ![c] = "none"]
  /\ UNCHANGED <<running, db, workerVars, dtor>>

\* m_cv.notify_one()
Notify(c) ==
  /\ caller[c] = "notify"
  /\ caller' = [caller EXCEPT ![c] = "wait"]
  /\ worker' = Woken
  /\ UNCHANGED <<running, db, accepted, taken, ran, workerId, result, dtor>>

\* future.get() returns, or throws what the task threw.
Return(c) ==
  /\ caller[c] = "wait" /\ result[c] # "none"
  /\ caller' = [caller EXCEPT ![c] = "idle"]
  /\ UNCHANGED <<running, db, accepted, workerVars, result, dtor>>

-----------------------------------------------------------------------------
(* run(), the worker thread.                                               *)

\* Slip: m_workerId is never set.
RecordNoId ==
  /\ worker = "start"
  /\ worker' = "check"
  /\ UNCHANGED <<running, db, accepted, taken, ran, workerId, callerVars, dtor>>

RecordId ==
  /\ worker = "start"
  /\ workerId' = "set" /\ worker' = "check"
  /\ UNCHANGED <<running, db, accepted, taken, ran, callerVars, dtor>>

\* Slip: a stop is obeyed at once, queued tasks or not.
CheckStopsAtOnce ==
  /\ worker = "check"
  /\ \/ /\ QueueEmpty /\ running = "yes"
        /\ worker' = "asleep"
        /\ UNCHANGED <<taken, workerId>>
     \/ /\ running = "no"
        /\ worker' = "exited" /\ workerId' = "unset"
        /\ UNCHANGED taken
     \/ /\ ~QueueEmpty /\ running = "yes"
        /\ taken' = taken + 1 /\ worker' = "run"
        /\ UNCHANGED workerId
  /\ UNCHANGED <<running, db, accepted, ran, callerVars, dtor>>

\* Slip: woken up means there is a task.
CheckTrustsWakeup ==
  /\ worker = "check"
  /\ \/ /\ QueueEmpty /\ running = "no"
        /\ worker' = "exited" /\ workerId' = "unset"
        /\ UNCHANGED taken
     \/ /\ ~QueueEmpty \/ running = "yes"
        /\ taken' = taken + 1 /\ worker' = "run"
        /\ UNCHANGED workerId
  /\ UNCHANGED <<running, db, accepted, ran, callerVars, dtor>>

\* The predicate of m_cv.wait, under the mutex: sleep, stop or take a task.
Check ==
  /\ worker = "check"
  /\ \/ /\ QueueEmpty /\ running = "yes"
        /\ worker' = "asleep"
        /\ UNCHANGED <<taken, workerId>>
     \/ /\ QueueEmpty /\ running = "no"
        /\ worker' = "exited" /\ workerId' = "unset"
        /\ UNCHANGED taken
     \/ /\ ~QueueEmpty
        /\ taken' = taken + 1 /\ worker' = "run"
        /\ UNCHANGED workerId
  /\ UNCHANGED <<running, db, accepted, ran, callerVars, dtor>>

SpuriousWakeup ==
  /\ worker = "asleep"
  /\ worker' = "check"
  /\ UNCHANGED <<running, db, accepted, taken, ran, workerId, callerVars, dtor>>

\* The task runs; its value or exception goes to the future.  A submit() made by the
\* task is refused because this is the worker thread; were it accepted, the worker
\* would wait for itself.
RunTask ==
  /\ worker = "run"
  /\ LET t == accepted[taken] IN
       IF t.kind = "nested" /\ workerId = "unset"
       THEN worker' = "waits for itself" /\ UNCHANGED <<ran, result>>
       ELSE /\ ran' = ran + 1
            /\ result' = [result EXCEPT ![t.by] =
                            IF t.kind = "plain" THEN "value" ELSE "exception"]
            /\ worker' = "check"
  /\ UNCHANGED <<running, db, accepted, taken, workerId, caller, dtor>>

-----------------------------------------------------------------------------
(* The destructor.                                                         *)

Destroy ==
  /\ dtor = "no"
  /\ \A c \in Callers : caller[c] # "notify"
  /\ running' = "no" /\ dtor' = "notify"
  /\ UNCHANGED <<db, accepted, workerVars, callerVars>>

\* Slip: the destructor wakes nobody.
DestroySilently ==
  /\ dtor = "notify"
  /\ dtor' = "join"
  /\ UNCHANGED <<running, db, accepted, workerVars, callerVars>>

DestroyNotify ==
  /\ dtor = "notify"
  /\ worker' = Woken /\ dtor' = "join"
  /\ UNCHANGED <<running, db, accepted, taken, ran, workerId, callerVars>>

DestroyJoin ==
  /\ dtor = "join" /\ worker \in {"none", "exited"}
  /\ db' = "closed" /\ dtor' = "closed"
  /\ UNCHANGED <<running, accepted, workerVars, callerVars>>

-----------------------------------------------------------------------------

Worker == RecordId \/ Check \/ RunTask
Caller(c) == Notify(c) \/ Return(c)

QueueNext ==
  \/ Open
  \/ \E c \in Callers : Caller(c) \/ \E kind \in TaskKinds : Submit(c, kind)
  \/ Worker \/ SpuriousWakeup
  \/ Destroy \/ DestroyNotify \/ DestroyJoin

QueueSpec == QueueInit /\ [][QueueNext]_queueVars

\* Threads that can take a step take it; tasks end.  Nobody has to submit or destroy,
\* and no spurious wake-up helps.
QueueFairSpec ==
  /\ QueueSpec
  /\ WF_queueVars(Worker) /\ WF_queueVars(DestroyNotify) /\ WF_queueVars(DestroyJoin)
  /\ \A c \in Callers : WF_queueVars(Caller(c))

-----------------------------------------------------------------------------
(* Properties.                                                             *)

\* Every variable has the type of the member it stands for.
QueueTypeOK ==
  /\ running \in {"yes", "no"} /\ db \in {"open", "closed"}
  /\ accepted \in Seq(Task) /\ taken \in 0..Len(accepted) /\ ran \in Nat
  /\ worker \in {"none", "start", "check", "asleep", "run", "exited", "waits for itself"}
  /\ workerId \in {"set", "unset"}
  /\ caller \in [Callers -> {"idle", "notify", "wait"}]
  /\ result \in [Callers -> {"none", "value", "exception", "refused"}]
  /\ dtor \in {"no", "notify", "join", "closed"}

\* The worker writes alone, on an open connection, and never waits for itself: from
\* taking a task to its end it is the only one under way.
WritesAlone ==
  /\ worker = "run" => taken = ran + 1 /\ db = "open"
  /\ worker \notin {"run", "waits for itself"} => taken = ran
  /\ worker # "waits for itself"

\* The task of a caller who was answered, or has gone, has run.
ResultAfterRun ==
  \A i \in (ran + 1)..Len(accepted) : /\ caller[accepted[i].by] # "idle"
                                      /\ result[accepted[i].by] = "none"

\* Nobody is told anything of a task before it has run to its end, and once the
\* connection is closed nobody waits for one: everything accepted has run.
NothingLeftBehind ==
  /\ ResultAfterRun
  /\ dtor = "closed" => /\ ran = Len(accepted)
                        /\ \A c \in Callers : caller[c] = "wait" => result[c] # "none"

\* Every submit() that got in comes back, whatever the tasks do and whoever destroys
\* the queue meanwhile, and the destructor ends: no notification is lost for good.
NobodyWaitsForEver ==
  /\ \A c \in Callers : (caller[c] # "idle") ~> (caller[c] = "idle")
  /\ (dtor = "notify") ~> (dtor = "closed")

=============================================================================
