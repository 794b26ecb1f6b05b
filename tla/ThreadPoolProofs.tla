-------------------------- MODULE ThreadPoolProofs --------------------------
(***************************************************************************)
(* Theorems about ThreadPool, for any number of tasks and threads and any  *)
(* queue size.                                                             *)
(***************************************************************************)
EXTENDS ThreadPool, FiniteSetTheorems, TLAPS

(* Until stop() begins the pool has a thread, and its threads are the ones *)
(* in workers_.                                                            *)
PoolRuns ==
  /\ stopped <=> stopPc # "none"
  /\ ~stopped => /\ workers # {}
                 /\ \A w \in Workers : worker[w] = "absent" <=> w \notin workers
                 /\ \A w \in Workers : worker[w] # "exited"

(* Only the BLOCK policy makes a caller sleep.                             *)
BlockedByPolicy ==
  \A t \in Tasks : call[t] \in {"blocked", "woken"} => policy = "BLOCK"

PoolInv == TypeOK /\ PoolRuns /\ NobodySleepsOnWork /\ BlockedByPolicy /\ BlockedForAReason

USE DEF CallStates, WorkerStates, Kinds, AllPolicies

(* The initial state satisfies it.                                         *)
LEMMA InitPool == Init => PoolInv
<1> SUFFICES ASSUME Init PROVE PoolInv
  OBVIOUS
<1> USE DEF Init
<1>1. TypeOK
  <2>1. policy \in AllPolicies /\ workers \in SUBSET Workers /\ NoTask \notin Tasks
    BY PoolAssumption
  <2>2. stopped \in BOOLEAN
    BY Zenon
  <2>3. worker \in [Workers -> WorkerStates] /\ task \in [Workers -> Tasks \cup {NoTask}]
    OBVIOUS
  <2>4. \A w \in Workers : task[w] # NoTask <=> worker[w] \in {"running", "ran"}
    OBVIOUS
  <2> QED
    BY <2>1, <2>2, <2>3, <2>4 DEF TypeOK
<1>2. PoolRuns
  BY PoolAssumption DEF PoolRuns
<1>3. NobodySleepsOnWork /\ BlockedByPolicy /\ BlockedForAReason
  BY DEF NobodySleepsOnWork, BlockedByPolicy, BlockedForAReason
<1> QED
  BY <1>1, <1>2, <1>3 DEF PoolInv

(* What a push does to workers: one may be added or woken, none is sent to *)
(* sleep, and one that is awake is left.                                   *)
LEMMA PushWakes ==
  ASSUME PoolAssumption, TypeOK, PoolRuns, NEW t \in Tasks, NEW rest, Push(t, rest)
  PROVE  /\ worker' \in [Workers -> WorkerStates]
         /\ workers' \in SUBSET Workers
         /\ \A w \in Workers : worker'[w] # worker[w] => worker[w] \in {"absent", "idle"}
                                                      /\ worker'[w] = "ready"
         /\ ~stopped => /\ \E w \in workers' : worker'[w] \notin {"idle", "exited"}
                        /\ \A w \in Workers : worker'[w] = "absent" <=> w \notin workers'
         /\ queue' = rest \cup {t}
         /\ call' = [call EXCEPT ![t] = IF kind[t] = "enqueue_and_wait" THEN "awaiting"
                                        ELSE "accepted"]
<1> USE DEF TypeOK
<1>q. /\ queue' = rest \cup {t}
      /\ call' = [call EXCEPT ![t] = IF kind[t] = "enqueue_and_wait" THEN "awaiting"
                                     ELSE "accepted"]
  BY DEF Push, Answer, Returned
<1>1. CASE NeedsThread /\ kind[t] # "try_enqueue"
  <2>1. PICK v \in Workers : /\ worker[v] = "absent"
                             /\ workers' = workers \cup {v}
                             /\ NotifyOne([worker EXCEPT ![v] = "ready"])
    BY <1>1 DEF Push
  <2> DEFINE ws == [worker EXCEPT ![v] = "ready"]
  <2>2. worker' = ws \/ \E u \in workers : ws[u] = "idle" /\ worker' = [ws EXCEPT ![u] = "ready"]
    BY <2>1 DEF NotifyOne, Sleeping
  <2> QED
    BY <1>q, <2>1, <2>2 DEF PoolRuns
<1>2. CASE ~(NeedsThread /\ kind[t] # "try_enqueue")
  <2>1. NotifyOne(worker) /\ workers' = workers
    BY <1>2 DEF Push
  <2>2. CASE Sleeping(worker) = {}
    BY <1>q, <2>1, <2>2 DEF NotifyOne, Sleeping, PoolRuns
  <2>3. CASE Sleeping(worker) # {}
    <3>1. PICK u \in workers : worker[u] = "idle" /\ worker' = [worker EXCEPT ![u] = "ready"]
      BY <2>1, <2>3 DEF NotifyOne, Sleeping
    <3> QED
      BY <1>q, <2>1, <3>1 DEF PoolRuns
  <2> QED
    BY <2>2, <2>3
<1> QED
  BY <1>1, <1>2

(* A push leaves the task of every worker matched to its state.            *)
LEMMA PushTypes ==
  ASSUME PoolAssumption, TypeOK, PoolRuns, NEW t \in Tasks, NEW rest \in SUBSET Tasks,
         Push(t, rest), UNCHANGED <<policy, kind, done, task, active, stopVars, waitPc>>
  PROVE  TypeOK'
<1> USE DEF stopVars
<1>1. /\ worker' \in [Workers -> WorkerStates]
      /\ workers' \in SUBSET Workers
      /\ \A w \in Workers : worker'[w] # worker[w] => worker[w] \in {"absent", "idle"}
                                                   /\ worker'[w] = "ready"
      /\ queue' = rest \cup {t}
      /\ call' = [call EXCEPT ![t] = IF kind[t] = "enqueue_and_wait" THEN "awaiting"
                                     ELSE "accepted"]
  BY PushWakes
<1>2. \A w \in Workers : task'[w] # NoTask <=> worker'[w] \in {"running", "ran"}
  BY <1>1 DEF TypeOK
<1>3. call' \in [Tasks -> CallStates] /\ queue' \in SUBSET Tasks
  BY <1>1 DEF TypeOK
<1> QED
  BY <1>1, <1>2, <1>3 DEF TypeOK

(* Every step keeps the types.                                             *)
LEMMA TypeStep ==
  ASSUME PoolAssumption, TypeOK, PoolRuns, [Next]_vars
  PROVE  TypeOK'
<1>1. CASE UNCHANGED vars
  BY <1>1 DEF vars, poolVars, stopVars, TypeOK
<1>2. ASSUME NEW t \in Tasks, NEW k \in Kinds, Submit(t, k)
      PROVE  TypeOK'
  BY <1>2 DEF Submit, TypeOK, poolVars, stopVars
<1>3. ASSUME NEW t \in Tasks, Enter(t)
      PROVE  TypeOK'
  <2>1. ASSUME NEW u \in Tasks, Push(t, queue \ {u})
        PROVE  TypeOK'
    BY <1>3, <2>1, PushTypes DEF Enter, TypeOK
  <2>2. CASE Push(t, queue)
    BY <1>3, <2>2, PushTypes DEF Enter, TypeOK
  <2>3. CASE UNCHANGED <<queue, worker, workers>> /\ \E r \in CallStates : call' = [call EXCEPT ![t] = r]
    BY <1>3, <2>3 DEF Enter, TypeOK, stopVars
  <2> QED
    BY <1>3, <2>1, <2>2, <2>3 DEF Enter, Answer, Returned, Top
<1>4. ASSUME NEW t \in Tasks, Unblock(t)
      PROVE  TypeOK'
  <2>1. CASE Push(t, queue)
    BY <1>4, <2>1, PushTypes DEF Unblock, TypeOK
  <2>2. CASE UNCHANGED <<queue, worker, workers>> /\ \E r \in CallStates : call' = [call EXCEPT ![t] = r]
    BY <1>4, <2>2 DEF Unblock, TypeOK, stopVars
  <2> QED
    BY <1>4, <2>1, <2>2 DEF Unblock, Answer, Returned
<1>5. ASSUME NEW t \in Tasks, AwaitReturns(t)
      PROVE  TypeOK'
  BY <1>5 DEF AwaitReturns, TypeOK, poolVars, stopVars
<1>6. ASSUME NEW w \in Workers, Fetch(w)
      PROVE  TypeOK'
  BY <1>6, PoolAssumption DEF Fetch, TypeOK, stopVars
<1>7. ASSUME NEW w \in Workers, Execute(w)
      PROVE  TypeOK'
  BY <1>7 DEF Execute, TypeOK, stopVars
<1>8. ASSUME NEW w \in Workers, Decrement(w)
      PROVE  TypeOK'
  BY <1>8 DEF Decrement, TypeOK, stopVars
<1>9. ASSUME NEW w \in Workers, Notify(w)
      PROVE  TypeOK'
  BY <1>9 DEF Notify, NotifyDone, TypeOK, stopVars
<1>10. CASE WaitAll \/ WaitCheck \/ WaitSleep \/ ClearQueue
  BY <1>10 DEF WaitAll, WaitCheck, WaitSleep, ClearQueue, TypeOK, poolVars, stopVars
<1>11. CASE StopSet
  <2>1. stopped' \in BOOLEAN
    BY <1>11, Zenon DEF StopSet
  <2>2. stopPc' = "notify" /\ UNCHANGED <<policy, call, kind, done, queue, poolVars, joinSet, waitPc>>
    BY <1>11 DEF StopSet
  <2> QED
    BY <2>1, <2>2 DEF TypeOK, poolVars
<1>12. CASE StopNotify
  BY <1>12 DEF StopNotify, NotifyDone, TypeOK
<1>13. CASE StopClear
  BY <1>13 DEF StopClear, TypeOK
<1> QED
  BY <1>1, <1>2, <1>3, <1>4, <1>5, <1>6, <1>7, <1>8, <1>9, <1>10, <1>11, <1>12, <1>13
     DEF Next, CallerStep, WorkerStep

(* A push keeps the rest of the invariant: somebody is awake for the task, *)
(* and a sleeping caller keeps its reason.                                 *)
LEMMA PushKeeps ==
  ASSUME PoolAssumption, PoolInv, NEW t \in Tasks, NEW rest \in SUBSET Tasks,
         Push(t, rest), UNCHANGED <<policy, kind, done, task, active, stopVars, waitPc>>,
         (rest = queue /\ ~Full) \/ policy # "BLOCK"
  PROVE  (PoolRuns /\ NobodySleepsOnWork /\ BlockedByPolicy /\ BlockedForAReason)'
<1> USE DEF PoolInv, stopVars
<1>1. /\ \A w \in Workers : worker'[w] # worker[w] => worker[w] \in {"absent", "idle"}
                                                   /\ worker'[w] = "ready"
      /\ ~stopped => /\ \E w \in workers' : worker'[w] \notin {"idle", "exited"}
                     /\ \A w \in Workers : worker'[w] = "absent" <=> w \notin workers'
      /\ call' = [call EXCEPT ![t] = IF kind[t] = "enqueue_and_wait" THEN "awaiting"
                                     ELSE "accepted"]
  BY PushWakes
<1>2. PoolRuns'
  BY <1>1 DEF PoolRuns
<1>3. NobodySleepsOnWork'
  BY <1>1 DEF NobodySleepsOnWork
<1>4. BlockedByPolicy'
  BY <1>1 DEF BlockedByPolicy, TypeOK
<1>5. BlockedForAReason'
  <2> SUFFICES ASSUME ~ClearAllowed, NEW u \in Tasks, call'[u] = "blocked"
               PROVE  stopPc' = "notify" \/ \E w \in Workers : worker'[w] \in {"running", "ran", "counted"}
    BY DEF BlockedForAReason
  <2>1. call[u] = "blocked" /\ policy = "BLOCK" /\ ~Full
    BY <1>1 DEF TypeOK, BlockedByPolicy
  <2>2. stopPc = "notify" \/ \E w \in Workers : worker[w] \in {"running", "ran", "counted"}
    BY <2>1 DEF BlockedForAReason
  <2> QED
    BY <1>1, <2>2
<1> QED
  BY <1>2, <1>3, <1>4, <1>5

(* A step that only moves one caller keeps it too.                         *)
LEMMA CallerKeeps ==
  ASSUME PoolInv, NEW t \in Tasks, NEW r \in CallStates, call' = [call EXCEPT ![t] = r],
         UNCHANGED <<policy, queue, worker, workers, stopVars>>,
         r = "blocked" => Full /\ ~stopped /\ policy = "BLOCK", r # "woken"
  PROVE  (PoolRuns /\ NobodySleepsOnWork /\ BlockedByPolicy /\ BlockedForAReason)'
BY DEF PoolInv, PoolRuns, NobodySleepsOnWork, BlockedByPolicy, BlockedForAReason, Full, TypeOK,
       stopVars

(* Every step keeps the invariant.                                         *)
LEMMA PoolStep == PoolAssumption /\ PoolInv /\ [Next]_vars => PoolInv'
<1> SUFFICES ASSUME PoolAssumption, PoolInv, [Next]_vars
             PROVE  PoolInv'
  OBVIOUS
<1> DEFINE Rest == PoolRuns /\ NobodySleepsOnWork /\ BlockedByPolicy /\ BlockedForAReason
<1> USE DEF stopVars, poolVars
<1>t. TypeOK /\ PoolRuns /\ TypeOK'
  BY TypeStep DEF PoolInv
<1>1. ASSUME UNCHANGED vars
      PROVE  Rest'
  BY <1>1, <1>t DEF vars, PoolInv, PoolRuns, NobodySleepsOnWork, BlockedByPolicy,
                    BlockedForAReason, Full
<1>2. ASSUME NEW t \in Tasks, NEW k \in Kinds, Submit(t, k)
      PROVE  Rest'
  BY <1>2, CallerKeeps DEF Submit
<1>3. ASSUME NEW t \in Tasks, Enter(t)
      PROVE  Rest'
  <2>1. ASSUME NEW u \in Tasks, Push(t, queue \ {u}), policy = "DISCARD_OLDEST"
        PROVE  Rest'
    BY <1>3, <1>t, <2>1, PushKeeps DEF Enter, TypeOK
  <2>2. CASE ~Full /\ Push(t, queue)
    BY <1>3, <1>t, <2>2, PushKeeps DEF Enter, TypeOK
  <2>3. ASSUME NEW r \in CallStates, UNCHANGED <<queue, worker, workers>>,
               call' = [call EXCEPT ![t] = r], r = "blocked" => Full /\ ~stopped /\ policy = "BLOCK", r # "woken"
        PROVE  Rest'
    BY <1>3, <2>3, CallerKeeps DEF Enter
  <2> QED
    BY <1>3, <2>1, <2>2, <2>3 DEF Enter, Answer, Returned, Top
<1>4. ASSUME NEW t \in Tasks, Unblock(t)
      PROVE  Rest'
  <2>1. CASE ~Full /\ Push(t, queue)
    BY <1>4, <1>t, <2>1, PushKeeps DEF Unblock, TypeOK
  <2>2. ASSUME NEW r \in CallStates, UNCHANGED <<queue, worker, workers>>,
               call' = [call EXCEPT ![t] = r], r = "blocked" => Full /\ ~stopped /\ policy = "BLOCK", r # "woken"
        PROVE  Rest'
    BY <1>4, <2>2, CallerKeeps DEF Unblock
  <2>3. policy = "BLOCK"
    BY <1>4 DEF Unblock, PoolInv, BlockedByPolicy
  <2> QED
    BY <1>4, <2>1, <2>2, <2>3 DEF Unblock, Answer, Returned
<1>5. ASSUME NEW t \in Tasks, AwaitReturns(t)
      PROVE  Rest'
  BY <1>5, CallerKeeps DEF AwaitReturns
<1>6. ASSUME NEW w \in Workers, Fetch(w)
      PROVE  Rest'
  <2> USE <1>6, <1>t DEF Fetch, TypeOK
  <2>1. PoolRuns'
    BY DEF PoolRuns
  <2>2. NobodySleepsOnWork'
    <3>1. queue' # {} /\ ~stopped' => \E v \in workers' : worker'[v] \notin {"idle", "exited"}
      BY DEF PoolRuns
    <3>2. ASSUME stopPc' \in {"join", "done", "terminated"}
          PROVE  (\A v \in Workers : worker'[v] # "idle") /\ \A t \in Tasks : call'[t] # "blocked"
      BY <3>2 DEF PoolInv, PoolRuns, NobodySleepsOnWork
    <3> QED
      BY <3>1, <3>2 DEF NobodySleepsOnWork
  <2>3. BlockedByPolicy'
    BY DEF BlockedByPolicy, PoolInv
  <2>4. BlockedForAReason'
    BY DEF BlockedForAReason, PoolInv, Full
  <2> QED
    BY <2>1, <2>2, <2>3, <2>4
<1>7. ASSUME NEW w \in Workers, Execute(w) \/ Decrement(w)
      PROVE  Rest'
  <2> USE <1>7, <1>t DEF Execute, Decrement, TypeOK, PoolInv
  <2>1. PoolRuns'
    BY DEF PoolRuns
  <2>2. NobodySleepsOnWork'
    BY DEF NobodySleepsOnWork
  <2>3. BlockedByPolicy'
    BY DEF BlockedByPolicy
  <2>4. BlockedForAReason'
    BY DEF BlockedForAReason, Full
  <2> QED
    BY <2>1, <2>2, <2>3, <2>4
<1>8. ASSUME NEW w \in Workers, Notify(w)
      PROVE  Rest'
  <2> USE <1>8, <1>t DEF Notify, NotifyDone, TypeOK, PoolInv
  <2>1. PoolRuns'
    BY DEF PoolRuns
  <2>2. NobodySleepsOnWork'
    BY DEF NobodySleepsOnWork
  <2>3. BlockedByPolicy'
    BY DEF BlockedByPolicy
  <2>4. BlockedForAReason'
    BY DEF BlockedForAReason
  <2> QED
    BY <2>1, <2>2, <2>3, <2>4
<1>9. ASSUME WaitAll \/ WaitCheck \/ WaitSleep
      PROVE  Rest'
  BY <1>9 DEF WaitAll, WaitCheck, WaitSleep, PoolInv, PoolRuns, NobodySleepsOnWork,
              BlockedByPolicy, BlockedForAReason, Full
<1>10. ASSUME ClearQueue
      PROVE  Rest'
  BY <1>10 DEF ClearQueue, PoolInv, PoolRuns, NobodySleepsOnWork, BlockedByPolicy,
               BlockedForAReason
<1>11. ASSUME StopSet
      PROVE  Rest'
  BY <1>11 DEF StopSet, PoolInv, PoolRuns, NobodySleepsOnWork, BlockedByPolicy,
               BlockedForAReason
<1>12. ASSUME StopNotify
      PROVE  Rest'
  BY <1>12 DEF StopNotify, NotifyDone, PoolInv, PoolRuns, NobodySleepsOnWork,
               BlockedByPolicy, BlockedForAReason
<1>13. ASSUME StopClear
      PROVE  Rest'
  BY <1>13 DEF StopClear, PoolInv, PoolRuns, NobodySleepsOnWork, BlockedByPolicy,
               BlockedForAReason, Full
<1>14. Rest'
  BY <1>1, <1>2, <1>3, <1>4, <1>5, <1>6, <1>7, <1>8, <1>9, <1>10, <1>11, <1>12, <1>13
     DEF Next, CallerStep, WorkerStep, PoolInv
<1> QED
  BY <1>t, <1>14 DEF PoolInv

(* The inductive invariant holds.                                          *)
THEOREM PoolInvariance == Spec => []PoolInv
<1>1. PoolInv /\ [Next]_vars => PoolInv'
  BY PoolStep, PoolAssumption
<1> QED
  BY <1>1, InitPool, PTL DEF Spec

(* Type correctness; a worker has a task exactly while it is active.       *)
THEOREM PoolTypes == Spec => []TypeOK
<1>1. PoolInv => TypeOK
  BY DEF PoolInv
<1> QED
  BY <1>1, PoolInvariance, PTL

(* No wakeup of the workers is lost: they never all sleep while a task is  *)
(* queued, and stop() leaves neither a worker nor a caller asleep.         *)
THEOREM WorkersWake == Spec => []NobodySleepsOnWork
<1>1. PoolInv => NobodySleepsOnWork
  BY DEF PoolInv
<1> QED
  BY <1>1, PoolInvariance, PTL

(* No wakeup of a caller blocked by a full queue is lost, as long as       *)
(* nobody calls clear_queue.                                               *)
THEOREM CallersWake == Spec => []BlockedForAReason
<1>1. PoolInv => BlockedForAReason
  BY DEF PoolInv
<1> QED
  BY <1>1, PoolInvariance, PTL

-----------------------------------------------------------------------------
(* The limits, with the finiteness that makes cardinalities meaningful.    *)
LimitsInv == IsFiniteSet(queue) /\ IsFiniteSet(workers) /\ WithinLimits

(* A push onto a queue with room for one keeps the limits.                 *)
LEMMA PushLimits ==
  ASSUME PoolAssumption, LimitsInv, NEW t \in Tasks, NEW rest, IsFiniteSet(rest),
         Cardinality(rest) < MaxQueue, Push(t, rest)
  PROVE  LimitsInv'
<1>1. queue' = rest \cup {t}
  BY DEF Push
<1>2. IsFiniteSet(queue') /\ Cardinality(queue') <= MaxQueue
  <2>1. Cardinality(rest) \in Nat
    BY FS_CardinalityType
  <2>2. IsFiniteSet(rest \cup {t}) /\ (Cardinality(rest \cup {t}) = Cardinality(rest)
                                      \/ Cardinality(rest \cup {t}) = Cardinality(rest) + 1)
    BY FS_AddElement
  <2> QED
    BY <1>1, <2>1, <2>2, PoolAssumption
<1>3. IsFiniteSet(workers') /\ Cardinality(workers') <= MaxThreads
  <2>1. CASE workers' = workers
    BY <2>1 DEF LimitsInv, WithinLimits
  <2>2. ASSUME NEW w \in Workers, workers' = workers \cup {w}, NeedsThread
        PROVE  IsFiniteSet(workers') /\ Cardinality(workers') <= MaxThreads
    <3>1. IsFiniteSet(workers) /\ Cardinality(workers) \in Nat /\ Cardinality(workers) < MaxThreads
      BY <2>2, FS_CardinalityType DEF LimitsInv, NeedsThread
    <3>2. IsFiniteSet(workers \cup {w}) /\ (Cardinality(workers \cup {w}) = Cardinality(workers)
                                      \/ Cardinality(workers \cup {w}) = Cardinality(workers) + 1)
      BY <3>1, FS_AddElement
    <3> QED
      BY <2>2, <3>1, <3>2, PoolAssumption
  <2> QED
    BY <2>1, <2>2 DEF Push
<1> QED
  BY <1>2, <1>3 DEF LimitsInv, WithinLimits

(* LimitsInv holds.                                                        *)
LEMMA LimitsInvariance == Spec => []LimitsInv
<1>1. Init => LimitsInv
  <2> SUFFICES ASSUME Init PROVE LimitsInv
    OBVIOUS
  <2>1. IsFiniteSet(queue) /\ Cardinality(queue) = 0
    BY FS_EmptySet DEF Init
  <2>2. IsFiniteSet(workers) /\ Cardinality(workers) <= MaxThreads
    BY PoolAssumption DEF Init
  <2> QED
    BY <2>1, <2>2, PoolAssumption DEF LimitsInv, WithinLimits
<1>2. ASSUME PoolAssumption, LimitsInv, [Next]_vars
      PROVE  LimitsInv'
  <2> USE DEF poolVars
  <2>n. IsFiniteSet(queue) /\ Cardinality(queue) \in Nat /\ IsFiniteSet(workers)
    BY <1>2, FS_CardinalityType DEF LimitsInv
  <2>1. CASE UNCHANGED <<queue, workers>>
    BY <1>2, <2>1 DEF LimitsInv, WithinLimits
  <2>2. ASSUME NEW t \in Tasks, Push(t, queue), ~Full
        PROVE  LimitsInv'
    BY <1>2, <2>n, <2>2, PushLimits, PoolAssumption DEF Full
  <2>3. ASSUME NEW t \in Tasks, NEW u \in queue, Push(t, queue \ {u})
        PROVE  LimitsInv'
    <3>1. IsFiniteSet(queue \ {u}) /\ Cardinality(queue \ {u}) = Cardinality(queue) - 1
      BY <2>n, FS_RemoveElement
    <3> QED
      BY <1>2, <2>n, <2>3, <3>1, PushLimits, PoolAssumption DEF LimitsInv, WithinLimits
  <2>4. ASSUME NEW t \in Tasks, Enter(t)
        PROVE  LimitsInv'
    BY <2>1, <2>2, <2>3, <2>4 DEF Enter, Top
  <2>5. ASSUME NEW t \in Tasks, Unblock(t)
        PROVE  LimitsInv'
    BY <2>1, <2>2, <2>5 DEF Unblock
  <2>6. ASSUME NEW w \in Workers, Fetch(w)
        PROVE  LimitsInv'
    <3>1. ASSUME NEW u \in queue, queue' = queue \ {u}
          PROVE  IsFiniteSet(queue') /\ Cardinality(queue') <= MaxQueue
      <4>1. IsFiniteSet(queue \ {u}) /\ Cardinality(queue \ {u}) = Cardinality(queue) - 1
        BY <2>n, FS_RemoveElement
      <4>2. Cardinality(queue) <= MaxQueue /\ MaxQueue \in Nat
        BY <1>2, PoolAssumption DEF LimitsInv, WithinLimits
      <4> QED
        BY <2>n, <3>1, <4>1, <4>2
    <3>2. IsFiniteSet(queue') /\ Cardinality(queue') <= MaxQueue
      BY <1>2, <2>6, <3>1 DEF Fetch, Top, LimitsInv, WithinLimits
    <3> QED
      BY <1>2, <2>6, <3>2 DEF Fetch, LimitsInv, WithinLimits
  <2>7. CASE ClearQueue
    BY <1>2, <2>7, FS_EmptySet, PoolAssumption DEF ClearQueue, LimitsInv, WithinLimits
  <2>8. CASE StopClear
    BY <1>2, <2>8, FS_EmptySet, PoolAssumption DEF StopClear, LimitsInv, WithinLimits
  <2>9. ASSUME NEW w \in Workers, Execute(w) \/ Decrement(w) \/ Notify(w)
        PROVE  LimitsInv'
    BY <2>1, <2>9 DEF Execute, Decrement, Notify
  <2>10. ASSUME NEW t \in Tasks, AwaitReturns(t) \/ \E k \in Kinds : Submit(t, k)
         PROVE  LimitsInv'
    BY <2>1, <2>10 DEF AwaitReturns, Submit
  <2>11. CASE WaitAll \/ WaitCheck \/ WaitSleep \/ StopSet \/ StopNotify
    BY <2>1, <2>11 DEF WaitAll, WaitCheck, WaitSleep, StopSet, StopNotify
  <2>12. CASE UNCHANGED vars
    BY <2>1, <2>12 DEF vars
  <2> QED
    BY <1>2, <2>4, <2>5, <2>6, <2>7, <2>8, <2>9, <2>10, <2>11, <2>12
       DEF Next, CallerStep, WorkerStep
<1>3. LimitsInv /\ [Next]_vars => LimitsInv'
  BY <1>2, PoolAssumption
<1> QED
  BY <1>1, <1>3, PTL DEF Spec

(* Queue and pool never outgrow their limits, however callers that waited  *)
(* for room outside the mutex, workers and stop() interleave.              *)
THEOREM PoolLimits == Spec => []WithinLimits
<1>1. LimitsInv => WithinLimits
  BY DEF LimitsInv
<1> QED
  BY <1>1, LimitsInvariance, PTL

-----------------------------------------------------------------------------
(* A worker that has run its task has left a trace of it.                  *)
RanDone == \A w \in Workers : worker[w] = "ran" => task[w] \in done

Kept == NothingLost /\ RanDone

\* Where an accepted task is.
Somewhere(t) == t \in queue \cup done \/ \E w \in Workers : task[w] = t

(* A push onto the whole queue drops nothing.                              *)
LEMMA PushLosesNothing ==
  ASSUME PoolAssumption, PoolInv, Kept, NEW t \in Tasks, Push(t, queue),
         UNCHANGED <<policy, kind, done, task, active, stopVars, waitPc>>
  PROVE  Kept'
<1>1. /\ \A w \in Workers : worker'[w] # worker[w] => worker'[w] = "ready"
      /\ queue' = queue \cup {t}
      /\ call' = [call EXCEPT ![t] = IF kind[t] = "enqueue_and_wait" THEN "awaiting"
                                     ELSE "accepted"]
  BY PushWakes DEF PoolInv
<1>2. RanDone'
  BY <1>1 DEF Kept, RanDone
<1>3. NothingLost'
  <2> SUFFICES ASSUME policy # "DISCARD_OLDEST", ~ClearAllowed,
                      NEW u \in Tasks, call'[u] = "accepted"
               PROVE  Somewhere(u)'
    BY DEF NothingLost, Somewhere
  <2>1. u = t \/ call[u] = "accepted"
    BY <1>1 DEF PoolInv, TypeOK
  <2>2. u = t \/ Somewhere(u)
    BY <2>1 DEF Kept, NothingLost, Somewhere
  <2> QED
    BY <1>1, <2>2 DEF Somewhere
<1> QED
  BY <1>2, <1>3 DEF Kept

(* A caller that is not told "accepted" loses nothing either, nor does one *)
(* whose task is done.                                                     *)
LEMMA CallerLosesNothing ==
  ASSUME PoolInv, Kept, NEW t \in Tasks, NEW r \in CallStates, call' = [call EXCEPT ![t] = r],
         UNCHANGED <<policy, queue, done, worker, task>>, r = "accepted" => t \in done
  PROVE  Kept'
BY DEF PoolInv, Kept, NothingLost, RanDone, TypeOK

(* Every step of the pool keeps the accepted tasks.                        *)
LEMMA KeptStep ==
  ASSUME PoolAssumption, PoolInv, Kept, [Next]_vars
  PROVE  Kept'
<1> USE DEF stopVars, poolVars
<1>t. TypeOK
  BY DEF PoolInv
<1>1. ASSUME UNCHANGED <<policy, call, done, queue, worker, task>>
      PROVE  Kept'
  BY <1>1 DEF Kept, NothingLost, RanDone
<1>2. ASSUME NEW t \in Tasks, NEW k \in Kinds, Submit(t, k)
      PROVE  Kept'
  BY <1>2, CallerLosesNothing DEF Submit
<1>3. ASSUME NEW t \in Tasks, Enter(t)
      PROVE  Kept'
  <2>1. ASSUME NEW u \in Tasks, Push(t, queue \ {u}), policy = "DISCARD_OLDEST"
        PROVE  Kept'
    <3>1. NothingLost'
      BY <1>3, <2>1 DEF Enter, NothingLost
    <3>2. \A w \in Workers : worker'[w] # worker[w] => worker'[w] = "ready"
      BY <2>1, PushWakes DEF PoolInv
    <3>3. RanDone'
      BY <1>3, <3>2 DEF Enter, Kept, RanDone
    <3> QED
      BY <3>1, <3>3 DEF Kept
  <2>2. CASE Push(t, queue)
    BY <1>3, <2>2, PushLosesNothing DEF Enter
  <2>3. ASSUME NEW r \in CallStates, UNCHANGED <<queue, worker, workers>>,
               call' = [call EXCEPT ![t] = r], r # "accepted"
        PROVE  Kept'
    BY <1>3, <2>3, CallerLosesNothing DEF Enter
  <2> QED
    BY <1>3, <2>1, <2>2, <2>3 DEF Enter, Answer, Returned, Top
<1>4. ASSUME NEW t \in Tasks, Unblock(t)
      PROVE  Kept'
  <2>1. CASE Push(t, queue)
    BY <1>4, <2>1, PushLosesNothing DEF Unblock
  <2>2. ASSUME NEW r \in CallStates, UNCHANGED <<queue, worker, workers>>,
               call' = [call EXCEPT ![t] = r], r # "accepted"
        PROVE  Kept'
    BY <1>4, <2>2, CallerLosesNothing DEF Unblock
  <2> QED
    BY <1>4, <2>1, <2>2 DEF Unblock, Answer, Returned
<1>5. ASSUME NEW t \in Tasks, AwaitReturns(t)
      PROVE  Kept'
  BY <1>5, CallerLosesNothing DEF AwaitReturns
<1>6. ASSUME NEW w \in Workers, Fetch(w)
      PROVE  Kept'
  <2>1. RanDone'
    BY <1>6, <1>t DEF Fetch, Kept, RanDone, TypeOK
  <2>2. task[w] = NoTask
    BY <1>6, <1>t DEF Fetch, TypeOK
  <2>3. CASE queue' = queue /\ task' = task
    BY <1>6, <2>1, <2>3 DEF Fetch, Kept, NothingLost
  <2>4. ASSUME NEW u \in Tasks, queue' = queue \ {u}, task' = [task EXCEPT ![w] = u]
        PROVE  Kept'
    <3> SUFFICES ASSUME policy # "DISCARD_OLDEST", ~ClearAllowed,
                        NEW x \in Tasks, call[x] = "accepted"
                 PROVE  Somewhere(x)'
      BY <1>6, <2>1 DEF Fetch, Kept, NothingLost, Somewhere
    <3>1. Somewhere(x)
      BY DEF Kept, NothingLost, Somewhere
    <3>2. x = u => task'[w] = x
      BY <1>t, <2>4 DEF TypeOK
    <3>3. \A v \in Workers : task[v] = x => task'[v] = x
      BY <1>t, <2>2, <2>4, PoolAssumption DEF TypeOK
    <3> QED
      BY <1>6, <2>4, <3>1, <3>2, <3>3 DEF Somewhere, Fetch
  <2> QED
    BY <1>6, <2>3, <2>4 DEF Fetch
<1>7. ASSUME NEW w \in Workers, Execute(w)
      PROVE  Kept'
  BY <1>7, <1>t DEF Execute, Kept, NothingLost, RanDone, TypeOK
<1>8. ASSUME NEW w \in Workers, Decrement(w)
      PROVE  Kept'
  <2>1. RanDone'
    BY <1>8, <1>t DEF Decrement, Kept, RanDone, TypeOK
  <2>2. task[w] \in done
    BY <1>8 DEF Decrement, Kept, RanDone
  <2>3. NothingLost'
    BY <1>8, <1>t, <2>2 DEF Decrement, Kept, NothingLost, TypeOK
  <2> QED
    BY <2>1, <2>3 DEF Kept
<1>9. ASSUME NEW w \in Workers, Notify(w)
      PROVE  Kept'
  <2>1. RanDone'
    BY <1>9, <1>t DEF Notify, Kept, RanDone, TypeOK
  <2>2. \A t \in Tasks : call'[t] = "accepted" => call[t] = "accepted"
    BY <1>9 DEF Notify, NotifyDone
  <2> QED
    BY <1>9, <2>1, <2>2 DEF Notify, Kept, NothingLost
<1>10. ASSUME WaitAll \/ WaitCheck \/ WaitSleep \/ StopSet
       PROVE  Kept'
  BY <1>10, <1>1 DEF WaitAll, WaitCheck, WaitSleep, StopSet
<1>11. ASSUME ClearQueue
       PROVE  Kept'
  BY <1>11 DEF ClearQueue, Kept, NothingLost, RanDone
<1>12. ASSUME StopNotify
       PROVE  Kept'
  <2>1. RanDone'
    BY <1>12, <1>t DEF StopNotify, Kept, RanDone, TypeOK
  <2>2. \A t \in Tasks : call'[t] = "accepted" => call[t] = "accepted"
    BY <1>12 DEF StopNotify, NotifyDone
  <2> QED
    BY <1>12, <2>1, <2>2 DEF StopNotify, Kept, NothingLost
<1>13. ASSUME StopClear
       PROVE  Kept'
  BY <1>13, <1>1 DEF StopClear
<1> QED
  BY <1>1, <1>2, <1>3, <1>4, <1>5, <1>6, <1>7, <1>8, <1>9, <1>10, <1>11, <1>12, <1>13
     DEF Next, CallerStep, WorkerStep, vars

(* Kept holds.                                                             *)
LEMMA KeptInvariance == Spec => []Kept
<1>1. Init => Kept
  BY DEF Init, Kept, NothingLost, RanDone
<1>2. PoolInv /\ Kept /\ [Next]_vars => Kept'
  BY KeptStep, PoolAssumption
<1> QED
  BY <1>1, <1>2, PoolInvariance, PTL DEF Spec

(* What enqueue accepted is queued, in a worker's hands or done, also      *)
(* while stop() runs, unless DISCARD_OLDEST or clear_queue drops tasks.    *)
THEOREM AcceptedKept == Spec => []NothingLost
<1>1. Kept => NothingLost
  BY DEF Kept
<1> QED
  BY <1>1, KeptInvariance, PTL

-----------------------------------------------------------------------------
(***************************************************************************)
(* The pool implements TaskPool.  A task is in one place at a time, and    *)
(* until the process is terminated a thread that has work is in workers_.  *)
(***************************************************************************)
OnePlace ==
  /\ \A t \in Submitting : t \notin queue /\ t \notin done /\ \A w \in Workers : task[w] # t
  /\ \A t \in queue : t \notin done /\ \A w \in Workers : task[w] # t
  /\ \A w \in Workers : worker[w] = "running" => task[w] \notin done
  /\ \A v, w \in Workers : task[v] = task[w] /\ task[v] # NoTask => v = w

Members ==
  Alive => \A w \in Workers : worker[w] \notin {"absent", "exited"} => w \in workers

PlaceInv == TypeOK /\ PoolRuns /\ RanDone /\ OnePlace /\ Members

(* What a push does to the places of tasks.                                *)
LEMMA PushPlaces ==
  ASSUME PoolAssumption, PlaceInv, Alive, NEW t \in Submitting, NEW rest \in SUBSET queue,
         Push(t, rest), UNCHANGED <<policy, kind, done, task, active, stopVars, waitPc>>
  PROVE  /\ Submitting' = Submitting \ {t}
         /\ Running' = Running
         /\ OnePlace' /\ Members' /\ RanDone'
<1>1. t \in Tasks /\ TypeOK /\ PoolRuns
  BY DEF PlaceInv, Submitting
<1>2. /\ worker' \in [Workers -> WorkerStates]
      /\ \A w \in Workers : worker'[w] # worker[w] => worker[w] \in {"absent", "idle"}
                                                   /\ worker'[w] = "ready"
      /\ queue' = rest \cup {t}
      /\ call' = [call EXCEPT ![t] = IF kind[t] = "enqueue_and_wait" THEN "awaiting"
                                     ELSE "accepted"]
  BY <1>1, PushWakes
<1>3. Submitting' = Submitting \ {t}
  BY <1>1, <1>2 DEF Submitting, TypeOK
<1>4. \A w \in Workers : worker'[w] \in {"running", "ran"} <=> worker[w] \in {"running", "ran"}
  BY <1>2
<1>5. \A w \in Workers : worker'[w] = "running" <=> worker[w] = "running"
  BY <1>2
<1>6. Running' = Running
  BY <1>5 DEF Running
<1>7. RanDone'
  BY <1>2 DEF PlaceInv, RanDone
<1>8. OnePlace'
  <2>1. \A u \in Submitting' : u \notin queue' /\ u \notin done' /\ \A w \in Workers : task'[w] # u
    BY <1>2, <1>3 DEF PlaceInv, OnePlace
  <2>2. \A u \in queue' : u \notin done' /\ \A w \in Workers : task'[w] # u
    BY <1>2 DEF PlaceInv, OnePlace
  <2>3. \A w \in Workers : worker'[w] = "running" => task'[w] \notin done'
    BY <1>5 DEF PlaceInv, OnePlace
  <2>4. \A v, w \in Workers : task'[v] = task'[w] /\ task'[v] # NoTask => v = w
    BY DEF PlaceInv, OnePlace
  <2> QED  BY <2>1, <2>2, <2>3, <2>4 DEF OnePlace
<1>9. Members'
  <2>1. CASE NeedsThread /\ kind[t] # "try_enqueue"
    <3>1. PICK v \in Workers : /\ worker[v] = "absent"
                               /\ workers' = workers \cup {v}
                               /\ NotifyOne([worker EXCEPT ![v] = "ready"])
      BY <2>1 DEF Push
    <3> DEFINE ws == [worker EXCEPT ![v] = "ready"]
    <3>2. worker' = ws \/ \E u \in workers : worker' = [ws EXCEPT ![u] = "ready"]
      BY <3>1 DEF NotifyOne, Sleeping
    <3>3. \A w \in Workers : worker'[w] \notin {"absent", "exited"}
                             => w = v \/ w \in workers \/ worker[w] \notin {"absent", "exited"}
      BY <1>1, <3>1, <3>2 DEF TypeOK
    <3> QED  BY <3>1, <3>3 DEF PlaceInv, Members
  <2>2. CASE ~(NeedsThread /\ kind[t] # "try_enqueue")
    <3>1. NotifyOne(worker) /\ workers' = workers
      BY <2>2 DEF Push
    <3>2. worker' = worker \/ \E u \in workers : worker' = [worker EXCEPT ![u] = "ready"]
      BY <3>1 DEF NotifyOne, Sleeping
    <3>3. \A w \in Workers : worker'[w] \notin {"absent", "exited"}
                             => w \in workers \/ worker[w] \notin {"absent", "exited"}
      BY <1>1, <3>2 DEF TypeOK
    <3> QED  BY <3>1, <3>3 DEF PlaceInv, Members
  <2> QED  BY <2>1, <2>2
<1> QED  BY <1>3, <1>6, <1>7, <1>8, <1>9

(* A step that moves no task keeps every task in one place.                *)
LEMMA QuietPlaces ==
  ASSUME PlaceInv, UNCHANGED <<queue, done, task>>, Submitting' \subseteq Submitting,
         \A w \in Workers : worker'[w] = "running" => worker[w] = "running"
  PROVE  OnePlace'
<1>1. \A u \in Submitting' : u \notin queue' /\ u \notin done' /\ \A w \in Workers : task'[w] # u
  BY DEF PlaceInv, OnePlace
<1>2. \A u \in queue' : u \notin done' /\ \A w \in Workers : task'[w] # u
  BY DEF PlaceInv, OnePlace
<1>3. \A w \in Workers : worker'[w] = "running" => task'[w] \notin done'
  BY DEF PlaceInv, OnePlace
<1>4. \A v, w \in Workers : task'[v] = task'[w] /\ task'[v] # NoTask => v = w
  BY DEF PlaceInv, OnePlace
<1> QED  BY <1>1, <1>2, <1>3, <1>4 DEF OnePlace

(* One that also moves no thread in or out of the pool keeps Members.      *)
LEMMA QuietMembers ==
  ASSUME PlaceInv, workers' = workers, Alive' => Alive,
         \A w \in Workers : worker'[w] \notin {"absent", "exited"}
                            => worker[w] \notin {"absent", "exited"}
  PROVE  Members'
BY DEF PlaceInv, Members

(* A worker about to fetch is one of the pool's, so fewer than all its     *)
(* threads run a task.                                                     *)
LEMMA HandFree ==
  ASSUME PoolAssumption, PlaceInv, LimitsInv, Alive, NEW w \in Workers, worker[w] = "ready"
  PROVE  Cardinality(Running) < MaxThreads
<1> DEFINE Busy == {v \in Workers : worker[v] = "running"}
           f == [v \in Busy |-> task[v]]
<1>1. w \in workers /\ Busy \in SUBSET (workers \ {w})
  BY DEF PlaceInv, Members
<1>2. IsFiniteSet(workers) /\ Cardinality(workers) \in Nat /\ Cardinality(workers) <= MaxThreads
  BY FS_CardinalityType DEF LimitsInv, WithinLimits
<1>3. IsFiniteSet(workers \ {w}) /\ Cardinality(workers \ {w}) = Cardinality(workers) - 1
  BY <1>1, <1>2, FS_RemoveElement
<1>4. IsFiniteSet(Busy) /\ Cardinality(Busy) <= Cardinality(workers \ {w})
  BY <1>1, <1>3, FS_Subset
<1>5. f \in Surjection(Busy, Running)
  BY DEF Surjection, Running
<1>6. IsFiniteSet(Running) /\ Cardinality(Running) <= Cardinality(Busy)
  BY <1>4, <1>5, FS_Surjection
<1>7. Cardinality(Running) \in Nat /\ Cardinality(Busy) \in Nat /\ MaxThreads \in Nat
  BY <1>4, <1>6, FS_CardinalityType, PoolAssumption
<1> HIDE DEF Busy, f
<1> QED  BY <1>2, <1>3, <1>4, <1>6, <1>7

(* What enqueue turns away was in no place and is gone.                    *)
LEMMA Refused ==
  ASSUME PlaceInv, NEW t \in Submitting, Submitting' = Submitting \ {t},
         UNCHANGED <<queue, done, Running>>
  PROVE  Handling!TurnAway(t)
<1>1. t \in Tasks /\ t \notin queue /\ t \notin done /\ t \notin Running
  BY DEF PlaceInv, OnePlace, Submitting, Running
<1>2. t \notin Gone /\ Gone' = Gone \cup {t}
  BY <1>1 DEF Gone
<1> QED  BY <1>1, <1>2 DEF Handling!TurnAway, Handling!New

Handled == OnePlace' /\ Members' /\ [Handling!Next]_(Handling!tasks)

(* A step that moves no task is no step of TaskPool, or turns one away.    *)
LEMMA QuietHandled ==
  ASSUME PlaceInv, Alive, UNCHANGED <<queue, done, task, workers>>,
         \A w \in Workers : /\ worker'[w] = "running" <=> worker[w] = "running"
                            /\ worker'[w] \notin {"absent", "exited"}
                               => worker[w] \notin {"absent", "exited"},
         \/ Submitting' = Submitting
         \/ \E t \in Submitting : Submitting' = Submitting \ {t}
  PROVE  Handled
<1>1. Running' = Running
  BY DEF Running
<1>2. OnePlace' /\ Members'
  BY QuietPlaces, QuietMembers
<1>3. CASE Submitting' = Submitting
  <2>1. UNCHANGED Handling!tasks
    BY <1>1, <1>3 DEF Gone, Handling!tasks
  <2> QED  BY <1>2, <2>1 DEF Handled
<1>4. CASE \E t \in Submitting : Submitting' = Submitting \ {t}
  <2>1. PICK t \in Submitting : Submitting' = Submitting \ {t}
    BY <1>4
  <2>2. Handling!TurnAway(t) /\ t \in Tasks
    BY <1>1, <2>1, Refused DEF Submitting
  <2> QED  BY <1>2, <2>2 DEF Handled, Handling!Next
<1> QED  BY <1>3, <1>4

(* Cardinality means the same in both modules.                             *)
LEMMA SameSize == \A S : Handling!Cardinality(S) = Cardinality(S)
  BY Zenon DEF Handling!Cardinality, Cardinality, Handling!IsFiniteSet, IsFiniteSet

(* A push takes a task, alone or in the place of another.                  *)
LEMMA PushHandled ==
  ASSUME PoolAssumption, PlaceInv, LimitsInv, Alive, NEW t \in Submitting,
         NEW rest \in SUBSET queue, Push(t, rest),
         UNCHANGED <<policy, kind, done, task, active, stopVars, waitPc>>,
         \/ rest = queue /\ ~Full
         \/ Full /\ \E u \in queue : rest = queue \ {u}
  PROVE  Handled
<1>1. /\ Submitting' = Submitting \ {t} /\ Running' = Running
      /\ OnePlace' /\ Members' /\ queue' = rest \cup {t}
  BY PushPlaces DEF Push
<1>2. t \in Tasks /\ t \notin queue /\ t \notin done /\ t \notin Running /\ t \notin Gone
  BY DEF PlaceInv, OnePlace, Submitting, Running, Gone
<1>3. Cardinality(queue) \in Nat /\ Cardinality(queue) <= MaxQueue /\ MaxQueue \in Nat
  BY FS_CardinalityType, PoolAssumption DEF LimitsInv, WithinLimits
<1>4. CASE rest = queue /\ ~Full
  <2>1. Gone' = Gone
    BY <1>1, <1>2, <1>4 DEF Gone
  <2>2. Cardinality(queue) < MaxQueue
    BY <1>3, <1>4 DEF Full
  <2>3. Handling!New(t)
    BY <1>2 DEF Handling!New
  <2>4. Handling!Take(t)
    BY <1>1, <1>4, <2>1, <2>2, <2>3, SameSize DEF Handling!Take
  <2> QED  BY <1>1, <1>2, <2>4 DEF Handled, Handling!Next
<1>5. ASSUME Full, NEW u \in queue, rest = queue \ {u}
      PROVE  Handled
  <2>1. u \in Tasks /\ u \notin Submitting /\ u \notin done /\ u \notin Running /\ u # t
    BY <1>2 DEF PlaceInv, OnePlace, TypeOK, Running
  <2>2. Gone' = Gone \cup {u}
    BY <1>1, <1>2, <1>5, <2>1 DEF Gone
  <2>3. Cardinality(queue) = MaxQueue
    BY <1>3, <1>5 DEF Full
  <2>4. Handling!New(t)
    BY <1>2 DEF Handling!New
  <2>5. Handling!Displace(t, u)
    BY <1>1, <1>5, <2>2, <2>3, <2>4, SameSize DEF Handling!Displace
  <2> QED  BY <1>1, <1>2, <1>5, <2>5 DEF Handled, Handling!Next
<1> QED  BY <1>4, <1>5

(* A call that waits for room or gives up is quiet.                        *)
LEMMA CallHandled ==
  ASSUME PlaceInv, Alive, UNCHANGED <<queue, done, task, worker, workers>>,
         NEW t \in Tasks, NEW r \in CallStates, call' = [call EXCEPT ![t] = r],
         t \notin Submitting => r \notin {"none", "entering", "blocked", "woken"}
  PROVE  Handled
<1>1. Submitting' = Submitting \/ (t \in Submitting /\ Submitting' = Submitting \ {t})
  <2>1. \A u \in Tasks : call'[u] = IF u = t THEN r ELSE call[u]
    BY DEF PlaceInv, TypeOK
  <2>2. CASE r \in {"none", "entering", "blocked", "woken"}
    BY <2>1, <2>2 DEF Submitting
  <2>3. CASE r \notin {"none", "entering", "blocked", "woken"}
    BY <2>1, <2>3 DEF Submitting
  <2> QED  BY <2>2, <2>3
<1> QED  BY <1>1, QuietHandled

(* A worker that fetches starts the most urgent task, or finds none.       *)
LEMMA FetchHandled ==
  ASSUME PoolAssumption, PlaceInv, LimitsInv, Alive, NEW w \in Workers, Fetch(w)
  PROVE  Handled
<1>1. worker \in [Workers -> WorkerStates] /\ task \in [Workers -> Tasks \cup {NoTask}]
  BY DEF PlaceInv, TypeOK
<1>2. worker[w] = "ready" /\ UNCHANGED <<call, done, workers, stopPc>>
  BY DEF Fetch, stopVars
<1>3. Submitting' = Submitting
  BY <1>2 DEF Submitting
<1>4. ASSUME NEW t \in Tasks, Top(t), queue' = queue \ {t}, task' = [task EXCEPT ![w] = t],
             worker' = [worker EXCEPT ![w] = "running"]
      PROVE  Handled
  <2>1. t \in queue /\ t \notin done /\ t \notin Submitting /\ t \notin Running
        /\ \A v \in Workers : task[v] # t
    BY <1>4 DEF Top, PlaceInv, OnePlace, Running
  <2>2. \A v \in Workers : /\ task'[v] = IF v = w THEN t ELSE task[v]
                           /\ worker'[v] = IF v = w THEN "running" ELSE worker[v]
    BY <1>1, <1>4
  <2>3. Running' = Running \cup {t}
    <3>1. \A x : x \in Running' <=> x = t \/ x \in Running
      BY <1>2, <2>2 DEF Running
    <3> QED  BY <3>1
  <2>4. Gone' = Gone
    BY <1>2, <1>3, <1>4, <2>1, <2>3 DEF Gone
  <2>5. OnePlace'
    <3>1. \A u \in Submitting' : u \notin queue' /\ u \notin done' /\ \A v \in Workers : task'[v] # u
      BY <1>2, <1>3, <1>4, <2>1, <2>2 DEF PlaceInv, OnePlace
    <3>2. \A u \in queue' : u \notin done' /\ \A v \in Workers : task'[v] # u
      BY <1>2, <1>4, <2>2 DEF PlaceInv, OnePlace
    <3>3. \A v \in Workers : worker'[v] = "running" => task'[v] \notin done'
      BY <1>2, <2>1, <2>2 DEF PlaceInv, OnePlace
    <3>4. \A v, x \in Workers : task'[v] = task'[x] /\ task'[v] # NoTask => v = x
      BY <2>1, <2>2 DEF PlaceInv, OnePlace
    <3> QED  BY <3>1, <3>2, <3>3, <3>4 DEF OnePlace
  <2>6. Members'
    BY <1>2, <2>2 DEF PlaceInv, Members, Alive
  <2>7. Cardinality(Running) < MaxThreads
    BY <1>2, HandFree
  <2>8. Handling!Urgent(t)
    BY <1>4 DEF Top, Handling!Urgent
  <2>9. Handling!Start(t)
    BY <1>2, <1>4, <2>3, <2>4, <2>7, <2>8, SameSize DEF Handling!Start
  <2> QED  BY <2>5, <2>6, <2>9 DEF Handled, Handling!Next
<1>5. CASE /\ UNCHANGED <<queue, task>>
           /\ worker' = [worker EXCEPT ![w] = IF stopped THEN "exited" ELSE "idle"]
  <2>1. \A v \in Workers : /\ worker'[v] = "running" <=> worker[v] = "running"
                           /\ worker'[v] \notin {"absent", "exited"}
                              => worker[v] \notin {"absent", "exited"}
    BY <1>1, <1>2, <1>5
  <2> QED  BY <1>2, <1>3, <1>5, <2>1, QuietHandled
<1> QED  BY <1>4, <1>5 DEF Fetch

(* A worker that has run its task finishes it.                             *)
LEMMA ExecuteHandled ==
  ASSUME PoolAssumption, PlaceInv, Alive, NEW w \in Workers, Execute(w)
  PROVE  Handled
<1>1. worker \in [Workers -> WorkerStates] /\ task \in [Workers -> Tasks \cup {NoTask}]
  BY DEF PlaceInv, TypeOK
<1>2. /\ worker[w] = "running" /\ done' = done \cup {task[w]}
      /\ worker' = [worker EXCEPT ![w] = "ran"]
      /\ UNCHANGED <<call, queue, task, workers, stopPc>>
  BY DEF Execute, stopVars
<1>3. task[w] \in Tasks /\ task[w] # NoTask
  BY <1>1, <1>2, PoolAssumption DEF PlaceInv, TypeOK
<1>4. \A v \in Workers : worker'[v] = IF v = w THEN "ran" ELSE worker[v]
  BY <1>1, <1>2
<1>5. Submitting' = Submitting
  BY <1>2 DEF Submitting
<1>6. task[w] \in Running /\ task[w] \notin queue /\ task[w] \notin Submitting
  BY <1>2 DEF Running, PlaceInv, OnePlace
<1>7. \A v \in Workers : task[v] = task[w] => v = w
  BY <1>3 DEF PlaceInv, OnePlace
<1>8. Running' = Running \ {task[w]}
  <2>1. \A x : x \in Running' <=> x \in Running /\ x # task[w]
    BY <1>2, <1>4, <1>7 DEF Running
  <2> QED  BY <2>1
<1>9. Gone' = Gone
  BY <1>2, <1>5, <1>6, <1>8 DEF Gone
<1>10. OnePlace'
  <2>1. \A u \in Submitting' : u \notin queue' /\ u \notin done' /\ \A v \in Workers : task'[v] # u
    BY <1>2, <1>5, <1>6 DEF PlaceInv, OnePlace
  <2>2. \A u \in queue' : u \notin done' /\ \A v \in Workers : task'[v] # u
    BY <1>2, <1>6 DEF PlaceInv, OnePlace
  <2>3. \A v \in Workers : worker'[v] = "running" => task'[v] \notin done'
    BY <1>2, <1>4, <1>7 DEF PlaceInv, OnePlace
  <2>4. \A v, x \in Workers : task'[v] = task'[x] /\ task'[v] # NoTask => v = x
    BY <1>2 DEF PlaceInv, OnePlace
  <2> QED  BY <2>1, <2>2, <2>3, <2>4 DEF OnePlace
<1>11. Members'
  BY <1>2, <1>4 DEF PlaceInv, Members, Alive
<1>12. Handling!Finish(task[w])
  BY <1>2, <1>6, <1>8, <1>9 DEF Handling!Finish
<1> QED  BY <1>3, <1>10, <1>11, <1>12 DEF Handled, Handling!Next

(* A worker that drops its finished task.                                  *)
LEMMA DecrementHandled ==
  ASSUME PoolAssumption, PlaceInv, Alive, NEW w \in Workers, Decrement(w)
  PROVE  Handled
<1>1. worker \in [Workers -> WorkerStates] /\ task \in [Workers -> Tasks \cup {NoTask}]
  BY DEF PlaceInv, TypeOK
<1>2. /\ worker[w] = "ran" /\ task' = [task EXCEPT ![w] = NoTask]
      /\ worker' = [worker EXCEPT ![w] = "counted"]
      /\ UNCHANGED <<call, done, queue, workers, stopPc>>
  BY DEF Decrement, stopVars
<1>3. \A v \in Workers : /\ task'[v] = IF v = w THEN NoTask ELSE task[v]
                         /\ worker'[v] = IF v = w THEN "counted" ELSE worker[v]
  BY <1>1, <1>2
<1>4. Submitting' = Submitting
  BY <1>2 DEF Submitting
<1>5. Running' = Running
  <2>1. \A x : x \in Running' <=> x \in Running
    BY <1>2, <1>3 DEF Running
  <2> QED  BY <2>1
<1>6. UNCHANGED Handling!tasks
  BY <1>2, <1>4, <1>5 DEF Gone, Handling!tasks
<1>7. OnePlace'
  <2>1. NoTask \notin Tasks /\ queue \in SUBSET Tasks
    BY PoolAssumption DEF PlaceInv, TypeOK
  <2>2. \A u \in Submitting' : u \notin queue' /\ u \notin done' /\ \A v \in Workers : task'[v] # u
    BY <1>2, <1>3, <1>4, <2>1 DEF PlaceInv, OnePlace, Submitting
  <2>3. \A u \in queue' : u \notin done' /\ \A v \in Workers : task'[v] # u
    BY <1>2, <1>3, <2>1 DEF PlaceInv, OnePlace
  <2>4. \A v \in Workers : worker'[v] = "running" => task'[v] \notin done'
    BY <1>2, <1>3 DEF PlaceInv, OnePlace
  <2>5. \A v, x \in Workers : task'[v] = task'[x] /\ task'[v] # NoTask => v = x
    BY <1>3 DEF PlaceInv, OnePlace
  <2> QED  BY <2>2, <2>3, <2>4, <2>5 DEF OnePlace
<1>8. Members'
  BY <1>2, <1>3 DEF PlaceInv, Members, Alive
<1> QED  BY <1>6, <1>7, <1>8 DEF Handled

(* clear_queue: what waited is gone.                                       *)
LEMMA ClearHandled ==
  ASSUME PlaceInv, Alive, ClearQueue
  PROVE  Handled
<1>1. queue' = {} /\ UNCHANGED <<call, done, task, worker, workers, stopPc>>
  BY DEF ClearQueue, poolVars, stopVars
<1>2. Submitting' = Submitting /\ Running' = Running
  BY <1>1 DEF Submitting, Running
<1>3. \A u \in queue : u \in Tasks /\ u \notin Submitting /\ u \notin done /\ u \notin Running
  BY DEF PlaceInv, OnePlace, TypeOK, Running
<1>4. Gone' = Gone \cup queue
  BY <1>1, <1>2, <1>3 DEF Gone
<1>5. Handling!Clear
  BY <1>1, <1>2, <1>4 DEF Handling!Clear
<1>6. OnePlace'
  BY <1>1, <1>2 DEF PlaceInv, OnePlace
<1>7. Members'
  BY <1>1 DEF PlaceInv, Members, Alive
<1> QED  BY <1>5, <1>6, <1>7 DEF Handled, Handling!Next

(* stop() has joined everyone it clears from workers_, or the process is   *)
(* terminated.                                                             *)
LEMMA StopClearHandled ==
  ASSUME PlaceInv, Alive, StopClear
  PROVE  Handled
<1>1. /\ \A w \in joinSet : worker[w] = "exited"
      /\ stopPc' = IF workers = joinSet THEN "done" ELSE "terminated"
      /\ UNCHANGED <<call, done, queue, worker, task>>
  BY DEF StopClear
<1>2. Submitting' = Submitting /\ Running' = Running
  BY <1>1 DEF Submitting, Running
<1>3. UNCHANGED Handling!tasks
  BY <1>1, <1>2 DEF Gone, Handling!tasks
<1>4. OnePlace'
  BY <1>1, <1>2, QuietPlaces
<1>5. Members'
  BY <1>1 DEF PlaceInv, Members, Alive
<1> QED  BY <1>3, <1>4, <1>5 DEF Handled

(* Every step keeps every task in one place and is a step of TaskPool.     *)
LEMMA HandlingStep ==
  ASSUME PoolAssumption, PlaceInv, LimitsInv, [Next]_vars
  PROVE  Handled
<1>t. TypeOK
  BY DEF PlaceInv
<1>1. CASE UNCHANGED vars
  <2>1. Submitting' = Submitting /\ Running' = Running /\ Gone' = Gone
        /\ UNCHANGED <<queue, done, task, worker, workers, stopPc>>
    BY <1>1 DEF vars, poolVars, stopVars, Submitting, Running, Gone
  <2>2. OnePlace' /\ Members'
    BY <2>1 DEF PlaceInv, OnePlace, Members, Alive
  <2> QED  BY <2>1, <2>2 DEF Handled, Handling!tasks
<1>2. ASSUME Alive, NEW t \in Tasks, NEW k \in Kinds, Submit(t, k)
      PROVE  Handled
  BY <1>2, CallHandled DEF Submit, poolVars, Submitting
<1>3. ASSUME Alive, NEW t \in Tasks, Enter(t)
      PROVE  Handled
  <2>1. t \in Submitting
    BY <1>3 DEF Enter, Submitting
  <2>2. ASSUME Full, NEW u \in queue, Push(t, queue \ {u})
        PROVE  Handled
    <3>1. UNCHANGED <<policy, kind, done, task, active, stopVars, waitPc>>
      BY <1>3 DEF Enter
    <3> QED  BY <1>3, <2>1, <2>2, <3>1, PushHandled
  <2>3. CASE ~Full /\ Push(t, queue)
    <3>1. UNCHANGED <<policy, kind, done, task, active, stopVars, waitPc>>
      BY <1>3 DEF Enter
    <3> QED  BY <1>3, <2>1, <2>3, <3>1, PushHandled
  <2>4. ASSUME UNCHANGED <<queue, worker, workers>>,
               NEW r \in CallStates, call' = [call EXCEPT ![t] = r]
        PROVE  Handled
    BY <1>3, <2>1, <2>4, CallHandled DEF Enter
  <2> QED  BY <1>3, <2>2, <2>3, <2>4 DEF Enter, Answer, Returned, Top
<1>4. ASSUME Alive, NEW t \in Tasks, Unblock(t)
      PROVE  Handled
  <2>1. t \in Submitting
    BY <1>4 DEF Unblock, Submitting
  <2>2. CASE ~Full /\ Push(t, queue)
    <3>1. UNCHANGED <<policy, kind, done, task, active, stopVars, waitPc>>
      BY <1>4 DEF Unblock
    <3> QED  BY <1>4, <2>1, <2>2, <3>1, PushHandled
  <2>3. ASSUME UNCHANGED <<queue, worker, workers>>,
               NEW r \in CallStates, call' = [call EXCEPT ![t] = r]
        PROVE  Handled
    BY <1>4, <2>1, <2>3, CallHandled DEF Unblock
  <2> QED  BY <1>4, <2>2, <2>3 DEF Unblock, Answer, Returned
<1>5. ASSUME Alive, NEW t \in Tasks, AwaitReturns(t)
      PROVE  Handled
  BY <1>5, CallHandled DEF AwaitReturns, poolVars
<1>6. ASSUME Alive, NEW w \in Workers, WorkerStep(w)
      PROVE  Handled
  <2>1. CASE Notify(w)
    <3>1. /\ worker[w] = "counted" /\ worker' = [worker EXCEPT ![w] = "ready"]
          /\ call' = [t \in Tasks |-> IF call[t] = "blocked" THEN "woken" ELSE call[t]]
          /\ UNCHANGED <<done, queue, task, workers>>
      BY <2>1 DEF Notify, NotifyDone
    <3>2. Submitting' = Submitting
      BY <3>1 DEF Submitting
    <3>3. \A v \in Workers : worker'[v] = IF v = w THEN "ready" ELSE worker[v]
      BY <1>t, <3>1 DEF TypeOK
    <3> QED  BY <1>6, <3>1, <3>2, <3>3, QuietHandled
  <2> QED  BY <1>6, <2>1, FetchHandled, ExecuteHandled, DecrementHandled DEF WorkerStep
<1>7. ASSUME Alive, WaitAll \/ WaitCheck \/ WaitSleep \/ StopSet
      PROVE  Handled
  <2>1. UNCHANGED <<call, done, queue, task, worker, workers>>
    BY <1>7 DEF WaitAll, WaitCheck, WaitSleep, StopSet, poolVars
  <2>2. Submitting' = Submitting
    BY <2>1 DEF Submitting
  <2> QED  BY <1>7, <2>1, <2>2, QuietHandled
<1>8. ASSUME Alive, StopNotify
      PROVE  Handled
  <2>1. /\ call' = [t \in Tasks |-> IF call[t] = "blocked" THEN "woken" ELSE call[t]]
        /\ worker' = [w \in Workers |-> IF worker[w] = "idle" THEN "ready" ELSE worker[w]]
        /\ UNCHANGED <<done, queue, task, workers>>
    BY <1>8 DEF StopNotify, NotifyDone
  <2>2. Submitting' = Submitting
    BY <2>1 DEF Submitting
  <2>3. \A v \in Workers : worker'[v] = IF worker[v] = "idle" THEN "ready" ELSE worker[v]
    BY <2>1
  <2> QED  BY <1>8, <2>1, <2>2, <2>3, QuietHandled
<1> QED
  BY <1>1, <1>2, <1>3, <1>4, <1>5, <1>6, <1>7, <1>8, ClearHandled, StopClearHandled
     DEF Next, CallerStep

(* The pool implements TaskPool: whatever callers, workers, clear_queue    *)
(* and stop() do, a task waits, runs and ends once, in the order of the    *)
(* priorities and within both limits, or is gone and never runs.           *)
THEOREM PoolIsTaskPool == Spec => ImplementsTaskPool
<1>1. Init => OnePlace /\ Members /\ Handling!Init
  <2> SUFFICES ASSUME Init PROVE OnePlace /\ Members /\ Handling!Init
    OBVIOUS
  <2>1. Submitting = Tasks
    BY DEF Init, Submitting
  <2>2. OnePlace
    BY PoolAssumption DEF Init, OnePlace, Submitting
  <2>3. Members
    BY DEF Init, Members
  <2>4. Running = {}
    BY DEF Init, Running
  <2> QED  BY <2>1, <2>2, <2>3, <2>4 DEF Init, Handling!Init, Gone
<1>2. PoolInv /\ Kept /\ OnePlace /\ Members => PlaceInv
  BY DEF PoolInv, Kept, PlaceInv
<1>3. PlaceInv /\ LimitsInv /\ [Next]_vars
      => (OnePlace /\ Members)' /\ [Handling!Next]_(Handling!tasks)
  BY HandlingStep, PoolAssumption DEF Handled
<1>4. Spec => [](OnePlace /\ Members)
  BY <1>1, <1>2, <1>3, PoolInvariance, KeptInvariance, LimitsInvariance, PTL DEF Spec
<1> QED
  BY <1>1, <1>2, <1>3, <1>4, PoolInvariance, KeptInvariance, LimitsInvariance, PTL
     DEF Spec, ImplementsTaskPool, Handling!Spec

(* What TaskPool promises of one step.                                     *)
LEMMA ApartStep ==
  Handling!Apart /\ [Handling!Next]_(Handling!tasks)
  => Handling!Apart' /\ done \subseteq done' /\ Gone \subseteq Gone'
<1> SUFFICES ASSUME Handling!Apart, [Handling!Next]_(Handling!tasks)
             PROVE  Handling!Apart' /\ done \subseteq done' /\ Gone \subseteq Gone'
  OBVIOUS
<1> USE DEF Handling!Apart
<1>1. CASE UNCHANGED Handling!tasks
  BY <1>1 DEF Handling!tasks
<1>2. ASSUME NEW t \in Tasks, Handling!Take(t) \/ Handling!TurnAway(t)
      PROVE  Handling!Apart' /\ done \subseteq done' /\ Gone \subseteq Gone'
  BY <1>2 DEF Handling!Take, Handling!TurnAway, Handling!New
<1>3. ASSUME NEW t \in Tasks, Handling!Start(t) \/ Handling!Finish(t)
      PROVE  Handling!Apart' /\ done \subseteq done' /\ Gone \subseteq Gone'
  BY <1>3 DEF Handling!Start, Handling!Finish, Handling!Urgent
<1>4. ASSUME NEW u \in queue, NEW t \in Tasks, Handling!Displace(t, u)
      PROVE  Handling!Apart' /\ done \subseteq done' /\ Gone \subseteq Gone'
  BY <1>4 DEF Handling!Displace, Handling!New
<1>5. CASE Handling!Clear
  BY <1>5 DEF Handling!Clear
<1> QED  BY <1>1, <1>2, <1>3, <1>4, <1>5 DEF Handling!Next

(* No task runs twice, and none runs that enqueue refused, DISCARD_OLDEST  *)
(* displaced or clear_queue dropped.                                       *)
THEOREM NoTaskTwice == Spec => Handling!RunsOnce
<1>1. Handling!Init => Handling!Apart
  BY DEF Handling!Init, Handling!Apart
<1>2. Handling!Apart /\ [Handling!Next]_(Handling!tasks)
      => Handling!Apart' /\ [done \subseteq done' /\ Gone \subseteq Gone']_(Handling!tasks)
  BY ApartStep
<1> QED
  BY <1>1, <1>2, PoolIsTaskPool, PTL DEF ImplementsTaskPool, Handling!Spec, Handling!RunsOnce
=============================================================================
