----------------------------- MODULE ThreadPool -----------------------------
(***************************************************************************)
(* ThreadPoolV2 (thread_pool_v2.cpp): the priority queue of tasks, its     *)
(* worker threads, the rejection policies, wait_all, clear_queue and stop. *)
(*                                                                         *)
(* A member of Tasks is a task together with the thread that submits it.   *)
(* A step is one critical section of mutex_ or one access to an atomic     *)
(* outside it.  Waiting on a condition variable is a state, left by a      *)
(* notification; the predicate is then evaluated again under the mutex.    *)
(***************************************************************************)
EXTENDS Integers, FiniteSets

CONSTANTS
  Tasks,        \* tasks submitted in a behaviour
  Workers,      \* names for worker threads
  MinWorkers,   \* the threads the constructor starts
  MaxThreads,   \* config_.max_threads
  MaxQueue,     \* config_.max_queue_size
  Prio,         \* Prio[t]: the priority t is submitted with
  Policies,     \* the rejection policies to consider
  NoTask,
  StopAllowed, ClearAllowed, WaitAllAllowed  \* bounds: which calls are made

AllPolicies == {"BLOCK", "DISCARD", "DISCARD_OLDEST", "CALLER_RUNS"}

ASSUME PoolAssumption ==
  /\ MinWorkers \subseteq Workers /\ MinWorkers # {} /\ IsFiniteSet(MinWorkers)
  /\ MaxThreads \in Nat /\ Cardinality(MinWorkers) <= MaxThreads
  /\ MaxQueue \in Nat \ {0}
  /\ Prio \in [Tasks -> 0..3]
  /\ Policies \subseteq AllPolicies
  /\ NoTask \notin Tasks
  /\ {StopAllowed, ClearAllowed, WaitAllAllowed} \subseteq BOOLEAN

VARIABLES
  policy,     \* config_.rejection_policy
  call,       \* call[t]: where the submitting thread is
  kind,       \* kind[t]: the function it called
  done,       \* the tasks that have been executed
  queue,      \* tasks_
  worker,     \* worker[w]: where a worker thread is
  task,       \* task[w]: what it runs
  workers,    \* workers_
  active,     \* active_workers_
  stopped,    \* stopped_
  stopPc,     \* stop(): the caller's progress
  joinSet,    \* the part of workers_ its loop goes over
  waitPc      \* wait_all(): the caller's progress

poolVars == <<worker, task, workers, active>>
stopVars == <<stopped, stopPc, joinSet>>
vars == <<policy, call, kind, done, queue, poolVars, stopVars, waitPc>>

Init ==
  /\ policy \in Policies
  /\ call = [t \in Tasks |-> "none"]
  /\ kind = [t \in Tasks |-> "enqueue"]
  /\ done = {}
  /\ queue = {}
  /\ worker = [w \in Workers |-> IF w \in MinWorkers THEN "ready" ELSE "absent"]
  /\ task = [w \in Workers |-> NoTask]
  /\ workers = MinWorkers
  /\ active = 0
  /\ stopped = FALSE /\ stopPc = "none" /\ joinSet = {}
  /\ waitPc = "none"

\* Only wait_all keeps mutex_ from one step to the next.
MutexFree == waitPc # "falling"

-----------------------------------------------------------------------------
(***************************************************************************)
(* Submission: enqueue, try_enqueue, enqueue_and_wait.                     *)
(***************************************************************************)
\* Where the caller is once its enqueue() has returned: enqueue_and_wait
\* waits for the future whatever the result was.
Returned(t, result) == IF kind[t] = "enqueue_and_wait" THEN "awaiting" ELSE result
Answer(t, result) == call' = [call EXCEPT ![t] = Returned(t, result)]

\* stopped_ is read before mutex_ is taken; enqueue_and_wait reads it, and so
\* does its enqueue, which may be the first to see it set.
Submit(t, k) ==
  /\ call[t] = "none"
  /\ kind' = [kind EXCEPT ![t] = k]
  /\ \/ ~stopped /\ call' = [call EXCEPT ![t] = "entering"]
     \/ stopped /\ call' = [call EXCEPT ![t] = "refused"]
     \/ stopped /\ k = "enqueue_and_wait" /\ call' = [call EXCEPT ![t] = "awaiting"]
  /\ UNCHANGED <<policy, done, queue, poolVars, stopVars, waitPc>>

\* cv_task_.notify_one(): wakes one of the sleeping workers, if any sleeps.
Sleeping(ws) == {w \in workers : ws[w] = "idle"}
NotifyOne(ws) ==
  IF Sleeping(ws) = {} THEN worker' = ws
  ELSE \E w \in Sleeping(ws) : worker' = [ws EXCEPT ![w] = "ready"]

\* enqueue adds a thread when as many are active as there are.
NeedsThread == active >= Cardinality(workers) /\ Cardinality(workers) < MaxThreads

\* Mutant of Push: no notify_one.
PushQuietly(t, rest) ==
  /\ queue' = rest \cup {t}
  /\ Answer(t, "accepted")
  /\ UNCHANGED <<worker, workers>>

\* tasks_.push(t) onto what is left of the queue.
Push(t, rest) ==
  /\ queue' = rest \cup {t}
  /\ Answer(t, "accepted")
  /\ IF NeedsThread /\ kind[t] # "try_enqueue"
       THEN \E w \in Workers :
              /\ worker[w] = "absent"
              /\ workers' = workers \cup {w}
              /\ NotifyOne([worker EXCEPT ![w] = "ready"])
       ELSE NotifyOne(worker) /\ UNCHANGED workers

Top(t) == t \in queue /\ \A u \in queue : Prio[u] <= Prio[t]
Full == Cardinality(queue) >= MaxQueue

\* The critical section of enqueue and try_enqueue.  CALLER_RUNS calls a
\* std::function that was moved from: bad_function_call leaves enqueue.
Enter(t) ==
  /\ call[t] = "entering"
  /\ MutexFree
  /\ \/ ~Full /\ Push(t, queue)
     \/ /\ Full /\ kind[t] = "try_enqueue"
        /\ Answer(t, "refused")
        /\ UNCHANGED <<queue, worker, workers>>
     \/ /\ Full /\ kind[t] # "try_enqueue" /\ policy = "BLOCK"
        /\ IF stopped THEN Answer(t, "refused")
                      ELSE call' = [call EXCEPT ![t] = "blocked"]
        /\ UNCHANGED <<queue, worker, workers>>
     \/ /\ Full /\ kind[t] # "try_enqueue" /\ policy = "DISCARD"
        /\ Answer(t, "refused")
        /\ UNCHANGED <<queue, worker, workers>>
     \/ /\ Full /\ kind[t] # "try_enqueue" /\ policy = "DISCARD_OLDEST"
        /\ \E u \in Tasks : Top(u) /\ Push(t, queue \ {u})
     \/ /\ Full /\ kind[t] # "try_enqueue" /\ policy = "CALLER_RUNS"
        /\ call' = [call EXCEPT ![t] = "threw"]
        /\ UNCHANGED <<queue, worker, workers>>
  /\ UNCHANGED <<policy, kind, done, task, active, stopVars, waitPc>>

\* Mutant of Unblock: the predicate is not evaluated again.
UnblockOnce(t) ==
  /\ call[t] = "woken"
  /\ MutexFree
  /\ IF stopped
       THEN Answer(t, "refused") /\ UNCHANGED <<queue, worker, workers>>
       ELSE Push(t, queue)
  /\ UNCHANGED <<policy, kind, done, task, active, stopVars, waitPc>>

\* A BLOCK caller that was notified evaluates its predicate again.
Unblock(t) ==
  /\ call[t] = "woken"
  /\ MutexFree
  /\ IF stopped
       THEN Answer(t, "refused") /\ UNCHANGED <<queue, worker, workers>>
     ELSE IF Full
       THEN /\ call' = [call EXCEPT ![t] = "blocked"]
            /\ UNCHANGED <<queue, worker, workers>>
     ELSE Push(t, queue)
  /\ UNCHANGED <<policy, kind, done, task, active, stopVars, waitPc>>

AwaitReturns(t) ==
  /\ call[t] = "awaiting"
  /\ t \in done
  /\ call' = [call EXCEPT ![t] = "accepted"]
  /\ UNCHANGED <<policy, kind, done, queue, poolVars, stopVars, waitPc>>

-----------------------------------------------------------------------------
(***************************************************************************)
(* worker().                                                               *)
(***************************************************************************)
\* Mutant of Fetch: a stopped worker exits with the task it took in hand.
FetchUnlessStopped(w) ==
  /\ worker[w] = "ready"
  /\ MutexFree
  /\ \/ \E t \in Tasks :
          /\ Top(t)
          /\ queue' = queue \ {t}
          /\ IF stopped
               THEN /\ worker' = [worker EXCEPT ![w] = "exited"]
                    /\ UNCHANGED <<task, active>>
               ELSE /\ task' = [task EXCEPT ![w] = t]
                    /\ active' = active + 1
                    /\ worker' = [worker EXCEPT ![w] = "running"]
     \/ /\ queue = {}
        /\ worker' = [worker EXCEPT ![w] = IF stopped THEN "exited" ELSE "idle"]
        /\ UNCHANGED <<queue, task, active>>
  /\ UNCHANGED <<policy, call, kind, done, workers, stopVars, waitPc>>

\* One evaluation of the wait's predicate, under the mutex.
Fetch(w) ==
  /\ worker[w] = "ready"
  /\ MutexFree
  /\ \/ \E t \in Tasks :
          /\ Top(t)
          /\ queue' = queue \ {t}
          /\ task' = [task EXCEPT ![w] = t]
          /\ active' = active + 1
          /\ worker' = [worker EXCEPT ![w] = "running"]
     \/ /\ queue = {}
        /\ worker' = [worker EXCEPT ![w] = IF stopped THEN "exited" ELSE "idle"]
        /\ UNCHANGED <<queue, task, active>>
  /\ UNCHANGED <<policy, call, kind, done, workers, stopVars, waitPc>>

\* The task runs to its end or throws; the wrapper of enqueue_and_wait sets
\* the promise.
Execute(w) ==
  /\ worker[w] = "running"
  /\ done' = done \cup {task[w]}
  /\ worker' = [worker EXCEPT ![w] = "ran"]
  /\ UNCHANGED <<policy, call, kind, queue, task, workers, active, stopVars, waitPc>>

\* Mutant of Decrement: the worker keeps its finished task.
DecrementKeepsTask(w) ==
  /\ worker[w] = "ran"
  /\ active' = active - 1
  /\ worker' = [worker EXCEPT ![w] = "counted"]
  /\ UNCHANGED <<policy, call, kind, done, queue, task, workers, stopVars, waitPc>>

\* --active_workers_, without the mutex.
Decrement(w) ==
  /\ worker[w] = "ran"
  /\ active' = active - 1
  /\ task' = [task EXCEPT ![w] = NoTask]
  /\ worker' = [worker EXCEPT ![w] = "counted"]
  /\ UNCHANGED <<policy, call, kind, done, queue, workers, stopVars, waitPc>>

\* Mutant of NotifyDone: only wait_all waits on the variable notified.
NotifyWaiterOnly ==
  /\ UNCHANGED call
  /\ waitPc' = IF waitPc = "asleep" THEN "checking" ELSE waitPc

\* cv_done_.notify_all(), without the mutex: it reaches who sleeps now.
NotifyDone ==
  /\ call' = [t \in Tasks |-> IF call[t] = "blocked" THEN "woken" ELSE call[t]]
  /\ waitPc' = IF waitPc = "asleep" THEN "checking" ELSE waitPc

Notify(w) ==
  /\ worker[w] = "counted"
  /\ NotifyDone
  /\ worker' = [worker EXCEPT ![w] = "ready"]
  /\ UNCHANGED <<policy, kind, done, queue, task, workers, active, stopVars>>

-----------------------------------------------------------------------------
(***************************************************************************)
(* wait_all() and clear_queue().                                           *)
(***************************************************************************)
WaitAll ==
  /\ WaitAllAllowed
  /\ waitPc = "none"
  /\ waitPc' = "checking"
  /\ UNCHANGED <<policy, call, kind, done, queue, poolVars, stopVars>>

\* The predicate; a worker may change active_workers_ after it was read.
WaitCheck ==
  /\ waitPc = "checking"
  /\ waitPc' = IF queue = {} /\ active = 0 THEN "returned" ELSE "falling"
  /\ UNCHANGED <<policy, call, kind, done, queue, poolVars, stopVars>>

\* The mutex is released and the thread sleeps, in one.
WaitSleep ==
  /\ waitPc = "falling"
  /\ waitPc' = "asleep"
  /\ UNCHANGED <<policy, call, kind, done, queue, poolVars, stopVars>>

ClearQueue ==
  /\ ClearAllowed
  /\ MutexFree
  /\ queue # {}
  /\ queue' = {}
  /\ UNCHANGED <<policy, call, kind, done, poolVars, stopVars, waitPc>>

-----------------------------------------------------------------------------
(***************************************************************************)
(* stop().                                                                 *)
(***************************************************************************)
StopSet ==
  /\ StopAllowed
  /\ stopPc = "none"
  /\ MutexFree
  /\ stopped' = TRUE
  /\ stopPc' = "notify"
  /\ UNCHANGED <<policy, call, kind, done, queue, poolVars, joinSet, waitPc>>

\* Mutant of StopNotify: the workers are not notified.
StopNotifiesCallers ==
  /\ stopPc = "notify"
  /\ NotifyDone
  /\ joinSet' = workers
  /\ stopPc' = "join"
  /\ UNCHANGED <<policy, kind, done, queue, poolVars, stopped>>

\* notify_all on both variables, after the mutex; then the loop over workers_.
StopNotify ==
  /\ stopPc = "notify"
  /\ NotifyDone
  /\ worker' = [w \in Workers |-> IF worker[w] = "idle" THEN "ready" ELSE worker[w]]
  /\ joinSet' = workers
  /\ stopPc' = "join"
  /\ UNCHANGED <<policy, kind, done, queue, task, workers, active, stopped>>

\* workers_.clear(): a thread that entered workers_ after the loop began was
\* not joined, and its destructor terminates the process.
StopClear ==
  /\ stopPc = "join"
  /\ \A w \in joinSet : worker[w] = "exited"
  /\ stopPc' = IF workers = joinSet THEN "done" ELSE "terminated"
  /\ workers' = {}
  /\ UNCHANGED <<policy, call, kind, done, queue, worker, task, active, stopped,
                 joinSet, waitPc>>

-----------------------------------------------------------------------------
Kinds == {"enqueue", "try_enqueue", "enqueue_and_wait"}

Alive == stopPc # "terminated"

CallerStep(t) == Enter(t) \/ Unblock(t) \/ AwaitReturns(t)
WorkerStep(w) == Fetch(w) \/ Execute(w) \/ Decrement(w) \/ Notify(w)

Next ==
  /\ Alive
  /\ \/ \E t \in Tasks, k \in Kinds : Submit(t, k)
     \/ \E t \in Tasks : CallerStep(t)
     \/ \E w \in Workers : WorkerStep(w)
     \/ WaitAll \/ WaitCheck \/ WaitSleep \/ ClearQueue
     \/ StopSet \/ StopNotify \/ StopClear

Spec == Init /\ [][Next]_vars

(***************************************************************************)
(* Threads are scheduled fairly and tasks end.  The mutex is kept from one *)
(* step to the next only by wait_all, which is weakly fair as well, and a  *)
(* caller that finds the queue full again has been overtaken by one of     *)
(* finitely many others: weak fairness is enough.                          *)
(***************************************************************************)
Fairness ==
  /\ \A t \in Tasks : WF_vars(Alive /\ CallerStep(t))
  /\ \A w \in Workers : WF_vars(Alive /\ WorkerStep(w))
  /\ WF_vars(Alive /\ (WaitCheck \/ WaitSleep))
  /\ WF_vars(Alive /\ (StopNotify \/ StopClear))

FairSpec == Spec /\ Fairness

-----------------------------------------------------------------------------
CallStates == {"none", "entering", "blocked", "woken", "awaiting", "accepted",
               "refused", "threw"}
WorkerStates == {"absent", "ready", "idle", "running", "ran", "counted", "exited"}

(* Type correctness; a worker has a task exactly while it is active.       *)
TypeOK ==
  /\ policy \in AllPolicies
  /\ call \in [Tasks -> CallStates]
  /\ kind \in [Tasks -> Kinds]
  /\ done \in SUBSET Tasks
  /\ queue \in SUBSET Tasks
  /\ worker \in [Workers -> WorkerStates]
  /\ task \in [Workers -> Tasks \cup {NoTask}]
  /\ workers \in SUBSET Workers
  /\ active \in Int
  /\ stopped \in BOOLEAN
  /\ stopPc \in {"none", "notify", "join", "done", "terminated"}
  /\ joinSet \in SUBSET Workers
  /\ waitPc \in {"none", "checking", "falling", "asleep", "returned"}
  /\ \A w \in Workers : task[w] # NoTask <=> worker[w] \in {"running", "ran"}

(* enqueue wakes one sleeper and workers look at the queue before they     *)
(* sleep, so the workers never all sleep while a task is queued.  Once     *)
(* stop() has notified, no worker and no caller sleeps again, those that   *)
(* passed the test of stopped_ before it included.                         *)
NobodySleepsOnWork ==
  /\ queue # {} /\ ~stopped => \E w \in workers : worker[w] \notin {"idle", "exited"}
  /\ stopPc \in {"join", "done", "terminated"} =>
       /\ \A w \in Workers : worker[w] # "idle"
       /\ \A t \in Tasks : call[t] # "blocked"

(* As long as nobody calls clear_queue, a caller blocked by a full queue   *)
(* sleeps only while it is full or a notification is still to come.        *)
BlockedForAReason ==
  ~ClearAllowed => \A t \in Tasks :
    call[t] = "blocked" =>
      Full \/ stopPc = "notify" \/ \E w \in Workers : worker[w] \in {"running", "ran", "counted"}

(* The queue and the pool keep their bounds, although callers wait for     *)
(* room outside the mutex and threads are added and stopped concurrently.  *)
WithinLimits ==
  Cardinality(queue) <= MaxQueue /\ Cardinality(workers) <= MaxThreads

(* What enqueue accepted is in the queue, running, or done, whatever stop()*)
(* does meanwhile, unless DISCARD_OLDEST or clear_queue drops tasks.       *)
NothingLost ==
  policy # "DISCARD_OLDEST" /\ ~ClearAllowed =>
    \A t \in Tasks :
      call[t] = "accepted" => t \in queue \cup done \/ \E w \in Workers : task[w] = t

(* The pool handles tasks as TaskPool promises.  A task whose caller       *)
(* enqueue has answered is queued, in a worker's hands, done or gone for   *)
(* good, however callers outside the mutex, policies, clear_queue and      *)
(* stop() interleave.                                                      *)
Submitting == {t \in Tasks : call[t] \in {"none", "entering", "blocked", "woken"}}
Running == {task[w] : w \in {v \in Workers : worker[v] = "running"}}
Gone == Tasks \ (Submitting \cup queue \cup Running \cup done)

Handling == INSTANCE TaskPool WITH
  Room <- MaxQueue, Hands <- MaxThreads,
  waiting <- queue, running <- Running, finished <- done, gone <- Gone

ImplementsTaskPool == Handling!Spec

(* A task that was queued before stop() began runs: workers drain the      *)
(* queue before they exit.                                                 *)
QueuedRuns == \A t \in Tasks : (t \in queue /\ ~stopped) ~> t \in done

(* A caller blocked by a full queue gets in or is turned away by stop().   *)
BlockedReturns ==
  \A t \in Tasks : call[t] = "blocked" ~> call[t] \in {"accepted", "refused", "awaiting"}

(* stop() joins all workers and returns.                                   *)
StopReturns == stopPc = "notify" ~> stopPc = "done"
=============================================================================
