-------------------------- MODULE ThreadPoolClaims --------------------------
(***************************************************************************)
(* What thread_pool_v2.hpp and its comments say of the pool and the code   *)
(* does not keep.  Each is refuted by a run.                               *)
(***************************************************************************)
EXTENDS ThreadPool

(* wait_all, thread_pool_v2.hpp:128: waits until all tasks are complete.   *)
(* With finitely many tasks the call returns.                              *)
WaitAllReturns == waitPc = "checking" ~> waitPc = "returned"

(* enqueue_and_wait, thread_pool_v2.hpp:98: submits a task and waits for   *)
(* its completion.  The call comes back.                                   *)
AwaitComesBack == \A t \in Tasks : call[t] = "awaiting" ~> call[t] # "awaiting"

(* stop, thread_pool_v2.hpp:123: stops the pool.  When it has returned no  *)
(* worker is left, and it does return.                                     *)
StopEndsThreads ==
  /\ stopPc # "terminated"
  /\ stopPc = "done" => \A w \in Workers : worker[w] \in {"absent", "exited"}

(* RejectionPolicy::BLOCK, thread_pool_v2.hpp:39: the caller waits for     *)
(* room in the queue.  It does not sleep when there is room for good.      *)
RoomIsSeen ==
  \A t \in Tasks : (call[t] = "blocked" /\ ~Full) ~> (call[t] # "blocked" \/ Full)

(* DISCARD_OLDEST, thread_pool_v2.cpp:57: the task of lowest priority is   *)
(* discarded to make room.                                                 *)
LowestDiscarded ==
  [][\A t, u \in Tasks :
       t \in queue' \ queue /\ u \in queue \ queue' => \A v \in queue : Prio[u] <= Prio[v]]_vars

(* CALLER_RUNS, thread_pool_v2.hpp:42: the calling thread executes a task  *)
(* the queue has no room for.                                              *)
CallerRunsIt == \A t \in Tasks : call[t] = "threw" => t \in done
=============================================================================
