---------------------------- MODULE DatabasePool ----------------------------
(***************************************************************************)
(* DatabasePool (database_pool.cpp): the pool of MySQL connections with    *)
(* its waiting acquire(), the health-check thread and shutdown().          *)
(*                                                                         *)
(* A step is one critical section of mutex_; connecting and pinging happen *)
(* inside it.  Whether a ping or a connect succeeds, and when a deadline   *)
(* passes, is the environment's choice.  idle_connections_ is a FIFO queue *)
(* there and a set here: no property tells its elements apart.             *)
(***************************************************************************)
EXTENDS Naturals, FiniteSets

CONSTANTS
  Clients,  \* threads that use the pool
  DbConns,  \* DatabaseConnection objects
  NoDb,     \* nullptr
  Min, Max  \* min_connections, max_connections

ASSUME DbPoolAssumption ==
  /\ IsFiniteSet(Clients) /\ NoDb \notin DbConns
  /\ Min \in Nat /\ Max \in Nat \ {0} /\ Min <= Max

VARIABLES
  all, idle,  \* all_connections_, idle_connections_
  held,       \* held[t]: the connection acquire() gave thread t
  wait,       \* wait[t]: whether t sleeps in acquire(), and was notified
  health,     \* health_check_thread_
  shut,       \* where shutdown() is; shutdown_ is set unless "no"
  missed      \* history: a notification was lost or not sent

vars == <<all, idle, held, wait, health, shut, missed>>

Asleep == {t \in Clients : wait[t] = "asleep"}
Told   == {t \in Clients : wait[t] = "told"}
Held   == {held[t] : t \in Clients} \ {NoDb}
Fresh  == DbConns \ (all \cup Held)
Idler(t) == held[t] = NoDb /\ wait[t] = "no"

Init ==
  /\ all = {} /\ idle = {}
  /\ held = [t \in Clients |-> NoDb]
  /\ wait = [t \in Clients |-> "no"]
  /\ health = "none" /\ shut = "no" /\ missed = FALSE

-----------------------------------------------------------------------------
(* init(), called before the pool is used if at all: gateway_main.cpp      *)
(* makes a pool and does not.  Some of the connections may fail.           *)
PoolInit(S) ==
  /\ health = "none" /\ shut = "no" /\ all = {} /\ (\A t \in Clients : Idler(t))
  /\ S \subseteq Fresh /\ S # {} /\ IsFiniteSet(S) /\ Cardinality(S) <= Min
  /\ all' = S /\ idle' = S
  /\ health' = "running"
  /\ UNCHANGED <<held, wait, shut, missed>>

(***************************************************************************)
(* One round of the loop of acquire(), under the mutex: connections D that *)
(* do not answer are dropped until one does; with none left a new one is   *)
(* made if the pool is below its limit; else, or if that fails, t sleeps.  *)
(***************************************************************************)
\* Mutant of TakeIdle: the front of the queue is not popped.
TakeFront(t, D, c) ==
  /\ D \subseteq idle /\ c \in idle \ D
  /\ idle' = idle \ D
  /\ all' = all \ D
  /\ held' = [held EXCEPT ![t] = c]
  /\ wait' = [wait EXCEPT ![t] = "no"]

TakeIdle(t, D, c) ==
  /\ D \subseteq idle /\ c \in idle \ D
  /\ idle' = idle \ (D \cup {c})
  /\ all' = all \ D
  /\ held' = [held EXCEPT ![t] = c]
  /\ wait' = [wait EXCEPT ![t] = "no"]

\* Mutant of Create: the limit is compared with the wrong operator.
CreateOneMore(t, c) ==
  /\ c \in Fresh
  /\ Cardinality(all \ idle) <= Max
  /\ all' = (all \ idle) \cup {c}
  /\ idle' = {}
  /\ held' = [held EXCEPT ![t] = c]
  /\ wait' = [wait EXCEPT ![t] = "no"]

Create(t, c) ==
  /\ c \in Fresh
  /\ Cardinality(all \ idle) < Max
  /\ all' = (all \ idle) \cup {c}
  /\ idle' = {}
  /\ held' = [held EXCEPT ![t] = c]
  /\ wait' = [wait EXCEPT ![t] = "no"]

\* Mutant of FallAsleep: it sleeps without looking at the idle connections.
SleepAnyway(t) ==
  /\ wait' = [wait EXCEPT ![t] = "asleep"]
  /\ UNCHANGED <<all, idle, held>>

FallAsleep(t) ==
  /\ all' = all \ idle
  /\ idle' = {}
  /\ wait' = [wait EXCEPT ![t] = "asleep"]
  /\ UNCHANGED held

Round(t) ==
  /\ \/ \E D \in SUBSET idle, c \in idle : TakeIdle(t, D, c)
     \/ \E c \in DbConns : Create(t, c)
     \/ FallAsleep(t)
  /\ UNCHANGED <<health, shut, missed>>

\* acquire() returns nullptr.
GiveUp(t) ==
  /\ wait' = [wait EXCEPT ![t] = "no"]
  /\ UNCHANGED <<all, idle, held, health, shut>>

Acquire(t) == Idler(t) /\ shut = "no" /\ Round(t)

Resume(t) == wait[t] = "told" /\ shut = "no" /\ Round(t)

ResumeShut(t) == wait[t] = "told" /\ shut # "no" /\ GiveUp(t) /\ UNCHANGED missed

\* wait_until reports a timeout whenever the deadline has passed by the time
\* the mutex is locked again, even to a thread that was notified.
Late(t) ==
  /\ wait[t] = "told" /\ shut = "no"
  /\ GiveUp(t)
  /\ missed' = TRUE

Timeout(t) == wait[t] = "asleep" /\ GiveUp(t) /\ UNCHANGED missed

\* The front of the queue does not answer: try_acquire() drops it and fails.
TryAcquireFails(t) ==
  /\ Idler(t) /\ shut = "no"
  /\ \E c \in idle : idle' = idle \ {c} /\ all' = all \ {c}
  /\ UNCHANGED <<held, wait, health, shut, missed>>

TryAcquire(t) ==
  /\ Idler(t) /\ shut = "no"
  /\ \E c \in idle : TakeIdle(t, {}, c)
  /\ UNCHANGED <<health, shut, missed>>

(***************************************************************************)
(* release().  A connection that answers goes back and one sleeper is      *)
(* notified; one that does not is dropped and nobody is.                   *)
(***************************************************************************)
NotifyOne ==
  IF Asleep = {} THEN UNCHANGED wait
  ELSE \E w \in Asleep : wait' = [wait EXCEPT ![w] = "told"]

\* Mutant of ReleaseValid: the notification is forgotten.
ReleaseQuietly(t) ==
  /\ held[t] # NoDb /\ shut = "no"
  /\ idle' = idle \cup {held[t]}
  /\ held' = [held EXCEPT ![t] = NoDb]
  /\ UNCHANGED <<all, wait, health, shut, missed>>

ReleaseValid(t) ==
  /\ held[t] # NoDb /\ shut = "no"
  /\ idle' = idle \cup {held[t]}
  /\ held' = [held EXCEPT ![t] = NoDb]
  /\ NotifyOne
  /\ UNCHANGED <<all, health, shut, missed>>

\* Mutant of ReleaseInvalid: the dead connection stays counted.
ReleaseLeaks(t) ==
  /\ held[t] # NoDb /\ shut = "no"
  /\ held' = [held EXCEPT ![t] = NoDb]
  /\ UNCHANGED <<all, idle, wait, health, shut, missed>>

ReleaseInvalid(t) ==
  /\ held[t] # NoDb /\ shut = "no"
  /\ all' = all \ {held[t]}
  /\ held' = [held EXCEPT ![t] = NoDb]
  /\ UNCHANGED <<idle, wait, health, shut, missed>>

ReleaseShut(t) ==
  /\ held[t] # NoDb /\ shut # "no"
  /\ held' = [held EXCEPT ![t] = NoDb]
  /\ UNCHANGED <<all, idle, wait, health, shut, missed>>

-----------------------------------------------------------------------------
(***************************************************************************)
(* cleanup_idle_connections(): connections R idle for too long go, down to *)
(* the minimum, and connections N are made up to it.  Nobody is notified.  *)
(***************************************************************************)
\* Mutant of Cleanup: what is dropped stays in the queue.
CleanupKeepsQueue(R, N) ==
  /\ health = "running" /\ shut = "no"
  /\ R \subseteq idle /\ (R # {} => Cardinality(all \ R) >= Min)
  /\ N \subseteq Fresh /\ IsFiniteSet(N) /\ (N # {} => Cardinality((all \ R) \cup N) <= Min)
  /\ all' = (all \ R) \cup N
  /\ idle' = idle \cup N
  /\ missed' = (missed \/ N # {})
  /\ UNCHANGED <<held, wait, health, shut>>

Cleanup(R, N) ==
  /\ health = "running" /\ shut = "no"
  /\ R \subseteq idle /\ (R # {} => Cardinality(all \ R) >= Min)
  /\ N \subseteq Fresh /\ IsFiniteSet(N) /\ (N # {} => Cardinality((all \ R) \cup N) <= Min)
  /\ all' = (all \ R) \cup N
  /\ idle' = (idle \ R) \cup N
  /\ missed' = (missed \/ N # {})
  /\ UNCHANGED <<held, wait, health, shut>>

HealthExit ==
  /\ health = "running" /\ shut # "no"
  /\ health' = "exited"
  /\ UNCHANGED <<all, idle, held, wait, shut, missed>>

Shutdown ==
  /\ shut = "no"
  /\ shut' = "flagged"
  /\ UNCHANGED <<all, idle, held, wait, health, missed>>

\* Mutant of ShutdownNotify: only one sleeper is woken.
ShutdownNotifyOne ==
  /\ shut = "flagged"
  /\ shut' = "notified"
  /\ NotifyOne
  /\ UNCHANGED <<all, idle, held, health, missed>>

ShutdownNotify ==
  /\ shut = "flagged"
  /\ shut' = "notified"
  /\ wait' = [t \in Clients |-> IF t \in Asleep THEN "told" ELSE wait[t]]
  /\ UNCHANGED <<all, idle, held, health, missed>>

\* The join of the health thread, then the pool is emptied.
ShutdownClear ==
  /\ shut = "notified" /\ health # "running"
  /\ shut' = "done"
  /\ all' = {} /\ idle' = {}
  /\ UNCHANGED <<held, wait, health, missed>>

-----------------------------------------------------------------------------
ClientStep(t) ==
  \/ Acquire(t) \/ Resume(t) \/ ResumeShut(t) \/ Late(t) \/ Timeout(t)
  \/ TryAcquire(t) \/ TryAcquireFails(t)
  \/ ReleaseValid(t) \/ ReleaseInvalid(t) \/ ReleaseShut(t)

Next ==
  \/ \E t \in Clients : ClientStep(t)
  \/ \E S \in SUBSET DbConns : PoolInit(S)
  \/ \E R \in SUBSET idle, N \in SUBSET DbConns : Cleanup(R, N)
  \/ HealthExit \/ Shutdown \/ ShutdownNotify \/ ShutdownClear

Spec == Init /\ [][Next]_vars

(* Threads are scheduled and the health thread's sleep ends.  Nothing is   *)
(* assumed of deadlines: a sleeper may have to be woken.                   *)
Fairness ==
  /\ WF_vars(ShutdownNotify) /\ WF_vars(ShutdownClear) /\ WF_vars(HealthExit)
  /\ \A t \in Clients : WF_vars(Resume(t) \/ ResumeShut(t))

FairSpec == Spec /\ Fairness

-----------------------------------------------------------------------------
TypeOK ==
  /\ all \in SUBSET DbConns /\ IsFiniteSet(all)
  /\ idle \in SUBSET all
  /\ held \in [Clients -> DbConns \cup {NoDb}]
  /\ wait \in [Clients -> {"no", "asleep", "told"}]
  /\ health \in {"none", "running", "exited"}
  /\ shut \in {"no", "flagged", "notified", "done"}
  /\ missed \in BOOLEAN

(* Every connection the pool counts is idle or in the hands of one thread: *)
(* none is lent twice, and none is counted that nobody will give back,     *)
(* which would make the pool smaller for ever (release, acquire).          *)
Accounted ==
  /\ \A s, t \in Clients : held[s] = held[t] /\ held[s] # NoDb => s = t
  /\ idle \cap Held = {}
  /\ shut = "no" => all = idle \cup Held

(* max_connections bounds what is open.                                    *)
WithinMax == Cardinality(all) <= Max

(* While connections are idle, as many notified threads are on their way   *)
(* as there are idle connections, if anyone sleeps at all: acquire() does  *)
(* not sleep beside an idle connection.  Without the condition this is     *)
(* false: see NobodyOverlooked of DatabasePoolClaims.  And once shutdown() *)
(* has notified, nobody sleeps again.                                      *)
EnoughTold ==
  /\ shut = "no" /\ ~missed /\ Asleep # {} => Cardinality(idle) <= Cardinality(Told)
  /\ shut \in {"notified", "done"} => Asleep = {}

(* shutdown() wakes every thread that waits in acquire(), without the help *)
(* of its deadline.                                                        *)
ShutdownWakes == shut # "no" ~> Asleep \cup Told = {}

(* The pool lends as Leases promises: one borrower per connection, at most *)
(* max_connections out at once.                                            *)
Lending == INSTANCE Leases WITH
  Borrowers <- Clients, Items <- DbConns, NoItem <- NoDb, Limit <- Max, lent <- held

ImplementsLeases == Lending!Spec
=============================================================================
