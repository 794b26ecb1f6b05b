------------------------------ MODULE TaskPool ------------------------------
(***************************************************************************)
(* What a bounded pool promises about tasks: each is taken or turned away  *)
(* once, of those that wait the most urgent starts next, none runs twice,  *)
(* and none comes back once it is gone.                                    *)
(***************************************************************************)
EXTENDS Naturals, FiniteSets

CONSTANTS Tasks, Prio, Room, Hands

VARIABLES
  waiting,    \* at most Room tasks
  running,    \* at most Hands tasks
  finished,
  gone        \* turned away or dropped; they never run

tasks == <<waiting, running, finished, gone>>

New(t) == t \notin waiting /\ t \notin finished /\ t \notin running /\ t \notin gone
Urgent(t) == t \in waiting /\ \A u \in waiting : Prio[u] <= Prio[t]

Init == waiting = {} /\ running = {} /\ finished = {} /\ gone = {}

Take(t) ==
  /\ Cardinality(waiting) < Room
  /\ New(t)
  /\ waiting' = waiting \cup {t}
  /\ UNCHANGED <<running, finished, gone>>

TurnAway(t) ==
  /\ New(t)
  /\ gone' = gone \cup {t}
  /\ UNCHANGED <<waiting, running, finished>>

\* A full pool may take a task in the place of another.
Displace(t, u) ==
  /\ Cardinality(waiting) = Room
  /\ New(t)
  /\ waiting' = (waiting \ {u}) \cup {t}
  /\ gone' = gone \cup {u}
  /\ UNCHANGED <<running, finished>>

Start(t) ==
  /\ Urgent(t)
  /\ Cardinality(running) < Hands
  /\ waiting' = waiting \ {t}
  /\ running' = running \cup {t}
  /\ UNCHANGED <<finished, gone>>

Finish(t) ==
  /\ t \in running
  /\ running' = running \ {t}
  /\ finished' = finished \cup {t}
  /\ UNCHANGED <<waiting, gone>>

Clear ==
  /\ waiting' = {}
  /\ gone' = gone \cup waiting
  /\ UNCHANGED <<running, finished>>

Next ==
  \/ \E t \in Tasks : Take(t) \/ TurnAway(t) \/ Start(t) \/ Finish(t)
  \/ \E u \in waiting, t \in Tasks : Displace(t, u)
  \/ Clear

Spec == Init /\ [][Next]_tasks

-----------------------------------------------------------------------------
\* A task is in one place at a time.
Apart ==
  /\ waiting \cap running = {}
  /\ finished \cap gone = {}
  /\ (waiting \cup running) \cap (finished \cup gone) = {}

(* What follows: a task that has run never waits or runs again, and one    *)
(* that was turned away or dropped never runs.                             *)
RunsOnce == []Apart /\ [][finished \subseteq finished' /\ gone \subseteq gone']_tasks
=============================================================================
