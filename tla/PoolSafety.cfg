SPECIFICATION Spec
CONSTANTS
  t1 = t1
  t2 = t2
  t3 = t3
  Tasks = {t1, t2, t3}
  Workers = {w1, w2, w3}
  MinWorkers = {w1}
  MaxThreads = 2
  MaxQueue = 1
  Prio <- Tied
  Policies = {"BLOCK", "DISCARD", "DISCARD_OLDEST", "CALLER_RUNS"}
  NoTask = NoTask
  StopAllowed = TRUE
  ClearAllowed = TRUE
  WaitAllAllowed = TRUE
SYMMETRY Symmetry
INVARIANTS TypeOK NobodySleepsOnWork
PROPERTY ImplementsTaskPool
CHECK_DEADLOCK FALSE
