\* Each of these is refuted; check one at a time, the others commented out.
SPECIFICATION Spec
CONSTANTS
  t1 = t1
  t2 = t2
  t3 = t3
  Tasks = {t1, t2, t3}
  Workers = {w1, w2, w3}
  MinWorkers = {w1}
  MaxThreads = 2
  MaxQueue = 2
  Prio <- Ranked
  Policies = {"BLOCK", "CALLER_RUNS", "DISCARD_OLDEST"}
  NoTask = NoTask
  StopAllowed = TRUE
  ClearAllowed = FALSE
  WaitAllAllowed = FALSE
INVARIANT StopEndsThreads
\* INVARIANT CallerRunsIt
\* PROPERTY LowestDiscarded
CHECK_DEADLOCK FALSE
