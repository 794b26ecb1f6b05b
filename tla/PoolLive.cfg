SPECIFICATION FairSpec
CONSTANTS
  t1 = t1
  t2 = t2
  t3 = t3
  Tasks = {t1, t2, t3}
  Workers = {w1, w2}
  MinWorkers = {w1, w2}
  MaxThreads = 2
  MaxQueue = 1
  Prio <- Ranked
  Policies = {"BLOCK"}
  NoTask = NoTask
  StopAllowed = TRUE
  ClearAllowed = FALSE
  WaitAllAllowed = FALSE
INVARIANTS BlockedForAReason NothingLost
PROPERTIES QueuedRuns BlockedReturns StopReturns
CHECK_DEADLOCK FALSE
