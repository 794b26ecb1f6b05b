\* Each of these is refuted; check one at a time, the others commented out.
\* WaitAllReturns is refuted with ClearAllowed = FALSE too.
SPECIFICATION FairSpec
CONSTANTS
  t1 = t1
  t2 = t2
  t3 = t3
  Tasks = {t1, t2, t3}
  Workers = {w1}
  MinWorkers = {w1}
  MaxThreads = 1
  MaxQueue = 1
  Prio <- Ranked
  Policies = {"BLOCK", "DISCARD"}
  NoTask = NoTask
  StopAllowed = FALSE
  ClearAllowed = TRUE
  WaitAllAllowed = TRUE
PROPERTY RoomIsSeen
\* PROPERTY AwaitComesBack
\* PROPERTY WaitAllReturns
CHECK_DEADLOCK FALSE
