SPECIFICATION FairSpec
CONSTANTS
  Conns = {s1, s2}
  Users = {u1, u2}
  Threads = {t1, t2}
  None = None
  MaxFrames = 2
INVARIANT Tracked
PROPERTY SilentSwept
CHECK_DEADLOCK FALSE
