\* Each of these is refuted; check one at a time, the others commented out.
SPECIFICATION FairSpec
CONSTANTS
  Conns = {s1, s2}
  Users = {u1, u2}
  Threads = {t1, t2}
  None = None
  MaxFrames = 2
INVARIANT NeverFrozen
\* INVARIANT ListedOnce
\* INVARIANT RouteIsUser
\* PROPERTY SweptSilent
\* PROPERTY ReplacedCloses
CHECK_DEADLOCK FALSE
