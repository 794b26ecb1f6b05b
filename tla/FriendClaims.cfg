\* Each of these is refuted; check one at a time, the others commented out.
SPECIFICATION Spec
CONSTANTS
  Threads = {t1, t2, t3}
  Users = {u1, u2}
  Bots = {}
  Idle = Idle
  MaxFaults = 1
INVARIANT NotTorn
\* INVARIANT NotStale
\* INVARIANT NotLate
CHECK_DEADLOCK FALSE
