\* Each of these is refuted; check one at a time, the others commented out.
SPECIFICATION Spec
CONSTANTS
  Threads = {t1, t2}
  Users = {u1, u2, u3}
  GroupIds = {g1}
  Unborn = Unborn
  Dismissed = Dismissed
  MaxFaults = 1
PROPERTY NewOwnerIsMember
\* INVARIANT OwnerStays
CHECK_DEADLOCK FALSE
