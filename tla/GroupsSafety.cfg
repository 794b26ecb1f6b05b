SPECIFICATION Spec
CONSTANTS
  Threads = {t1, t2}
  Users = {u1, u2, u3}
  GroupIds = {g1}
  Unborn = Unborn
  Dismissed = Dismissed
  MaxFaults = 1
SYMMETRY Symmetry
INVARIANTS TypeOK MembersLive OwnerIsMember
PROPERTIES HandedByOwner ByRight
