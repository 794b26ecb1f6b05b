SPECIFICATION Spec
CONSTANTS
  Threads = {t1, t2, t3}
  Users = {u1, u2}
  Bots = {u2}
  Idle = Idle
  MaxFaults = 1
SYMMETRY Symmetry
INVARIANTS TypeOK Mutual
PROPERTY ImplementsGraph
