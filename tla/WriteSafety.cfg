SPECIFICATION Spec
CONSTANTS
  Msgs = {m1, m2, m3}
  Junk = Junk
SYMMETRY Symmetry
INVARIANTS TypeOK QueueServed InOrder
CHECK_DEADLOCK FALSE
