SPECIFICATION FairSpec
CONSTANTS
  Clients = {p1, p2, p3, p4}
  DbConns = {d1, d2, d3}
  NoDb = NoDb
  Min = 1
  Max = 2
INVARIANTS TypeOK Accounted WithinMax EnoughTold
PROPERTIES ImplementsLeases ShutdownWakes
CHECK_DEADLOCK FALSE
