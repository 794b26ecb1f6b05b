\* Each of these is refuted; check one at a time, the others commented out.
SPECIFICATION Spec
CONSTANTS
  Clients = {p1, p2, p3, p4}
  DbConns = {d1, d2, d3, d4, d5}
  NoDb = NoDb
  Min = 2
  Max = 3
PROPERTY RoomIsUsed
\* INVARIANT NobodyOverlooked
CHECK_DEADLOCK FALSE
