\* Each of these is refuted; check one at a time, the others commented out.
SPECIFICATION FairSpec
CONSTANTS
  Devices = {d1}
  Chans = {c1, c2, c3}
  NoChan = NoChan
  MaxMissed = 1
  MaxDrops = 1
  MaxRefusals = 1
  MaxSilences = 1
  MaxLogins = 1
PROPERTY Settles
\* PROPERTY IdleStays
\* INVARIANT OneConnection
CHECK_DEADLOCK FALSE
