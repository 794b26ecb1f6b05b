SPECIFICATION FairSpec
CONSTANTS
  Devices = {d1, d2}
  Chans = {c1, c2}
  NoChan = NoChan
  MaxMissed = 1
  MaxDrops = 0
  MaxRefusals = 0
  MaxSilences = 0
  MaxLogins = 2
PROPERTY KicksEnd
CHECK_DEADLOCK FALSE
