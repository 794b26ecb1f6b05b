SPECIFICATION FairSpec
CONSTANTS
  Devices = {d1}
  Chans = {c1, c2}
  NoChan = NoChan
  MaxMissed = 2
  MaxDrops = 1
  MaxRefusals = 1
  MaxSilences = 3
  MaxLogins = 2
INVARIANTS TypeOK KeepsTrying ConnectedHears NeverKicksItself
PROPERTIES Reconnects SettlesWhenCalm
CHECK_DEADLOCK FALSE
