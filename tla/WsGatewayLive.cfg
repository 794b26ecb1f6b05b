SPECIFICATION FairSpec
CONSTANTS
  Conns = {c1, c2}
  Users = {u1}
  Fds = {f1}
  Heartbeat = Heartbeat
  Main = Main
  NoConn = NoConn
  NoUser = NoUser
  NoFd = NoFd
  MaxFrames = 1
  SweepAllowed = TRUE
  Stallers = {c1}
  StopAllowed = FALSE
PROPERTY ConnectionsEnd
CHECK_DEADLOCK FALSE
