\* Each of these is refuted; check one at a time, the others commented out.
SPECIFICATION FairSpec
CONSTANTS
  Conns = {c1, c2}
  Users = {u1}
  Fds = {f1, f2}
  Heartbeat = Heartbeat
  Main = Main
  NoConn = NoConn
  NoUser = NoUser
  NoFd = NoFd
  MaxFrames = 0
  SweepAllowed = TRUE
  Stallers = {c1}
  StopAllowed = TRUE
PROPERTY StopCompletes
\* PROPERTY NotStuckInRecv
\* PROPERTY StalledAlone
CHECK_DEADLOCK FALSE
