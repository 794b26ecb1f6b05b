SPECIFICATION Spec
CONSTANTS
  Conns = {c1, c2}
  Users = {u1}
  Fds = {f1, f2}
  Heartbeat = Heartbeat
  Main = Main
  NoConn = NoConn
  NoUser = NoUser
  NoFd = NoFd
  MaxFrames = 2
  SweepAllowed = FALSE
  Stallers = {}
  StopAllowed = FALSE
INVARIANT OneLiveLogin
CHECK_DEADLOCK FALSE
