SPECIFICATION Spec
CONSTANTS
  Conns = {c1, c2}
  Users = {u1}
  Fds = {f1}
  Heartbeat = Heartbeat
  Main = Main
  NoConn = NoConn
  NoUser = NoUser
  NoFd = NoFd
  MaxFrames = 2
  SweepAllowed = TRUE
  Stallers = {}
  StopAllowed = TRUE
SYMMETRY Symmetry
INVARIANT DescriptorInv
CHECK_DEADLOCK FALSE
