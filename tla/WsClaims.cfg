\* Each of these is refuted; check one at a time, the others commented out.
SPECIFICATION Spec
CONSTANTS
  Conns = {c1, c2}
  Users = {u1, u2}
  Fds = {f1, f2}
  Heartbeat = Heartbeat
  Main = Main
  NoConn = NoConn
  NoUser = NoUser
  NoFd = NoFd
  MaxFrames = 3
  SweepAllowed = TRUE
  Stallers = {}
  StopAllowed = FALSE
PROPERTY ReceiverGetsIt
\* PROPERTY SweptIsRemoved
\* INVARIANT ServedIsListed
\* INVARIANT RoutesAreLive
\* INVARIANT StatusFollowsLogin
CHECK_DEADLOCK FALSE
