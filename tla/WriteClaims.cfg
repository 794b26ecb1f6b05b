\* Each of these is refuted; check one at a time, the others commented out.
SPECIFICATION Spec
CONSTANTS
  Msgs = {m1, m2}
  Junk = Junk
INVARIANT OneWriter
\* INVARIANT NoJunk
CHECK_DEADLOCK FALSE
