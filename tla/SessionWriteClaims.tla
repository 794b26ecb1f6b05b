------------------------- MODULE SessionWriteClaims -------------------------
(* What one expects of a session's writes and the code does not keep.      *)
EXTENDS SessionWrite

(* Two calls of async_write on one socket never overlap (asio requires it  *)
(* of the program).                                                        *)
OneWriter == Cardinality({m \in Msgs : st[m] \in Writing}) <= 1

(* The client receives bytes of messages only.                             *)
NoJunk == \A i \in 1..Len(wire) : wire[i][1] # Junk
=============================================================================
