---------------------------- MODULE MCWsGateway ----------------------------
(* Model-checking instances of WsGateway. *)
EXTENDS WsGatewayClaims, TLC

Symmetry == Permutations(Conns) \cup Permutations(Users) \cup Permutations(Fds)
============================================================================
