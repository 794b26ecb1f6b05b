------------------------- MODULE MCClientReconnect -------------------------
(* Model-checking instances of ClientReconnect. *)
EXTENDS ClientReconnectClaims, TLC

Symmetry == Permutations(Chans)
============================================================================
