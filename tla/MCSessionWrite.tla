--------------------------- MODULE MCSessionWrite ---------------------------
(* Model-checking instances of SessionWrite. *)
EXTENDS SessionWriteClaims, TLC

Symmetry == Permutations(Msgs)
=============================================================================
