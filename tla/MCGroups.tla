------------------------------ MODULE MCGroups ------------------------------
(* Model-checking instances of Groups. *)
EXTENDS GroupsClaims, TLC

Symmetry == Permutations(Threads) \cup Permutations(Users)
=============================================================================
