----------------------------- MODULE MCSessions -----------------------------
(* Model-checking instances of Sessions. *)
EXTENDS SessionsClaims, TLC

Symmetry == Permutations(Conns) \cup Permutations(Users) \cup Permutations(Threads)
=============================================================================
