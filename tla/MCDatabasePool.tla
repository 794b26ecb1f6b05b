--------------------------- MODULE MCDatabasePool ---------------------------
(* Model-checking instances of DatabasePool. *)
EXTENDS DatabasePoolClaims, TLC

\* Sound where no temporal property is checked.
Symmetry == Permutations(Clients) \cup Permutations(DbConns)
=============================================================================
