---------------------------- MODULE MCThreadPool ----------------------------
(* Model-checking instances of ThreadPool. *)
EXTENDS ThreadPoolClaims, TLC

CONSTANTS t1, t2, t3

\* One task of each of three priorities.
Ranked == (t1 :> 1) @@ (t2 :> 2) @@ (t3 :> 3)

\* Two tasks of one priority, which may start in either order.
Tied == (t1 :> 1) @@ (t2 :> 1) @@ (t3 :> 2)

\* Only Init tells the workers apart, and nothing tells t1 from t2.
Symmetry == Permutations(Workers) \cup Permutations({t1, t2})
=============================================================================
