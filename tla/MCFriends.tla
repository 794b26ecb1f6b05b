----------------------------- MODULE MCFriends -----------------------------
(* Model-checking instances of Friends. *)
EXTENDS FriendsClaims, TLC

Symmetry == Permutations(Threads) \cup Permutations(Users \ Bots)
=============================================================================
