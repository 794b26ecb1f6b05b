--------------------------- MODULE FriendsClaims ---------------------------
(***************************************************************************)
(* What one expects of the friend requests and the code does not keep: the *)
(* three ways in which friendship becomes one-sided.                       *)
(***************************************************************************)
EXTENDS Friends

MutualUnless(C) ==
  clash \subseteq C => \A a, b \in Users :
    row[<<a, b>>] = "accepted" => row[<<b, a>>] = "accepted"

(* Two users who asked each other, or one who was rejected before he is    *)
(* asked: the acceptance's INSERT meets a row and fails.                   *)
NotTorn == MutualUnless({"torn"})

(* An acceptance that was overtaken by another one and a removal.          *)
NotStale == MutualUnless({"stale"})

(* reject_friend_request after the acceptance.                             *)
NotLate == MutualUnless({"late"})
=============================================================================
