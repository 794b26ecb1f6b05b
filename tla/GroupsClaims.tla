---------------------------- MODULE GroupsClaims ----------------------------
(***************************************************************************)
(* What group_manager.cpp says of itself and Groups refutes.               *)
(***************************************************************************)
EXTENDS Groups

(* The comment of transfer_owner, group_manager.cpp:173: the new owner is a *)
(* member of the group.  He may leave, or be removed, between the question *)
(* and the UPDATE.                                                         *)
NewOwnerIsMember ==
  [][\A g \in GroupIds :
       Exists(g) /\ owner'[g] \in Users /\ owner'[g] # owner[g]
         => <<g, owner'[g]>> \in member']_vars

(* The comment of leave_group, group_manager.cpp:71: the owner may not     *)
(* leave.  A question whose statement failed is answered with no           *)
(* (is_group_owner, database.cpp:1155), and he goes on to.                 *)
OwnerStays ==
  "overlap" \notin clash =>
    \A t \in Threads : req[t].at = "leaveRemove" => ~IsOwner(req[t].group, req[t].target)
=============================================================================
