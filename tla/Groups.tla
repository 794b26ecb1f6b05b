------------------------------- MODULE Groups -------------------------------
(***************************************************************************)
(* Groups: the requests of gateway_main.cpp that change a group, as        *)
(* GroupManager carries them out on the tables `groups` and group_members. *)
(*                                                                         *)
(* Each call of Database is one critical section of its mutex, hence one   *)
(* step, and a request is several calls: it asks, and then it writes.      *)
(* Other requests run between them, and any statement may fail: a question *)
(* whose statement failed is answered with false.                          *)
(***************************************************************************)
EXTENDS Naturals, FiniteSets

CONSTANTS
  Threads,           \* handler threads
  Users,
  GroupIds,          \* AUTO_INCREMENT never gives a number twice
  Unborn, Dismissed, \* there is no such row yet, or no longer
  MaxFaults          \* bound: statements that fail

ASSUME GroupAssumption ==
  /\ Unborn \notin Users /\ Dismissed \notin Users /\ Unborn # Dismissed
  /\ MaxFaults \in Nat

VARIABLES
  owner,   \* groups: owner[g] is the owner's id
  member,  \* group_members: pairs of a group and a user
  admin,   \* those of them with is_admin = 1
  req,     \* req[t]: the request in hand and how far it is
  faults,  \* statements that may still fail
  clash    \* history: what has disturbed a request so far

tables == <<owner, member, admin>>
vars == <<tables, req, faults, clash>>

Idle == [at |-> "idle"]
Request(at, op, g, u, others, value) ==
  [at |-> at, op |-> op, group |-> g, target |-> u, todo |-> others, value |-> value]

Init ==
  /\ owner = [g \in GroupIds |-> Unborn]
  /\ member = {}
  /\ admin = {}
  /\ req = [t \in Threads |-> Idle]
  /\ faults = MaxFaults
  /\ clash = {}

Exists(g) == owner[g] \in Users
IsOwner(g, u) == owner[g] = u
IsMember(g, u) == <<g, u>> \in member
IsAdmin(g, u) == <<g, u>> \in admin

\* Some request for group g is under way.
Busy(g) == \E t \in Threads : req[t] # Idle /\ req[t].group = g
Overlap(g) == IF Busy(g) THEN clash \cup {"overlap"} ELSE clash

Fault == faults > 0 /\ faults' = faults - 1 /\ clash' = clash \cup {"fault"}
NoFault == UNCHANGED <<faults, clash>>

\* The request, or the part of it for one invited user, is over.
End(t) ==
  \/ req[t].todo = {} /\ req' = [req EXCEPT ![t] = Idle]
  \/ \E u \in req[t].todo :
       req' = [req EXCEPT ![t] = Request("joinGroup", @.op, @.group, u, @.todo \ {u}, @.value)]

Goto(t, at) == IF at = "end" THEN End(t) ELSE req' = [req EXCEPT ![t].at = at]

\* A question to the database; without an answer it counts as denied.
Ask(t, at, truth, ifTrue, ifFalse) ==
  /\ req[t].at = at
  /\ \/ NoFault /\ Goto(t, IF truth THEN ifTrue ELSE ifFalse)
     \/ Fault /\ Goto(t, ifFalse)
  /\ UNCHANGED tables

\* A request for group g arrives.
Begin(t, r) ==
  /\ req[t] = Idle
  /\ req' = [req EXCEPT ![t] = r]
  /\ clash' = Overlap(r.group)
  /\ UNCHANGED <<tables, faults>>

-----------------------------------------------------------------------------
(* create_group: one critical section, two INSERTs; either may fail.        *)
CreateGroup(t) ==
  /\ req[t] = Idle
  /\ \E g \in GroupIds, u \in Users :
       /\ owner[g] = Unborn
       /\ \/ /\ clash' = Overlap(g) /\ UNCHANGED faults
             /\ owner' = [owner EXCEPT ![g] = u]
             /\ member' = member \cup {<<g, u>>} /\ admin' = admin \cup {<<g, u>>}
          \/ /\ faults > 0 /\ faults' = faults - 1 /\ clash' = Overlap(g) \cup {"fault"}
             /\ owner' \in {owner, [owner EXCEPT ![g] = u]} /\ UNCHANGED <<member, admin>>
  /\ UNCHANGED req

(* Inviting: join_group for each of the users.  Anybody may invite.        *)
InviteBegin(t) ==
  \E u \in Users, g \in GroupIds, v \in Users : \E others \in SUBSET (Users \ {v}) :
    Begin(t, Request("joinGroup", u, g, v, others, TRUE))

JoinGroup(t) == Ask(t, "joinGroup", Exists(req[t].group), "joinMember", "end")
JoinMember(t) == Ask(t, "joinMember", IsMember(req[t].group, req[t].target), "end", "joinAdd")

\* Mutant of JoinAdd: the table has no foreign key to the groups.
JoinAnyway(t) ==
  /\ req[t].at = "joinAdd"
  /\ \/ NoFault /\ member' = member \cup {<<req[t].group, req[t].target>>}
     \/ Fault /\ UNCHANGED member
  /\ End(t)
  /\ UNCHANGED <<owner, admin>>

\* The INSERT fails if the group is gone or the row is there.
JoinAdd(t) ==
  /\ req[t].at = "joinAdd"
  /\ \/ NoFault /\ member' = IF Exists(req[t].group)
                               THEN member \cup {<<req[t].group, req[t].target>>} ELSE member
     \/ Fault /\ UNCHANGED member
  /\ End(t)
  /\ UNCHANGED <<owner, admin>>

\* DELETE FROM group_members, for leave_group and remove_member.
Remove(t, at) ==
  /\ req[t].at = at
  /\ \/ /\ NoFault
        /\ member' = member \ {<<req[t].group, req[t].target>>}
        /\ admin' = admin \ {<<req[t].group, req[t].target>>}
     \/ Fault /\ UNCHANGED <<member, admin>>
  /\ End(t)
  /\ UNCHANGED owner

(* leave_group: the owner may not leave.                                   *)
LeaveBegin(t) ==
  \E u \in Users, g \in GroupIds : Begin(t, Request("leaveOwner", u, g, u, {}, TRUE))

\* Mutant of LeaveOwner: the owner may leave.
LeaveUnasked(t) == Ask(t, "leaveOwner", IsOwner(req[t].group, req[t].target), "leaveRemove", "leaveRemove")

LeaveOwner(t) == Ask(t, "leaveOwner", IsOwner(req[t].group, req[t].target), "end", "leaveRemove")
LeaveRemove(t) == Remove(t, "leaveRemove")

(* remove_member: the owner removes anyone, an admin members only.         *)
KickBegin(t) ==
  \E u \in Users, g \in GroupIds, v \in Users : Begin(t, Request("kickOwner", u, g, v, {}, TRUE))

KickOwner(t) == Ask(t, "kickOwner", IsOwner(req[t].group, req[t].op), "kickTargetOwner", "kickAdmin")
KickAdmin(t) == Ask(t, "kickAdmin", IsAdmin(req[t].group, req[t].op), "kickTargetOwner", "end")
KickTargetOwner(t) ==
  Ask(t, "kickTargetOwner", IsOwner(req[t].group, req[t].target), "end", "kickTargetAdmin")

\* Mutant of KickTargetAdmin: admins may remove each other.
KickAnyAdmin(t) ==
  Ask(t, "kickTargetAdmin", IsAdmin(req[t].group, req[t].target), "kickRemove", "kickRemove")

KickTargetAdmin(t) ==
  Ask(t, "kickTargetAdmin", IsAdmin(req[t].group, req[t].target), "kickOwnerAgain", "kickRemove")
KickOwnerAgain(t) ==
  Ask(t, "kickOwnerAgain", IsOwner(req[t].group, req[t].op), "kickRemove", "end")
KickRemove(t) == Remove(t, "kickRemove")

(* set_admin: by the owner, of a member, himself included.                 *)
AdminBegin(t) ==
  \E u \in Users, g \in GroupIds, v \in Users, value \in BOOLEAN :
    Begin(t, Request("adminOwner", u, g, v, {}, value))

AdminOwner(t) == Ask(t, "adminOwner", IsOwner(req[t].group, req[t].op), "adminMember", "end")
AdminMember(t) == Ask(t, "adminMember", IsMember(req[t].group, req[t].target), "adminSet", "end")

\* Mutant of SetAdmin: the row is made if there is none.
SetAdminAnyway(g, u, value) == IF value THEN admin \cup {<<g, u>>} ELSE admin \ {<<g, u>>}

\* UPDATE group_members SET is_admin: no row, no effect.
SetAdmin(g, u, value) ==
  IF value THEN admin \cup ({<<g, u>>} \cap member) ELSE admin \ {<<g, u>>}

AdminSet(t) ==
  /\ req[t].at = "adminSet"
  /\ \/ NoFault /\ admin' = SetAdmin(req[t].group, req[t].target, req[t].value)
     \/ Fault /\ UNCHANGED admin
  /\ End(t)
  /\ UNCHANGED <<owner, member>>

(* transfer_owner: by the owner, to another member.                        *)
TransferBegin(t) ==
  \E u \in Users, g \in GroupIds, v \in Users :
    Begin(t, Request("transferOwner", u, g, v, {}, TRUE))

TransferOwner(t) ==
  Ask(t, "transferOwner", IsOwner(req[t].group, req[t].op),
      IF req[t].op = req[t].target THEN "end" ELSE "transferMember", "end")
TransferMember(t) ==
  Ask(t, "transferMember", IsMember(req[t].group, req[t].target), "transferSet", "end")

\* Mutant of TransferSet: no WHERE owner_id in the first statement.
TransferBlindly(t) ==
  LET g == req[t].group IN
  /\ req[t].at = "transferSet"
  /\ owner' = IF Exists(g) THEN [owner EXCEPT ![g] = req[t].target] ELSE owner
  /\ admin' = (admin \ {<<g, req[t].op>>}) \cup ({<<g, req[t].target>>} \cap member)
  /\ NoFault /\ End(t)
  /\ UNCHANGED member

\* One critical section, three statements.  The first does nothing unless
\* the old owner still is the owner; the others follow all the same.
TransferSet(t) ==
  LET g == req[t].group
      demoted == admin \ {<<g, req[t].op>>}
      promoted == {<<g, req[t].target>>} \cap member IN
  /\ req[t].at = "transferSet"
  /\ \/ /\ owner' = IF IsOwner(g, req[t].op) THEN [owner EXCEPT ![g] = req[t].target] ELSE owner
        /\ \/ NoFault /\ admin' = demoted \cup promoted
           \/ Fault /\ admin' \in {demoted, admin \cup promoted, admin}
     \/ Fault /\ UNCHANGED <<owner, admin>>
  /\ End(t)
  /\ UNCHANGED member

(* dismiss_group: by the owner; the memberships go with the group.         *)
DismissBegin(t) ==
  \E u \in Users, g \in GroupIds : Begin(t, Request("dismissOwner", u, g, u, {}, TRUE))

DismissOwner(t) == Ask(t, "dismissOwner", IsOwner(req[t].group, req[t].op), "dismissDelete", "end")

DismissDelete(t) ==
  LET g == req[t].group IN
  /\ req[t].at = "dismissDelete"
  /\ \/ /\ NoFault
        /\ owner' = IF Exists(g) THEN [owner EXCEPT ![g] = Dismissed] ELSE owner
        /\ member' = {m \in member : m[1] # g}
        /\ admin' = {m \in admin : m[1] # g}
     \/ Fault /\ UNCHANGED tables
  /\ End(t)

-----------------------------------------------------------------------------
Arrive(t) ==
  \/ InviteBegin(t) \/ LeaveBegin(t) \/ KickBegin(t)
  \/ AdminBegin(t) \/ TransferBegin(t) \/ DismissBegin(t)

Question(t) ==
  \/ JoinGroup(t) \/ JoinMember(t) \/ LeaveOwner(t)
  \/ KickOwner(t) \/ KickAdmin(t) \/ KickTargetOwner(t) \/ KickTargetAdmin(t) \/ KickOwnerAgain(t)
  \/ AdminOwner(t) \/ AdminMember(t)
  \/ TransferOwner(t) \/ TransferMember(t) \/ DismissOwner(t)

Write(t) ==
  \/ CreateGroup(t) \/ JoinAdd(t) \/ LeaveRemove(t) \/ KickRemove(t)
  \/ AdminSet(t) \/ TransferSet(t) \/ DismissDelete(t)

Next == \E t \in Threads : Arrive(t) \/ Question(t) \/ Write(t)

Spec == Init /\ [][Next]_vars

-----------------------------------------------------------------------------
Steps == {"joinGroup", "joinMember", "joinAdd", "leaveOwner", "leaveRemove",
          "kickOwner", "kickAdmin", "kickTargetOwner", "kickTargetAdmin",
          "kickOwnerAgain", "kickRemove", "adminOwner", "adminMember", "adminSet",
          "transferOwner", "transferMember", "transferSet", "dismissOwner", "dismissDelete"}

Requests == [at : Steps, op : Users, group : GroupIds, target : Users,
             todo : SUBSET Users, value : BOOLEAN]

(* Type correctness; only an invitation has more users to go.              *)
TypeOK ==
  /\ owner \in [GroupIds -> Users \cup {Unborn, Dismissed}]
  /\ member \subseteq GroupIds \X Users
  /\ admin \subseteq member
  /\ req \in [Threads -> Requests \cup {Idle}]
  /\ faults \in 0..MaxFaults
  /\ clash \subseteq {"fault", "overlap"}

(* Memberships are of groups that exist, although an invitation asks for   *)
(* the group long before it writes and the group may be dismissed between  *)
(* (join_group, dismiss_group and the foreign key of group_members).       *)
MembersLive == \A m \in member : Exists(m[1])

(* Ownership passes only from the present owner, by his own request and to *)
(* the user he named, whatever requests overlap and fail: the loser of two *)
(* transfers does not take the group back (transfer_group_owner).          *)
HandedByOwner ==
  [][\A g \in GroupIds :
       Exists(g) /\ owner'[g] \in Users /\ owner'[g] # owner[g]
         => \E t \in Threads : /\ req[t] # Idle /\ req'[t] # req[t]
                               /\ req[t].group = g
                               /\ req[t].op = owner[g] /\ req[t].target = owner'[g]]_vars

(* The owner of a group is a member of it, as long as no statement fails   *)
(* and no two requests for one group overlap: the five requests together   *)
(* keep it, each of them in several calls.                                 *)
OwnerIsMember ==
  clash = {} => \A g \in GroupIds : Exists(g) => IsMember(g, owner[g])

(* What the questions of a request have established, for as long as it is  *)
(* alone with its group: the rest of the inductive invariant.              *)
Right(r) ==
  LET g == r.group IN
  /\ r.at \in {"leaveRemove", "kickTargetAdmin", "kickOwnerAgain", "kickRemove"}
       => ~IsOwner(g, r.target)
  /\ r.at \in {"kickTargetOwner", "kickTargetAdmin", "kickOwnerAgain", "kickRemove"}
       => IsOwner(g, r.op) \/ IsAdmin(g, r.op)
  /\ r.at = "kickRemove" => IsOwner(g, r.op) \/ ~IsAdmin(g, r.target)
  /\ r.at \in {"adminMember", "adminSet", "transferMember", "transferSet", "dismissDelete"}
       => IsOwner(g, r.op)
  /\ r.at = "transferSet" => IsMember(g, r.target)

Leaving == \A t \in Threads : req[t].at \in {"leaveOwner", "leaveRemove"} => req[t].op = req[t].target

Alone ==
  clash = {} => \A t \in Threads : req[t] # Idle =>
    /\ Right(req[t])
    /\ \A s \in Threads : s # t /\ req[s] # Idle => req[s].group # req[t].group

GroupInv == TypeOK /\ MembersLive /\ OwnerIsMember /\ Leaving /\ Alone

(* Who a request takes effect for has the right to it when it does, under  *)
(* the same condition: the owner is never removed, an admin only by the    *)
(* owner or himself, a member also by an admin; the owner alone appoints.  *)
MayRemove(g, op, u) ==
  /\ ~IsOwner(g, u)
  /\ op = u \/ IsOwner(g, op) \/ (IsAdmin(g, op) /\ ~IsAdmin(g, u))

ByRight ==
  [][clash' = {} =>
       \A m \in member :
         /\ m \notin member' /\ owner'[m[1]] # Dismissed
              => \E t \in Threads : /\ req[t] # Idle /\ req'[t] # req[t]
                                    /\ MayRemove(m[1], req[t].op, m[2])
         /\ m \notin admin /\ m \in admin'
              => \E t \in Threads : /\ req[t] # Idle /\ req'[t] # req[t]
                                    /\ IsOwner(m[1], req[t].op)]_vars
=============================================================================
