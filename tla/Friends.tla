------------------------------ MODULE Friends ------------------------------
(***************************************************************************)
(* Friend requests: FriendManager (friend_manager.cpp) over the table      *)
(* friends (database.cpp), as the handlers of gateway_main.cpp and         *)
(* session.cpp call it, with the bot's automatic answer (bot_manager.cpp). *)
(*                                                                         *)
(* A call of Database holds its mutex throughout and is one step; a        *)
(* request makes several, and the requests of other threads run between.   *)
(***************************************************************************)
EXTENDS Naturals

CONSTANTS
  Threads,    \* handler threads
  Users,      \* accounts
  Bots,       \* accounts for which the server accepts requests itself; bot_user_id may be
              \* set to an account somebody also uses, so they send requests like others
  Idle,       \* no request in hand
  MaxFaults   \* bound: statements that fail

Steps == {"addFriend", "addAsked", "add", "botAccept", "acceptAsked", "accept", "reject",
          "removeFriend", "remove", "remarkFriend", "remark"}
Requests == [at : Steps, op : Users, with : Users]

ASSUME FriendAssumption ==
  /\ Bots \subseteq Users
  /\ Idle \notin Requests
  /\ MaxFaults \in Nat

VARIABLES
  row,      \* row[<<a, b>>]: the status of the row (user_id a, friend_id b), "none" without one
  remarks,  \* the rows that carry a remark
  req,      \* req[t]: the request thread t handles and its next call
  faults,   \* statements that may still fail
  clash     \* history: what has made a friendship one-sided

vars == <<row, remarks, req, faults, clash>>
tables == <<row, remarks>>

Pairs == Users \X Users
Op(t) == req[t].op
With(t) == req[t].with

Init ==
  /\ row = [p \in Pairs |-> "none"]
  /\ remarks = {}
  /\ req = [t \in Threads |-> Idle]
  /\ faults = MaxFaults
  /\ clash = {}

-----------------------------------------------------------------------------
At(t, at) == req[t] # Idle /\ req[t].at = at
Goto(t, at) == req' = IF at = "end" THEN [req EXCEPT ![t] = Idle] ELSE [req EXCEPT ![t].at = at]

Fault == faults > 0 /\ faults' = faults - 1
NoFault == UNCHANGED faults

\* A question; one that fails is answered with no, or with an empty list.
Ask(t, at, truth, ifTrue, ifFalse) ==
  /\ At(t, at)
  /\ \/ NoFault /\ Goto(t, IF truth THEN ifTrue ELSE ifFalse)
     \/ Fault /\ Goto(t, ifFalse)
  /\ UNCHANGED <<tables, clash>>

IsFriend(t) == row[<<Op(t), With(t)>>] = "accepted"

\* A frame arrives.  add_friend_request refuses the user himself at once.
Begin(t, at, u, v) ==
  /\ req[t] = Idle
  /\ u # v
  /\ req' = [req EXCEPT ![t] = [at |-> at, op |-> u, with |-> v]]
  /\ UNCHANGED <<tables, faults, clash>>

\* The first calls of the two servers' handlers.
GatewayFrames == {"addFriend", "acceptAsked", "reject", "removeFriend"}
SessionFrames == GatewayFrames \cup {"remarkFriend"}

Arrive(t) ==
  \E u, v \in Users, at \in GatewayFrames \cup SessionFrames : Begin(t, at, u, v)

-----------------------------------------------------------------------------
(* add_friend_request.  Its first call looks the other user up: an error   *)
(* there ends the request, one in is_friend does not.                      *)
AddFriend(t) ==
  \/ Ask(t, "addFriend", IsFriend(t), "end", "addAsked")
  \/ At(t, "addFriend") /\ Fault /\ Goto(t, "end") /\ UNCHANGED <<tables, clash>>
AddAsked(t) == Ask(t, "addAsked", row[<<Op(t), With(t)>>] = "pending", "end", "add")

\* The INSERT fails when there is a row, whatever its status.  Only the TCP
\* server lets a bot answer, and only when auto_accept_friend is set.
Add(t) ==
  /\ At(t, "add")
  /\ \/ /\ NoFault /\ row[<<Op(t), With(t)>>] = "none"
        /\ row' = [row EXCEPT ![<<Op(t), With(t)>>] = "pending"]
        /\ \E next \in (IF With(t) \in Bots THEN {"botAccept", "end"} ELSE {"end"}) : Goto(t, next)
     \/ /\ (NoFault /\ row[<<Op(t), With(t)>>] # "none") \/ Fault
        /\ UNCHANGED row
        /\ Goto(t, "end")
  /\ UNCHANGED <<remarks, clash>>

\* Mutant of Grant: the second INSERT is forgotten.
GrantHalf(b, a) ==
  \/ /\ NoFault
     /\ row' = [row EXCEPT ![<<a, b>>] = IF @ = "none" THEN @ ELSE "accepted"]
     /\ clash' = clash \cup (IF row[<<a, b>>] # "pending" THEN {"stale"} ELSE {})
                       \cup (IF row[<<b, a>>] # "none" THEN {"torn"} ELSE {})
  \/ Fault /\ UNCHANGED <<row, clash>>

(***************************************************************************)
(* Database::accept_friend_request(b, a): an UPDATE of a's row, then an    *)
(* INSERT of b's own, which fails when b has a row already.  The friend-   *)
(* ship is one-sided then ("torn"); it is one-sided the other way when the *)
(* UPDATE found no request any more ("stale").                             *)
(***************************************************************************)
Grant(b, a) ==
  LET asking == row[<<a, b>>]
      own    == row[<<b, a>>]
      r1     == [row EXCEPT ![<<a, b>>] = IF @ = "none" THEN @ ELSE "accepted"]
  IN \/ /\ NoFault
        /\ row' = IF own = "none" THEN [r1 EXCEPT ![<<b, a>>] = "accepted"] ELSE r1
        /\ clash' = clash \cup (IF asking # "pending" THEN {"stale"} ELSE {})
                          \cup (IF own # "none" THEN {"torn"} ELSE {})
     \/ Fault /\ UNCHANGED <<row, clash>>
     \/ /\ Fault /\ row' = r1
        /\ clash' = clash \cup {"torn"}

\* handle_friend_add: a bot accepts at once, without the question.
BotAccept(t) ==
  /\ At(t, "botAccept")
  /\ Grant(With(t), Op(t))
  /\ Goto(t, "end")
  /\ UNCHANGED remarks

(* accept_friend_request.                                                  *)
AcceptAsked(t) == Ask(t, "acceptAsked", row[<<With(t), Op(t)>>] = "pending", "accept", "end")

Accept(t) ==
  /\ At(t, "accept")
  /\ Grant(Op(t), With(t))
  /\ Goto(t, "end")
  /\ UNCHANGED remarks

(* reject_friend_request asks nothing: the UPDATE hits a row of any status. *)
Reject(t) ==
  /\ At(t, "reject")
  /\ \/ /\ NoFault
        /\ row' = [row EXCEPT ![<<With(t), Op(t)>>] = IF @ = "none" THEN @ ELSE "rejected"]
        /\ clash' = clash \cup (IF row[<<With(t), Op(t)>>] = "accepted" THEN {"late"} ELSE {})
     \/ Fault /\ UNCHANGED <<row, clash>>
  /\ Goto(t, "end")
  /\ UNCHANGED remarks

(* remove_friend: one DELETE for both directions.                          *)
RemoveFriend(t) == Ask(t, "removeFriend", IsFriend(t), "remove", "end")

\* Mutant of Remove: only one's own row is deleted.
RemoveOwn(t) ==
  /\ At(t, "remove")
  /\ NoFault
  /\ row' = [row EXCEPT ![<<Op(t), With(t)>>] = "none"]
  /\ remarks' = remarks \ {<<Op(t), With(t)>>}
  /\ Goto(t, "end")
  /\ UNCHANGED clash

Remove(t) ==
  /\ At(t, "remove")
  /\ LET both == {<<Op(t), With(t)>>, <<With(t), Op(t)>>} IN
       \/ /\ NoFault
          /\ row' = [p \in Pairs |-> IF p \in both THEN "none" ELSE row[p]]
          /\ remarks' = remarks \ both
       \/ Fault /\ UNCHANGED tables
  /\ Goto(t, "end")
  /\ UNCHANGED clash

(* set_friend_remark.                                                      *)
RemarkFriend(t) == Ask(t, "remarkFriend", IsFriend(t), "remark", "end")

\* Mutant of Remark: REPLACE instead of UPDATE.
RemarkAnyway(t) ==
  /\ At(t, "remark")
  /\ NoFault /\ remarks' = remarks \cup {<<Op(t), With(t)>>}
  /\ Goto(t, "end")
  /\ UNCHANGED <<row, clash>>

Remark(t) ==
  /\ At(t, "remark")
  /\ \/ /\ NoFault
        /\ remarks' = IF row[<<Op(t), With(t)>>] = "none" THEN remarks
                                                          ELSE remarks \cup {<<Op(t), With(t)>>}
     \/ Fault /\ UNCHANGED remarks
  /\ Goto(t, "end")
  /\ UNCHANGED <<row, clash>>

-----------------------------------------------------------------------------
Step(t) ==
  \/ Arrive(t)
  \/ AddFriend(t) \/ AddAsked(t) \/ Add(t) \/ BotAccept(t)
  \/ AcceptAsked(t) \/ Accept(t) \/ Reject(t)
  \/ RemoveFriend(t) \/ Remove(t)
  \/ RemarkFriend(t) \/ Remark(t)

Next == \E t \in Threads : Step(t)

Spec == Init /\ [][Next]_vars

-----------------------------------------------------------------------------
TypeOK ==
  /\ row \in [Pairs -> {"none", "pending", "accepted", "rejected"}]
  /\ remarks \in SUBSET Pairs
  /\ \A p \in remarks : row[p] # "none"
  /\ req \in [Threads -> Requests \cup {Idle}]
  /\ \A t \in Threads : req[t] # Idle => Op(t) # With(t)
  /\ faults \in 0..MaxFaults
  /\ clash \subseteq {"torn", "stale", "late"}

(* Friendship is mutual (accept_friend_request writes both rows, and       *)
(* remove_friend deletes both) as long as no acceptance was torn or stale  *)
(* and no rejection came after the acceptance.  Each exception is needed:  *)
(* see FriendsClaims.                                                      *)
Mutual ==
  clash = {} => \A a, b \in Users : row[<<a, b>>] = "accepted" => row[<<b, a>>] = "accepted"

(* The requests implement the social graph until the first clash.          *)
Graph == INSTANCE SocialGraph WITH
  People  <- Users,
  asked   <- {p \in Pairs : row[p] = "pending"},
  friends <- {{p[1], p[2]} : p \in {q \in Pairs : row[q] = "accepted"}},
  void    <- clash # {}

ImplementsGraph == Graph!Spec
=============================================================================
