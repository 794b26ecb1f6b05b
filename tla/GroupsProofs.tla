---------------------------- MODULE GroupsProofs ----------------------------
(***************************************************************************)
(* Proofs about Groups: GroupInv is inductive, so for any threads, users,  *)
(* groups and failures the tables keep their rules, and the rules hold     *)
(* that need a request to be alone with its group.                         *)
(***************************************************************************)
EXTENDS Groups, TLAPS

LEMMA InitGroups == GroupAssumption /\ Init => GroupInv
  BY DEF GroupAssumption, Init, GroupInv, TypeOK, MembersLive, OwnerIsMember, Leaving, Alone,
         Exists, Idle

(* A request that ends, or goes on to the next invited user.               *)
LEMMA EndType ==
  ASSUME TypeOK, NEW t \in Threads, req[t] # Idle, End(t)
  PROVE  /\ req' \in [Threads -> Requests \cup {Idle}]
         /\ \A s \in Threads : s # t => req'[s] = req[s]
         /\ req'[t] # Idle => req'[t].at = "joinGroup" /\ req'[t].group = req[t].group
         /\ req'[t] # req[t]
<1>1. req \in [Threads -> Requests \cup {Idle}] /\ req[t] \in Requests
  BY DEF TypeOK
<1>2. CASE req' = [req EXCEPT ![t] = Idle]
  BY <1>1, <1>2
<1>3. CASE \E u \in req[t].todo :
        req' = [req EXCEPT ![t] = Request("joinGroup", @.op, @.group, u, @.todo \ {u}, @.value)]
  <2>1. PICK u \in req[t].todo :
          req' = [req EXCEPT ![t] = Request("joinGroup", req[t].op, req[t].group, u,
                                            req[t].todo \ {u}, req[t].value)]
    BY <1>3
  <2>2. /\ req[t].op \in Users /\ req[t].group \in GroupIds /\ u \in Users
        /\ req[t].todo \in SUBSET Users /\ req[t].value \in BOOLEAN
    BY <1>1 DEF Requests
  <2>3. Request("joinGroup", req[t].op, req[t].group, u, req[t].todo \ {u}, req[t].value) \in Requests
    BY <2>2 DEF Request, Requests, Steps
  <2>4. req'[t] = Request("joinGroup", req[t].op, req[t].group, u, req[t].todo \ {u}, req[t].value)
    BY <1>1, <2>1
  <2>5. req'[t].at = "joinGroup" /\ req'[t].group = req[t].group /\ req'[t].todo = req[t].todo \ {u}
    BY <2>4 DEF Request
  <2>6. req'[t] # req[t]  BY <2>5
  <2> QED  BY <1>1, <2>1, <2>3, <2>4, <2>5, <2>6
<1> QED  BY <1>2, <1>3 DEF End

(* Going on within a request.                                              *)
LEMMA GotoType ==
  ASSUME TypeOK, NEW t \in Threads, req[t] # Idle, NEW at \in Steps \cup {"end"}, Goto(t, at)
  PROVE  /\ req' \in [Threads -> Requests \cup {Idle}]
         /\ \A s \in Threads : s # t => req'[s] = req[s]
         /\ \/ req'[t] = Idle
            \/ req'[t].at = "joinGroup" /\ req'[t].group = req[t].group
            \/ /\ at # "end" /\ req'[t].at = at /\ req'[t].group = req[t].group
               /\ req'[t].op = req[t].op /\ req'[t].target = req[t].target
<1>1. CASE at = "end"  BY <1>1, EndType DEF Goto
<1>2. CASE at # "end"
  <2>1. req' = [req EXCEPT ![t].at = at] /\ at \in Steps  BY <1>2 DEF Goto, Steps
  <2>2. req \in [Threads -> Requests \cup {Idle}] /\ req[t] \in Requests  BY DEF TypeOK
  <2>3. req'[t] = [req[t] EXCEPT !.at = at]  BY <2>1, <2>2
  <2>4. req'[t] \in Requests  BY <2>1, <2>2, <2>3 DEF Requests
  <2>5. /\ req'[t].at = at /\ req'[t].group = req[t].group
        /\ req'[t].op = req[t].op /\ req'[t].target = req[t].target
    BY <2>2, <2>3 DEF Requests
  <2> QED  BY <1>2, <2>1, <2>2, <2>4, <2>5
<1> QED  BY <1>1, <1>2

(* A step that changes no table keeps the invariant if the request it      *)
(* concerns has established what its next step relies on.                  *)
LEMMA QuietStep ==
  ASSUME GroupInv, NEW t \in Threads, UNCHANGED tables,
         req' \in [Threads -> Requests \cup {Idle}],
         \A s \in Threads : s # t => req'[s] = req[s],
         faults' \in 0..MaxFaults, clash' \subseteq {"fault", "overlap"}, clash \subseteq clash',
         req'[t].at \in {"leaveOwner", "leaveRemove"} => req'[t].op = req'[t].target,
         clash' = {} /\ req'[t] # Idle =>
           /\ Right(req'[t])
           /\ \A s \in Threads : s # t /\ req[s] # Idle => req[s].group # req'[t].group
  PROVE  GroupInv'
<1>1. TypeOK'  BY DEF GroupInv, TypeOK, tables
<1>2. MembersLive'  BY DEF GroupInv, MembersLive, Exists, tables
<1>3. OwnerIsMember'
  BY DEF GroupInv, OwnerIsMember, Exists, IsMember, tables
<1>4. Leaving'
  <2>1. ASSUME NEW s \in Threads, req'[s].at \in {"leaveOwner", "leaveRemove"}
        PROVE  req'[s].op = req'[s].target
    BY <2>1 DEF GroupInv, Leaving
  <2> QED  BY <2>1 DEF Leaving
<1>5. Alone'
  <2>1. SUFFICES ASSUME clash' = {}, NEW s \in Threads, req'[s] # Idle
                 PROVE  /\ Right(req'[s])
                        /\ \A x \in Threads : x # s /\ req'[x] # Idle => req'[x].group # req'[s].group
    BY DEF Alone, Right, IsOwner, IsAdmin, IsMember, tables
  <2>2. clash = {}  BY <2>1
  <2>3. CASE s = t  BY <2>1, <2>3
  <2>4. CASE s # t
    <3>1. req'[s] = req[s]  BY <2>4
    <3>2. Right(req'[s])  BY <2>1, <2>2, <3>1 DEF GroupInv, Alone
    <3>3. ASSUME NEW x \in Threads, x # s, req'[x] # Idle PROVE req'[x].group # req'[s].group
      BY <2>1, <2>2, <2>4, <3>1, <3>3 DEF GroupInv, Alone
    <3> QED  BY <3>2, <3>3
  <2> QED  BY <2>3, <2>4
<1> QED  BY <1>1, <1>2, <1>3, <1>4, <1>5 DEF GroupInv

(* A request arrives: nothing is established yet.                          *)
LEMMA BeginStep ==
  ASSUME GroupInv, NEW t \in Threads, NEW r \in Requests, Begin(t, r),
         r.at \in {"joinGroup", "leaveOwner", "kickOwner", "adminOwner", "transferOwner", "dismissOwner"},
         r.at = "leaveOwner" => r.op = r.target
  PROVE  GroupInv'
<1>1. /\ req \in [Threads -> Requests \cup {Idle}] /\ req' = [req EXCEPT ![t] = r]
      /\ UNCHANGED <<tables, faults>> /\ clash' = Overlap(r.group) /\ req[t] = Idle
  BY DEF Begin, GroupInv, TypeOK
<1>2. req' \in [Threads -> Requests \cup {Idle}] /\ req'[t] = r /\ \A s \in Threads : s # t => req'[s] = req[s]
  BY <1>1
<1>3. faults' \in 0..MaxFaults /\ clash' \subseteq {"fault", "overlap"} /\ clash \subseteq clash'
  BY <1>1 DEF GroupInv, TypeOK, Overlap
<1>4. Right(r)  BY DEF Right
<1>5. clash' = {} => \A s \in Threads : s # t /\ req[s] # Idle => req[s].group # r.group
  BY <1>1 DEF Overlap, Busy
<1>6. r.at \in {"leaveOwner", "leaveRemove"} => r.op = r.target  OBVIOUS
<1> QED  BY <1>1, <1>2, <1>3, <1>4, <1>5, <1>6, QuietStep

(* A question: its answer is what the next step may rely on.               *)
LEMMA AskStep ==
  ASSUME GroupAssumption, GroupInv, NEW t \in Threads, NEW truth \in BOOLEAN, NEW at \in Steps,
         NEW ifTrue \in Steps \cup {"end"}, NEW ifFalse \in Steps \cup {"end"},
         Ask(t, at, truth, ifTrue, ifFalse),
         ifTrue \notin {"leaveOwner", "leaveRemove"},
         ifFalse \in {"leaveOwner", "leaveRemove"} => req[t].op = req[t].target,
         \A r \in Requests :
           /\ r.group = req[t].group /\ r.op = req[t].op /\ r.target = req[t].target
           /\ Right(req[t]) /\ r.at = (IF truth THEN ifTrue ELSE ifFalse)
           => Right(r)
  PROVE  GroupInv'
<1>1. req[t] # Idle /\ req[t] \in Requests  BY DEF Ask, Idle, Steps, GroupInv, TypeOK
<1>2. UNCHANGED tables /\ TypeOK  BY DEF Ask, GroupInv
<1>3. PICK next \in Steps \cup {"end"} :
        /\ Goto(t, next)
        /\ \/ NoFault /\ next = (IF truth THEN ifTrue ELSE ifFalse)
           \/ Fault /\ next = ifFalse
  BY DEF Ask
<1>4. /\ req' \in [Threads -> Requests \cup {Idle}]
      /\ \A s \in Threads : s # t => req'[s] = req[s]
      /\ \/ req'[t] = Idle
         \/ req'[t].at = "joinGroup" /\ req'[t].group = req[t].group
         \/ /\ next # "end" /\ req'[t].at = next /\ req'[t].group = req[t].group
            /\ req'[t].op = req[t].op /\ req'[t].target = req[t].target
  BY <1>1, <1>2, <1>3, GotoType
<1>5. faults' \in 0..MaxFaults /\ clash' \subseteq {"fault", "overlap"} /\ clash \subseteq clash'
  <2>1. CASE NoFault  BY <1>2, <2>1 DEF NoFault, TypeOK
  <2>2. CASE Fault
    <3>1. faults \in 0..MaxFaults /\ MaxFaults \in Nat /\ clash \subseteq {"fault", "overlap"}
      BY <1>2 DEF TypeOK, GroupAssumption
    <3>2. faults > 0 /\ faults' = faults - 1 /\ clash' = clash \cup {"fault"}
      BY <2>2 DEF Fault
    <3>3. faults' \in 0..MaxFaults  BY <3>1, <3>2
    <3> QED  BY <3>1, <3>2, <3>3
  <2> QED  BY <1>3, <2>1, <2>2
<1>6. req'[t].at \in {"leaveOwner", "leaveRemove"} => req'[t].op = req'[t].target
  <2>1. SUFFICES ASSUME req'[t].at \in {"leaveOwner", "leaveRemove"} PROVE req'[t].op = req'[t].target
    OBVIOUS
  <2>2. /\ req'[t].at = next /\ req'[t].op = req[t].op /\ req'[t].target = req[t].target
    BY <1>4, <2>1 DEF Idle
  <2>3. next = ifFalse  BY <1>3, <2>1, <2>2
  <2> QED  BY <2>1, <2>2, <2>3
<1>7. ASSUME clash' = {}, req'[t] # Idle
      PROVE  /\ Right(req'[t])
             /\ \A s \in Threads : s # t /\ req[s] # Idle => req[s].group # req'[t].group
  <2>1. clash = {} /\ next = (IF truth THEN ifTrue ELSE ifFalse)
    BY <1>3, <1>5, <1>7 DEF NoFault, Fault
  <2>2. Right(req[t]) /\ \A s \in Threads : s # t /\ req[s] # Idle => req[s].group # req[t].group
    BY <1>1, <2>1 DEF GroupInv, Alone
  <2>3. req'[t] \in Requests /\ req'[t].group = req[t].group  BY <1>4, <1>7
  <2>4. CASE req'[t].at = "joinGroup"  BY <2>2, <2>3, <2>4 DEF Right
  <2>5. CASE req'[t].at # "joinGroup"
    <3>1. /\ req'[t].at = next /\ req'[t].op = req[t].op /\ req'[t].target = req[t].target
      BY <1>4, <1>7, <2>5
    <3> QED  BY <2>1, <2>2, <2>3, <3>1
  <2> QED  BY <2>4, <2>5
<1> QED  BY <1>2, <1>4, <1>5, <1>6, <1>7, QuietStep
(* The first step of each request of gateway_main.cpp.                     *)
LEMMA Arrivals ==
  ASSUME GroupAssumption, GroupInv, NEW t \in Threads, Arrive(t)
  PROVE  GroupInv'
<1>1. CASE InviteBegin(t)
  <2>0. PICK u \in Users, g \in GroupIds, v \in Users :
          \E others \in SUBSET (Users \ {v}) : Begin(t, Request("joinGroup", u, g, v, others, TRUE))
    BY <1>1 DEF InviteBegin
  <2>1. PICK others \in SUBSET (Users \ {v}) : Begin(t, Request("joinGroup", u, g, v, others, TRUE))
    BY <2>0
  <2> DEFINE r == Request("joinGroup", u, g, v, others, TRUE)
  <2>2. r \in Requests /\ r.at = "joinGroup"  BY DEF Request, Requests, Steps
  <2>3. Begin(t, r)  BY <2>1
  <2> HIDE DEF r
  <2> QED  BY <2>2, <2>3, BeginStep
<1>2. CASE LeaveBegin(t)
  <2>1. PICK u \in Users, g \in GroupIds : Begin(t, Request("leaveOwner", u, g, u, {}, TRUE))
    BY <1>2 DEF LeaveBegin
  <2> DEFINE r == Request("leaveOwner", u, g, u, {}, TRUE)
  <2>2. r \in Requests /\ r.at = "leaveOwner" /\ r.op = r.target  BY DEF Request, Requests, Steps
  <2>3. Begin(t, r)  BY <2>1
  <2> HIDE DEF r
  <2> QED  BY <2>2, <2>3, BeginStep
<1>3. CASE KickBegin(t)
  <2>1. PICK u \in Users, g \in GroupIds, v \in Users : Begin(t, Request("kickOwner", u, g, v, {}, TRUE))
    BY <1>3 DEF KickBegin
  <2> DEFINE r == Request("kickOwner", u, g, v, {}, TRUE)
  <2>2. r \in Requests /\ r.at = "kickOwner"  BY DEF Request, Requests, Steps
  <2>3. Begin(t, r)  BY <2>1
  <2> HIDE DEF r
  <2> QED  BY <2>2, <2>3, BeginStep
<1>4. CASE AdminBegin(t)
  <2>1. PICK u \in Users, g \in GroupIds, v \in Users, value \in BOOLEAN :
          Begin(t, Request("adminOwner", u, g, v, {}, value))
    BY <1>4 DEF AdminBegin
  <2> DEFINE r == Request("adminOwner", u, g, v, {}, value)
  <2>2. r \in Requests /\ r.at = "adminOwner"  BY DEF Request, Requests, Steps
  <2>3. Begin(t, r)  BY <2>1
  <2> HIDE DEF r
  <2> QED  BY <2>2, <2>3, BeginStep
<1>5. CASE TransferBegin(t)
  <2>1. PICK u \in Users, g \in GroupIds, v \in Users :
          Begin(t, Request("transferOwner", u, g, v, {}, TRUE))
    BY <1>5 DEF TransferBegin
  <2> DEFINE r == Request("transferOwner", u, g, v, {}, TRUE)
  <2>2. r \in Requests /\ r.at = "transferOwner"  BY DEF Request, Requests, Steps
  <2>3. Begin(t, r)  BY <2>1
  <2> HIDE DEF r
  <2> QED  BY <2>2, <2>3, BeginStep
<1>6. CASE DismissBegin(t)
  <2>1. PICK u \in Users, g \in GroupIds : Begin(t, Request("dismissOwner", u, g, u, {}, TRUE))
    BY <1>6 DEF DismissBegin
  <2> DEFINE r == Request("dismissOwner", u, g, u, {}, TRUE)
  <2>2. r \in Requests /\ r.at = "dismissOwner"  BY DEF Request, Requests, Steps
  <2>3. Begin(t, r)  BY <2>1
  <2> HIDE DEF r
  <2> QED  BY <2>2, <2>3, BeginStep
<1> QED  BY <1>1, <1>2, <1>3, <1>4, <1>5, <1>6 DEF Arrive

(* The questions of GroupManager.                                          *)
LEMMA Questions ==
  ASSUME GroupAssumption, GroupInv, NEW t \in Threads, Question(t)
  PROVE  GroupInv'
<1>1. CASE JoinGroup(t)
  <2> DEFINE truth == Exists(req[t].group)
  <2>1. Ask(t, "joinGroup", truth, "joinMember", "end") /\ req[t].at = "joinGroup" /\ truth \in BOOLEAN
    BY <1>1 DEF JoinGroup, Ask, Exists, IsOwner, IsMember, IsAdmin
  <2>3. \A r \in Requests :
          /\ r.group = req[t].group /\ r.op = req[t].op /\ r.target = req[t].target
          /\ Right(req[t]) /\ r.at = (IF truth THEN "joinMember" ELSE "end")
          => Right(r)
    BY <2>1 DEF Right, IsOwner, IsMember, IsAdmin
  <2>4. "joinGroup" \in Steps /\ "joinMember" \in Steps \cup {"end"} /\ "end" \in Steps \cup {"end"}
    BY DEF Steps
  <2> HIDE DEF truth
  <2> QED  BY <2>1, <2>3, <2>4, AskStep
<1>2. CASE JoinMember(t)
  <2> DEFINE truth == IsMember(req[t].group, req[t].target)
  <2>1. Ask(t, "joinMember", truth, "end", "joinAdd") /\ req[t].at = "joinMember" /\ truth \in BOOLEAN
    BY <1>2 DEF JoinMember, Ask, Exists, IsOwner, IsMember, IsAdmin
  <2>3. \A r \in Requests :
          /\ r.group = req[t].group /\ r.op = req[t].op /\ r.target = req[t].target
          /\ Right(req[t]) /\ r.at = (IF truth THEN "end" ELSE "joinAdd")
          => Right(r)
    BY <2>1 DEF Right, IsOwner, IsMember, IsAdmin
  <2>4. "joinMember" \in Steps /\ "end" \in Steps \cup {"end"} /\ "joinAdd" \in Steps \cup {"end"}
    BY DEF Steps
  <2> HIDE DEF truth
  <2> QED  BY <2>1, <2>3, <2>4, AskStep
<1>3. CASE LeaveOwner(t)
  <2> DEFINE truth == IsOwner(req[t].group, req[t].target)
  <2>1. Ask(t, "leaveOwner", truth, "end", "leaveRemove") /\ req[t].at = "leaveOwner" /\ truth \in BOOLEAN
    BY <1>3 DEF LeaveOwner, Ask, Exists, IsOwner, IsMember, IsAdmin
  <2>2. req[t].op = req[t].target  BY <2>1 DEF GroupInv, Leaving
  <2>3. \A r \in Requests :
          /\ r.group = req[t].group /\ r.op = req[t].op /\ r.target = req[t].target
          /\ Right(req[t]) /\ r.at = (IF truth THEN "end" ELSE "leaveRemove")
          => Right(r)
    BY <2>1 DEF Right, IsOwner, IsMember, IsAdmin
  <2>4. "leaveOwner" \in Steps /\ "end" \in Steps \cup {"end"} /\ "leaveRemove" \in Steps \cup {"end"}
    BY DEF Steps
  <2> HIDE DEF truth
  <2> QED  BY <2>1, <2>2, <2>3, <2>4, AskStep
<1>4. CASE KickOwner(t)
  <2> DEFINE truth == IsOwner(req[t].group, req[t].op)
  <2>1. Ask(t, "kickOwner", truth, "kickTargetOwner", "kickAdmin") /\ req[t].at = "kickOwner" /\ truth \in BOOLEAN
    BY <1>4 DEF KickOwner, Ask, Exists, IsOwner, IsMember, IsAdmin
  <2>3. \A r \in Requests :
          /\ r.group = req[t].group /\ r.op = req[t].op /\ r.target = req[t].target
          /\ Right(req[t]) /\ r.at = (IF truth THEN "kickTargetOwner" ELSE "kickAdmin")
          => Right(r)
    BY <2>1 DEF Right, IsOwner, IsMember, IsAdmin
  <2>4. "kickOwner" \in Steps /\ "kickTargetOwner" \in Steps \cup {"end"} /\ "kickAdmin" \in Steps \cup {"end"}
    BY DEF Steps
  <2> HIDE DEF truth
  <2> QED  BY <2>1, <2>3, <2>4, AskStep
<1>5. CASE KickAdmin(t)
  <2> DEFINE truth == IsAdmin(req[t].group, req[t].op)
  <2>1. Ask(t, "kickAdmin", truth, "kickTargetOwner", "end") /\ req[t].at = "kickAdmin" /\ truth \in BOOLEAN
    BY <1>5 DEF KickAdmin, Ask, Exists, IsOwner, IsMember, IsAdmin
  <2>3. \A r \in Requests :
          /\ r.group = req[t].group /\ r.op = req[t].op /\ r.target = req[t].target
          /\ Right(req[t]) /\ r.at = (IF truth THEN "kickTargetOwner" ELSE "end")
          => Right(r)
    BY <2>1 DEF Right, IsOwner, IsMember, IsAdmin
  <2>4. "kickAdmin" \in Steps /\ "kickTargetOwner" \in Steps \cup {"end"} /\ "end" \in Steps \cup {"end"}
    BY DEF Steps
  <2> HIDE DEF truth
  <2> QED  BY <2>1, <2>3, <2>4, AskStep
<1>6. CASE KickTargetOwner(t)
  <2> DEFINE truth == IsOwner(req[t].group, req[t].target)
  <2>1. Ask(t, "kickTargetOwner", truth, "end", "kickTargetAdmin") /\ req[t].at = "kickTargetOwner" /\ truth \in BOOLEAN
    BY <1>6 DEF KickTargetOwner, Ask, Exists, IsOwner, IsMember, IsAdmin
  <2>3. \A r \in Requests :
          /\ r.group = req[t].group /\ r.op = req[t].op /\ r.target = req[t].target
          /\ Right(req[t]) /\ r.at = (IF truth THEN "end" ELSE "kickTargetAdmin")
          => Right(r)
    BY <2>1 DEF Right, IsOwner, IsMember, IsAdmin
  <2>4. "kickTargetOwner" \in Steps /\ "end" \in Steps \cup {"end"} /\ "kickTargetAdmin" \in Steps \cup {"end"}
    BY DEF Steps
  <2> HIDE DEF truth
  <2> QED  BY <2>1, <2>3, <2>4, AskStep
<1>7. CASE KickTargetAdmin(t)
  <2> DEFINE truth == IsAdmin(req[t].group, req[t].target)
  <2>1. Ask(t, "kickTargetAdmin", truth, "kickOwnerAgain", "kickRemove") /\ req[t].at = "kickTargetAdmin" /\ truth \in BOOLEAN
    BY <1>7 DEF KickTargetAdmin, Ask, Exists, IsOwner, IsMember, IsAdmin
  <2>3. \A r \in Requests :
          /\ r.group = req[t].group /\ r.op = req[t].op /\ r.target = req[t].target
          /\ Right(req[t]) /\ r.at = (IF truth THEN "kickOwnerAgain" ELSE "kickRemove")
          => Right(r)
    BY <2>1 DEF Right, IsOwner, IsMember, IsAdmin
  <2>4. "kickTargetAdmin" \in Steps /\ "kickOwnerAgain" \in Steps \cup {"end"} /\ "kickRemove" \in Steps \cup {"end"}
    BY DEF Steps
  <2> HIDE DEF truth
  <2> QED  BY <2>1, <2>3, <2>4, AskStep
<1>8. CASE KickOwnerAgain(t)
  <2> DEFINE truth == IsOwner(req[t].group, req[t].op)
  <2>1. Ask(t, "kickOwnerAgain", truth, "kickRemove", "end") /\ req[t].at = "kickOwnerAgain" /\ truth \in BOOLEAN
    BY <1>8 DEF KickOwnerAgain, Ask, Exists, IsOwner, IsMember, IsAdmin
  <2>3. \A r \in Requests :
          /\ r.group = req[t].group /\ r.op = req[t].op /\ r.target = req[t].target
          /\ Right(req[t]) /\ r.at = (IF truth THEN "kickRemove" ELSE "end")
          => Right(r)
    BY <2>1 DEF Right, IsOwner, IsMember, IsAdmin
  <2>4. "kickOwnerAgain" \in Steps /\ "kickRemove" \in Steps \cup {"end"} /\ "end" \in Steps \cup {"end"}
    BY DEF Steps
  <2> HIDE DEF truth
  <2> QED  BY <2>1, <2>3, <2>4, AskStep
<1>9. CASE AdminOwner(t)
  <2> DEFINE truth == IsOwner(req[t].group, req[t].op)
  <2>1. Ask(t, "adminOwner", truth, "adminMember", "end") /\ req[t].at = "adminOwner" /\ truth \in BOOLEAN
    BY <1>9 DEF AdminOwner, Ask, Exists, IsOwner, IsMember, IsAdmin
  <2>3. \A r \in Requests :
          /\ r.group = req[t].group /\ r.op = req[t].op /\ r.target = req[t].target
          /\ Right(req[t]) /\ r.at = (IF truth THEN "adminMember" ELSE "end")
          => Right(r)
    BY <2>1 DEF Right, IsOwner, IsMember, IsAdmin
  <2>4. "adminOwner" \in Steps /\ "adminMember" \in Steps \cup {"end"} /\ "end" \in Steps \cup {"end"}
    BY DEF Steps
  <2> HIDE DEF truth
  <2> QED  BY <2>1, <2>3, <2>4, AskStep
<1>10. CASE AdminMember(t)
  <2> DEFINE truth == IsMember(req[t].group, req[t].target)
  <2>1. Ask(t, "adminMember", truth, "adminSet", "end") /\ req[t].at = "adminMember" /\ truth \in BOOLEAN
    BY <1>10 DEF AdminMember, Ask, Exists, IsOwner, IsMember, IsAdmin
  <2>3. \A r \in Requests :
          /\ r.group = req[t].group /\ r.op = req[t].op /\ r.target = req[t].target
          /\ Right(req[t]) /\ r.at = (IF truth THEN "adminSet" ELSE "end")
          => Right(r)
    BY <2>1 DEF Right, IsOwner, IsMember, IsAdmin
  <2>4. "adminMember" \in Steps /\ "adminSet" \in Steps \cup {"end"} /\ "end" \in Steps \cup {"end"}
    BY DEF Steps
  <2> HIDE DEF truth
  <2> QED  BY <2>1, <2>3, <2>4, AskStep
<1>11. CASE TransferMember(t)
  <2> DEFINE truth == IsMember(req[t].group, req[t].target)
  <2>1. Ask(t, "transferMember", truth, "transferSet", "end") /\ req[t].at = "transferMember" /\ truth \in BOOLEAN
    BY <1>11 DEF TransferMember, Ask, Exists, IsOwner, IsMember, IsAdmin
  <2>3. \A r \in Requests :
          /\ r.group = req[t].group /\ r.op = req[t].op /\ r.target = req[t].target
          /\ Right(req[t]) /\ r.at = (IF truth THEN "transferSet" ELSE "end")
          => Right(r)
    BY <2>1 DEF Right, IsOwner, IsMember, IsAdmin
  <2>4. "transferMember" \in Steps /\ "transferSet" \in Steps \cup {"end"} /\ "end" \in Steps \cup {"end"}
    BY DEF Steps
  <2> HIDE DEF truth
  <2> QED  BY <2>1, <2>3, <2>4, AskStep
<1>12. CASE DismissOwner(t)
  <2> DEFINE truth == IsOwner(req[t].group, req[t].op)
  <2>1. Ask(t, "dismissOwner", truth, "dismissDelete", "end") /\ req[t].at = "dismissOwner" /\ truth \in BOOLEAN
    BY <1>12 DEF DismissOwner, Ask, Exists, IsOwner, IsMember, IsAdmin
  <2>3. \A r \in Requests :
          /\ r.group = req[t].group /\ r.op = req[t].op /\ r.target = req[t].target
          /\ Right(req[t]) /\ r.at = (IF truth THEN "dismissDelete" ELSE "end")
          => Right(r)
    BY <2>1 DEF Right, IsOwner, IsMember, IsAdmin
  <2>4. "dismissOwner" \in Steps /\ "dismissDelete" \in Steps \cup {"end"} /\ "end" \in Steps \cup {"end"}
    BY DEF Steps
  <2> HIDE DEF truth
  <2> QED  BY <2>1, <2>3, <2>4, AskStep
<1>13. CASE TransferOwner(t)
  <2> DEFINE truth == IsOwner(req[t].group, req[t].op)
             next == IF req[t].op = req[t].target THEN "end" ELSE "transferMember"
  <2>1. Ask(t, "transferOwner", truth, next, "end") /\ req[t].at = "transferOwner" /\ truth \in BOOLEAN
    BY <1>13 DEF TransferOwner, Ask, IsOwner
  <2>2. next \in {"end", "transferMember"}  OBVIOUS
  <2>3. \A r \in Requests :
          /\ r.group = req[t].group /\ r.op = req[t].op /\ r.target = req[t].target
          /\ Right(req[t]) /\ r.at = (IF truth THEN next ELSE "end")
          => Right(r)
    BY <2>1, <2>2 DEF Right, IsOwner
  <2>4. "transferOwner" \in Steps /\ next \in Steps \cup {"end"} /\ "end" \in Steps \cup {"end"}
    BY <2>2 DEF Steps
  <2> HIDE DEF truth, next
  <2> QED  BY <2>1, <2>2, <2>3, <2>4, AskStep
<1> QED  BY <1>1, <1>2, <1>3, <1>4, <1>5, <1>6, <1>7, <1>8, <1>9, <1>10, <1>11, <1>12, <1>13 DEF Question

(* A write to the rows of the request's group, after which the request, or *)
(* its part for one user, is over.                                         *)
LEMMA WriteStep ==
  ASSUME GroupAssumption, GroupInv, NEW t \in Threads, NEW g \in GroupIds,
         req[t] # Idle, req[t].group = g, End(t), NoFault \/ Fault,
         owner' \in [GroupIds -> Users \cup {Unborn, Dismissed}],
         member' \subseteq GroupIds \X Users, admin' \subseteq member',
         \A h \in GroupIds : h # g => owner'[h] = owner[h],
         \A h \in GroupIds, u \in Users : h # g => (<<h, u>> \in member' <=> <<h, u>> \in member),
         \A h \in GroupIds, u \in Users : h # g => (<<h, u>> \in admin' <=> <<h, u>> \in admin),
         \A u \in Users : <<g, u>> \in member' => owner'[g] \in Users,
         clash' = {} /\ owner'[g] \in Users => <<g, owner'[g]>> \in member'
  PROVE  GroupInv'
<1>0. ASSUME NEW h \in GroupIds, h # g
      PROVE  /\ owner'[h] = owner[h]
             /\ \A u \in Users : <<h, u>> \in member' <=> <<h, u>> \in member
             /\ \A u \in Users : <<h, u>> \in admin' <=> <<h, u>> \in admin
  <2>1. owner'[h] = owner[h]  BY <1>0
  <2>2. ASSUME NEW u \in Users PROVE <<h, u>> \in member' <=> <<h, u>> \in member
    BY <1>0, Zenon
  <2>3. ASSUME NEW u \in Users PROVE <<h, u>> \in admin' <=> <<h, u>> \in admin
    BY <1>0, Zenon
  <2> QED  BY <2>1, <2>2, <2>3, Zenon
<1>1. TypeOK  BY DEF GroupInv
<1>2. /\ req' \in [Threads -> Requests \cup {Idle}]
      /\ \A s \in Threads : s # t => req'[s] = req[s]
      /\ req'[t] # Idle => req'[t].at = "joinGroup" /\ req'[t].group = g
  BY <1>1, EndType
<1>3. faults' \in 0..MaxFaults /\ clash' \subseteq {"fault", "overlap"} /\ (clash' = {} => clash = {})
  <2>1. CASE NoFault  BY <1>1, <2>1 DEF NoFault, TypeOK
  <2>2. CASE Fault
    <3>1. faults \in 0..MaxFaults /\ MaxFaults \in Nat /\ clash \subseteq {"fault", "overlap"}
      BY <1>1 DEF TypeOK, GroupAssumption
    <3>2. faults > 0 /\ faults' = faults - 1 /\ clash' = clash \cup {"fault"}
      BY <2>2 DEF Fault
    <3>3. faults' \in 0..MaxFaults  BY <3>1, <3>2
    <3> QED  BY <3>1, <3>2, <3>3
  <2> QED  BY <2>1, <2>2
<1>4. TypeOK'  BY <1>2, <1>3 DEF TypeOK
<1>5. MembersLive'
  <2>1. ASSUME NEW h \in GroupIds, NEW u \in Users, <<h, u>> \in member' PROVE owner'[h] \in Users
    <3>1. CASE h = g  BY <2>1, <3>1
    <3>2. CASE h # g
      <4>1. <<h, u>> \in member /\ owner'[h] = owner[h]  BY <1>0, <2>1, <3>2, Zenon
      <4>2. owner[(<<h, u>>)[1]] \in Users  BY <4>1 DEF GroupInv, MembersLive, Exists
      <4> QED  BY <4>1, <4>2
    <3> QED  BY <3>1, <3>2
  <2>2. ASSUME NEW m \in member' PROVE owner'[m[1]] \in Users
    <3>1. PICK h \in GroupIds, u \in Users : m = <<h, u>>  BY <2>2
    <3> QED  BY <2>1, <2>2, <3>1
  <2> QED  BY <2>2 DEF MembersLive, Exists
<1>6. OwnerIsMember'
  <2>1. ASSUME clash' = {}, NEW h \in GroupIds, owner'[h] \in Users PROVE <<h, owner'[h]>> \in member'
    <3>1. CASE h = g  BY <2>1, <3>1
    <3>2. CASE h # g
      <4>1. owner[h] = owner'[h]  BY <1>0, <3>2, Zenon
      <4>2. <<h, owner[h]>> \in member
        BY <1>3, <2>1, <4>1 DEF GroupInv, OwnerIsMember, Exists, IsMember
      <4>3. <<h, owner'[h]>> \in member  BY <4>1, <4>2
      <4> QED  BY <1>0, <2>1, <3>2, <4>3, Zenon
    <3> QED  BY <3>1, <3>2
  <2> QED  BY <2>1 DEF OwnerIsMember, Exists, IsMember
<1>7. Leaving'
  <2>1. ASSUME NEW s \in Threads, req'[s].at \in {"leaveOwner", "leaveRemove"}
        PROVE  req'[s].op = req'[s].target
    <3>1. s # t  BY <1>2, <2>1 DEF Idle
    <3> QED  BY <1>2, <2>1, <3>1 DEF GroupInv, Leaving
  <2> QED  BY <2>1 DEF Leaving
<1>8. Alone'
  <2>1. SUFFICES ASSUME clash' = {}, NEW s \in Threads, req'[s] # Idle
                 PROVE  /\ Right(req[s])'
                        /\ \A x \in Threads : x # s /\ req'[x] # Idle => req'[x].group # req'[s].group
    BY DEF Alone
  <2>2. clash = {}  BY <1>3, <2>1
  <2>3. CASE s = t
    <3>1. req'[s].at = "joinGroup" /\ req'[s].group = g  BY <1>2, <2>1, <2>3
    <3>2. Right(req[s])'  BY <3>1 DEF Right
    <3>3. ASSUME NEW x \in Threads, x # s, req'[x] # Idle PROVE req'[x].group # req'[s].group
      BY <1>2, <2>2, <2>3, <3>1, <3>3 DEF GroupInv, Alone
    <3> QED  BY <3>2, <3>3
  <2>4. CASE s # t
    <3>1. req'[s] = req[s] /\ req[s] # Idle /\ req[s] \in Requests
      BY <1>1, <1>2, <2>1, <2>4 DEF TypeOK
    <3>2. Right(req[s]) /\ req[s].group # g  BY <2>2, <2>4, <3>1 DEF GroupInv, Alone
    <3>3. /\ req[s].group \in GroupIds /\ req[s].op \in Users /\ req[s].target \in Users
      BY <3>1 DEF Requests
    <3>4. Right(req[s])'
      <4> DEFINE r == req[s]
                 h == r.group
      <4>1. /\ owner'[h] = owner[h]
            /\ <<h, r.op>> \in admin' <=> <<h, r.op>> \in admin
            /\ <<h, r.target>> \in admin' <=> <<h, r.target>> \in admin
            /\ <<h, r.target>> \in member' <=> <<h, r.target>> \in member
        BY <1>0, <3>2, <3>3, Zenon
      <4>2. Right(r)  BY <3>2
      <4> HIDE DEF r
      <4>3. r = req'[s]  BY <3>1 DEF r
      <4> QED  BY <4>1, <4>2, <4>3 DEF Right, IsOwner, IsAdmin, IsMember
    <3>5. ASSUME NEW x \in Threads, x # s, req'[x] # Idle PROVE req'[x].group # req'[s].group
      BY <1>2, <2>2, <2>4, <3>1, <3>2, <3>5 DEF GroupInv, Alone
    <3> QED  BY <3>4, <3>5
  <2> QED  BY <2>3, <2>4
<1> QED  BY <1>4, <1>5, <1>6, <1>7, <1>8 DEF GroupInv
(* What a writing request has established.                                 *)
LEMMA Writer ==
  ASSUME GroupInv, NEW t \in Threads, req[t].at \in Steps
  PROVE  /\ req[t] # Idle /\ req[t] \in Requests
         /\ req[t].group \in GroupIds /\ req[t].target \in Users /\ req[t].op \in Users
         /\ clash = {} => Right(req[t])
         /\ owner \in [GroupIds -> Users \cup {Unborn, Dismissed}]
         /\ member \subseteq GroupIds \X Users /\ admin \subseteq member
         /\ \A g \in GroupIds, u \in Users : <<g, u>> \in member => owner[g] \in Users
         /\ \A g \in GroupIds : clash = {} /\ owner[g] \in Users => <<g, owner[g]>> \in member
<1>1. req[t] # Idle  BY DEF Idle, Steps
<1>2. req[t] \in Requests  BY <1>1 DEF GroupInv, TypeOK
<1>3. req[t].group \in GroupIds /\ req[t].target \in Users /\ req[t].op \in Users
  BY <1>2 DEF Requests
<1>4. clash = {} => Right(req[t])  BY <1>1 DEF GroupInv, Alone
<1>5. ASSUME NEW g \in GroupIds, NEW u \in Users, <<g, u>> \in member PROVE owner[g] \in Users
  <2>1. owner[(<<g, u>>)[1]] \in Users  BY <1>5 DEF GroupInv, MembersLive, Exists
  <2> QED  BY <2>1
<1>6. \A g \in GroupIds : clash = {} /\ owner[g] \in Users => <<g, owner[g]>> \in member
  BY DEF GroupInv, OwnerIsMember, Exists, IsMember
<1> QED  BY <1>1, <1>2, <1>3, <1>4, <1>5, <1>6 DEF GroupInv, TypeOK

(* INSERT, which a group that is gone refuses.                             *)
LEMMA JoinStep ==
  ASSUME GroupAssumption, GroupInv, NEW t \in Threads, JoinAdd(t)
  PROVE  GroupInv'
<1> DEFINE g == req[t].group
           u == req[t].target
<1>1. req[t].at \in Steps /\ End(t) /\ (NoFault \/ Fault) /\ UNCHANGED <<owner, admin>>
  BY DEF JoinAdd, Steps
<1>2. member' = member \/ (member' = member \cup {<<g, u>>} /\ owner[g] \in Users)
  BY DEF JoinAdd, Exists
<1>3. /\ req[t] # Idle /\ g \in GroupIds /\ u \in Users
      /\ owner \in [GroupIds -> Users \cup {Unborn, Dismissed}]
      /\ member \subseteq GroupIds \X Users /\ admin \subseteq member
      /\ \A h \in GroupIds, v \in Users : <<h, v>> \in member => owner[h] \in Users
      /\ \A h \in GroupIds : clash = {} /\ owner[h] \in Users => <<h, owner[h]>> \in member
  BY <1>1, Writer
<1>4. clash' = {} => clash = {}  BY <1>1 DEF NoFault, Fault
<1> HIDE DEF g, u
<1>5. member' \subseteq GroupIds \X Users /\ admin' \subseteq member' /\ member \subseteq member'
  BY <1>1, <1>2, <1>3
<1>6. \A h \in GroupIds, v \in Users : h # g => (<<h, v>> \in member' <=> <<h, v>> \in member)
  BY <1>2
<1>7. \A v \in Users : <<g, v>> \in member' => owner'[g] \in Users
  BY <1>1, <1>2, <1>3
<1>8. clash' = {} /\ owner'[g] \in Users => <<g, owner'[g]>> \in member'
  BY <1>1, <1>3, <1>4, <1>5
<1>9. req[t].group = g  BY DEF g
<1> QED  BY <1>1, <1>3, <1>5, <1>6, <1>7, <1>8, <1>9, WriteStep

(* DELETE of a row that is not the owner's, unless something interfered.   *)
LEMMA RemoveStep ==
  ASSUME GroupAssumption, GroupInv, NEW t \in Threads, NEW at \in {"leaveRemove", "kickRemove"},
         Remove(t, at)
  PROVE  GroupInv'
<1> DEFINE g == req[t].group
           u == req[t].target
<1>1. /\ req[t].at = at /\ req[t].at \in Steps /\ End(t) /\ (NoFault \/ Fault) /\ owner' = owner
  BY DEF Remove, Steps
<1>2. \/ UNCHANGED <<member, admin>>
      \/ member' = member \ {<<g, u>>} /\ admin' = admin \ {<<g, u>>}
  BY DEF Remove
<1>3. /\ req[t] # Idle /\ g \in GroupIds /\ u \in Users
      /\ clash = {} => Right(req[t])
      /\ owner \in [GroupIds -> Users \cup {Unborn, Dismissed}]
      /\ member \subseteq GroupIds \X Users /\ admin \subseteq member
      /\ \A h \in GroupIds, v \in Users : <<h, v>> \in member => owner[h] \in Users
      /\ \A h \in GroupIds : clash = {} /\ owner[h] \in Users => <<h, owner[h]>> \in member
  BY <1>1, Writer
<1>4. clash' = {} => clash = {}  BY <1>1 DEF NoFault, Fault
<1>5. clash = {} => owner[g] # u  BY <1>1, <1>3 DEF Right, IsOwner
<1>6. req[t].group = g  OBVIOUS
<1> HIDE DEF g, u
<1>7. member' \subseteq GroupIds \X Users /\ admin' \subseteq member'
  BY <1>2, <1>3
<1>8. \A h \in GroupIds, v \in Users : h # g =>
        /\ <<h, v>> \in member' <=> <<h, v>> \in member
        /\ <<h, v>> \in admin' <=> <<h, v>> \in admin
  BY <1>2
<1>9. \A v \in Users : <<g, v>> \in member' => owner'[g] \in Users
  BY <1>1, <1>2, <1>3
<1>10. clash' = {} /\ owner'[g] \in Users => <<g, owner'[g]>> \in member'
  BY <1>1, <1>2, <1>3, <1>4, <1>5
<1> QED  BY <1>1, <1>3, <1>6, <1>7, <1>8, <1>9, <1>10, WriteStep
(* UPDATE of is_admin.                                                     *)
LEMMA AdminStep ==
  ASSUME GroupAssumption, GroupInv, NEW t \in Threads, AdminSet(t)
  PROVE  GroupInv'
<1> DEFINE g == req[t].group
           u == req[t].target
<1>1. /\ req[t].at \in Steps /\ End(t) /\ (NoFault \/ Fault) /\ UNCHANGED <<owner, member>>
      /\ admin' = admin \/ admin' = admin \cup ({<<g, u>>} \cap member) \/ admin' = admin \ {<<g, u>>}
  BY DEF AdminSet, SetAdmin, Steps
<1>2. /\ req[t] # Idle /\ g \in GroupIds /\ u \in Users
      /\ owner \in [GroupIds -> Users \cup {Unborn, Dismissed}]
      /\ member \subseteq GroupIds \X Users /\ admin \subseteq member
      /\ \A h \in GroupIds, v \in Users : <<h, v>> \in member => owner[h] \in Users
      /\ \A h \in GroupIds : clash = {} /\ owner[h] \in Users => <<h, owner[h]>> \in member
  BY <1>1, Writer
<1>3. clash' = {} => clash = {}  BY <1>1 DEF NoFault, Fault
<1>4. req[t].group = g  OBVIOUS
<1> HIDE DEF g, u
<1>5. admin' \subseteq member'  BY <1>1, <1>2
<1>6. \A h \in GroupIds, v \in Users : h # g => (<<h, v>> \in admin' <=> <<h, v>> \in admin)
  BY <1>1
<1>7. clash' = {} /\ owner'[g] \in Users => <<g, owner'[g]>> \in member'
  BY <1>1, <1>2, <1>3
<1> QED  BY <1>1, <1>2, <1>4, <1>5, <1>6, <1>7, WriteStep

(* The three statements of transfer_group_owner.                           *)
LEMMA TransferStep ==
  ASSUME GroupAssumption, GroupInv, NEW t \in Threads, TransferSet(t)
  PROVE  GroupInv'
<1> DEFINE g == req[t].group
           u == req[t].target
           old == <<g, req[t].op>>
<1>1. /\ req[t].at = "transferSet" /\ End(t) /\ (NoFault \/ Fault) /\ member' = member
      /\ owner' = owner \/ (owner[g] = req[t].op /\ owner' = [owner EXCEPT ![g] = u])
      /\ \/ admin' = admin \/ admin' = admin \ {old}
         \/ admin' = (admin \ {old}) \cup ({<<g, u>>} \cap member)
         \/ admin' = admin \cup ({<<g, u>>} \cap member)
  BY DEF TransferSet, IsOwner
<1>2. /\ req[t] # Idle /\ g \in GroupIds /\ u \in Users /\ req[t].op \in Users
      /\ clash = {} => Right(req[t])
      /\ owner \in [GroupIds -> Users \cup {Unborn, Dismissed}]
      /\ member \subseteq GroupIds \X Users /\ admin \subseteq member
      /\ \A h \in GroupIds, v \in Users : <<h, v>> \in member => owner[h] \in Users
      /\ \A h \in GroupIds : clash = {} /\ owner[h] \in Users => <<h, owner[h]>> \in member
  BY <1>1, Writer DEF Steps
<1>3. clash' = {} => clash = {}  BY <1>1 DEF NoFault, Fault
<1>4. clash = {} => <<g, u>> \in member  BY <1>1, <1>2 DEF Right, IsMember
<1>5. req[t].group = g /\ (owner' = owner \/ (owner[g] \in Users /\ owner' = [owner EXCEPT ![g] = u]))
  BY <1>1, <1>2
<1>6. /\ admin' \subseteq member'
      /\ \A h \in GroupIds, v \in Users : h # g => (<<h, v>> \in admin' <=> <<h, v>> \in admin)
  BY <1>1, <1>2
<1> HIDE DEF g, u, old
<1>7. /\ owner' \in [GroupIds -> Users \cup {Unborn, Dismissed}]
      /\ \A h \in GroupIds : h # g => owner'[h] = owner[h]
      /\ owner[g] \in Users => owner'[g] \in Users
  BY <1>2, <1>5
<1>8. \A v \in Users : <<g, v>> \in member' => owner'[g] \in Users
  BY <1>1, <1>2, <1>7
<1>9. clash' = {} /\ owner'[g] \in Users => <<g, owner'[g]>> \in member'
  BY <1>1, <1>2, <1>3, <1>4, <1>5
<1> QED  BY <1>1, <1>2, <1>5, <1>6, <1>7, <1>8, <1>9, WriteStep

(* DELETE of a group and, by its foreign key, of its memberships.          *)
LEMMA DismissStep ==
  ASSUME GroupAssumption, GroupInv, NEW t \in Threads, DismissDelete(t)
  PROVE  GroupInv'
<1> DEFINE g == req[t].group
<1>1. /\ req[t].at \in Steps /\ End(t) /\ (NoFault \/ Fault)
      /\ \/ UNCHANGED tables
         \/ /\ owner' = owner \/ owner' = [owner EXCEPT ![g] = Dismissed]
            /\ owner[g] \in Users => owner' = [owner EXCEPT ![g] = Dismissed]
            /\ member' = {m \in member : m[1] # g}
            /\ admin' = {m \in admin : m[1] # g}
  BY DEF DismissDelete, Steps, Exists
<1>2. /\ req[t] # Idle /\ g \in GroupIds
      /\ owner \in [GroupIds -> Users \cup {Unborn, Dismissed}]
      /\ member \subseteq GroupIds \X Users /\ admin \subseteq member
      /\ \A h \in GroupIds, v \in Users : <<h, v>> \in member => owner[h] \in Users
      /\ \A h \in GroupIds : clash = {} /\ owner[h] \in Users => <<h, owner[h]>> \in member
  BY <1>1, Writer
<1>3. clash' = {} => clash = {}  BY <1>1 DEF NoFault, Fault
<1>4. req[t].group = g  OBVIOUS
<1> HIDE DEF g
<1>5. CASE UNCHANGED tables
  <2>1. UNCHANGED <<owner, member, admin>>  BY <1>5 DEF tables
  <2> QED  BY <1>1, <1>2, <1>3, <1>4, <2>1, WriteStep
<1>6. CASE /\ owner' = owner \/ owner' = [owner EXCEPT ![g] = Dismissed]
           /\ owner[g] \in Users => owner' = [owner EXCEPT ![g] = Dismissed]
           /\ member' = {m \in member : m[1] # g}
           /\ admin' = {m \in admin : m[1] # g}
  <2>1. /\ owner' \in [GroupIds -> Users \cup {Unborn, Dismissed}]
        /\ \A h \in GroupIds : h # g => owner'[h] = owner[h]
        /\ owner'[g] \notin Users
    BY <1>2, <1>6 DEF GroupAssumption
  <2>2. member' \subseteq GroupIds \X Users /\ admin' \subseteq member'
    BY <1>2, <1>6
  <2>3. \A h \in GroupIds, v \in Users : h # g => (<<h, v>> \in member' <=> <<h, v>> \in member)
    BY <1>6
  <2>4. \A h \in GroupIds, v \in Users : h # g => (<<h, v>> \in admin' <=> <<h, v>> \in admin)
    BY <1>6
  <2>5. \A v \in Users : <<g, v>> \notin member'  BY <1>6
  <2> QED  BY <1>1, <1>2, <1>4, <2>1, <2>2, <2>3, <2>4, <2>5, WriteStep
<1> QED  BY <1>1, <1>5, <1>6

(* A group is made: nobody had established anything about it.              *)
LEMMA CreateStep ==
  ASSUME GroupAssumption, GroupInv, NEW t \in Threads, CreateGroup(t)
  PROVE  GroupInv'
<1>1. PICK g \in GroupIds, u \in Users :
        /\ owner[g] = Unborn
        /\ owner' = owner \/ owner' = [owner EXCEPT ![g] = u]
        /\ \/ /\ clash' = Overlap(g) /\ UNCHANGED faults
              /\ owner' = [owner EXCEPT ![g] = u]
              /\ member' = member \cup {<<g, u>>} /\ admin' = admin \cup {<<g, u>>}
           \/ /\ faults > 0 /\ faults' = faults - 1 /\ clash' = Overlap(g) \cup {"fault"}
              /\ UNCHANGED <<member, admin>>
  BY DEF CreateGroup
<1>2. req' = req /\ TypeOK  BY DEF CreateGroup, GroupInv
<1>3. faults' \in 0..MaxFaults /\ clash' \subseteq {"fault", "overlap"} /\ (clash' = {} => clash = {})
  <2>1. faults \in 0..MaxFaults /\ MaxFaults \in Nat /\ clash \subseteq {"fault", "overlap"}
    BY <1>2 DEF TypeOK, GroupAssumption
  <2>2. faults' \in 0..MaxFaults  BY <1>1, <2>1
  <2>3. clash' \in {Overlap(g), Overlap(g) \cup {"fault"}}  BY <1>1
  <2>4. Overlap(g) \in {clash, clash \cup {"overlap"}}  BY DEF Overlap
  <2>5. clash' \subseteq {"fault", "overlap"} /\ (clash' = {} => clash = {})  BY <2>1, <2>3, <2>4
  <2> QED  BY <2>2, <2>5
<1>4. /\ owner' \in [GroupIds -> Users \cup {Unborn, Dismissed}]
      /\ \A h \in GroupIds : h # g => owner'[h] = owner[h]
      /\ \A h \in GroupIds : owner[h] \in Users => owner'[h] \in Users
  BY <1>1, <1>2 DEF TypeOK
<1>5. member' \subseteq GroupIds \X Users /\ admin' \subseteq member'
  BY <1>1, <1>2 DEF TypeOK
<1>6. TypeOK'  BY <1>2, <1>3, <1>4, <1>5 DEF TypeOK
<1>7. MembersLive'
  <2>1. ASSUME NEW m \in member' PROVE owner'[m[1]] \in Users
    <3>1. CASE m \in member
      <4>1. owner[m[1]] \in Users /\ m[1] \in GroupIds
        BY <1>2, <3>1 DEF GroupInv, MembersLive, Exists, TypeOK
      <4> QED  BY <1>4, <4>1
    <3>2. CASE m \notin member
      <4>1. m = <<g, u>> /\ owner' = [owner EXCEPT ![g] = u]  BY <1>1, <2>1, <3>2
      <4>2. owner'[g] = u  BY <1>2, <4>1 DEF TypeOK
      <4> QED  BY <4>1, <4>2
    <3> QED  BY <3>1, <3>2
  <2> QED  BY <2>1 DEF MembersLive, Exists
<1>8. ASSUME clash' = {}
      PROVE  /\ owner' = [owner EXCEPT ![g] = u] /\ member' = member \cup {<<g, u>>}
             /\ admin' = admin \cup {<<g, u>>}
             /\ \A s \in Threads : req[s] # Idle => req[s].group # g
  BY <1>1, <1>8 DEF Overlap, Busy
<1>9. OwnerIsMember'
  <2>1. ASSUME clash' = {}, NEW h \in GroupIds, owner'[h] \in Users PROVE <<h, owner'[h]>> \in member'
    <3>1. CASE h = g
      <4>1. owner'[g] = u  BY <1>2, <1>8, <2>1 DEF TypeOK
      <4> QED  BY <1>8, <2>1, <3>1, <4>1
    <3>2. CASE h # g
      <4>1. owner'[h] = owner[h]  BY <1>4, <3>2
      <4>2. <<h, owner[h]>> \in member
        BY <1>3, <2>1, <4>1 DEF GroupInv, OwnerIsMember, Exists, IsMember
      <4> QED  BY <1>8, <2>1, <4>1, <4>2
    <3> QED  BY <3>1, <3>2
  <2> QED  BY <2>1 DEF OwnerIsMember, Exists, IsMember
<1>10. Leaving'  BY <1>2 DEF GroupInv, Leaving
<1>11. Alone'
  <2>1. SUFFICES ASSUME clash' = {}, NEW s \in Threads, req[s] # Idle
                 PROVE  /\ Right(req[s])'
                        /\ \A x \in Threads : x # s /\ req[x] # Idle => req[x].group # req[s].group
    BY <1>2 DEF Alone
  <2>2. clash = {} /\ req[s] \in Requests /\ req[s].group # g
    BY <1>2, <1>3, <1>8, <2>1 DEF TypeOK
  <2>3. /\ Right(req[s])
        /\ \A x \in Threads : x # s /\ req[x] # Idle => req[x].group # req[s].group
    BY <2>1, <2>2 DEF GroupInv, Alone
  <2>4. req[s].group \in GroupIds  BY <2>2 DEF Requests
  <2>5. Right(req[s])'
    <3> DEFINE r == req[s]
               h == r.group
    <3>1. owner'[h] = owner[h]  BY <1>4, <2>2, <2>4
    <3>2. \A v : /\ <<h, v>> \in member' <=> <<h, v>> \in member
                 /\ <<h, v>> \in admin' <=> <<h, v>> \in admin
      BY <1>8, <2>1, <2>2
    <3>3. req'[s] = r  BY <1>2
    <3>4. Right(r)  BY <2>3
    <3> HIDE DEF r
    <3> QED  BY <3>1, <3>2, <3>3, <3>4 DEF Right, IsOwner, IsAdmin, IsMember
  <2> QED  BY <2>3, <2>5
<1> QED  BY <1>6, <1>7, <1>9, <1>10, <1>11 DEF GroupInv

LEMMA StepGroups == GroupAssumption /\ GroupInv /\ [Next]_vars => GroupInv'
<1> SUFFICES ASSUME GroupAssumption, GroupInv, [Next]_vars PROVE GroupInv'  OBVIOUS
<1>1. CASE UNCHANGED vars
  BY <1>1 DEF vars, tables, GroupInv, TypeOK, MembersLive, OwnerIsMember, Leaving, Alone,
              Right, Exists, IsOwner, IsMember, IsAdmin
<1>2. ASSUME NEW t \in Threads, Arrive(t) PROVE GroupInv'  BY <1>2, Arrivals
<1>3. ASSUME NEW t \in Threads, Question(t) PROVE GroupInv'  BY <1>3, Questions
<1>4. ASSUME NEW t \in Threads, Write(t) PROVE GroupInv'
  <2>1. CASE CreateGroup(t)  BY <2>1, CreateStep
  <2>2. CASE JoinAdd(t)  BY <2>2, JoinStep
  <2>3. CASE LeaveRemove(t)
    <3>1. Remove(t, "leaveRemove")  BY <2>3 DEF LeaveRemove
    <3> QED  BY <3>1, RemoveStep
  <2>4. CASE KickRemove(t)
    <3>1. Remove(t, "kickRemove")  BY <2>4 DEF KickRemove
    <3> QED  BY <3>1, RemoveStep
  <2>5. CASE AdminSet(t)  BY <2>5, AdminStep
  <2>6. CASE TransferSet(t)  BY <2>6, TransferStep
  <2>7. CASE DismissDelete(t)  BY <2>7, DismissStep
  <2> QED  BY <1>4, <2>1, <2>2, <2>3, <2>4, <2>5, <2>6, <2>7 DEF Write
<1> QED  BY <1>1, <1>2, <1>3, <1>4 DEF Next

(* The inductive invariant of the group requests.                          *)
THEOREM GroupInvariance == Spec => []GroupInv
<1>1. Init => GroupInv  BY InitGroups, GroupAssumption
<1>2. GroupInv /\ [Next]_vars => GroupInv'  BY StepGroups, GroupAssumption
<1> QED  BY <1>1, <1>2, PTL DEF Spec

(* The tables and requests keep their types; who is an admin is a member.  *)
THEOREM GroupTypes == Spec => []TypeOK
<1>1. GroupInv => TypeOK  BY DEF GroupInv
<1> QED  BY <1>1, GroupInvariance, PTL

(* No membership outlives its group, though an invitation in hand may ask  *)
(* before and write after the group is dismissed (join_group).             *)
THEOREM NoOrphanMembers == Spec => []MembersLive
<1>1. GroupInv => MembersLive  BY DEF GroupInv
<1> QED  BY <1>1, GroupInvariance, PTL

(* While no statement fails and no two requests for a group overlap, its   *)
(* owner is a member of it: leave_group and remove_member spare him, and   *)
(* transfer_owner picks a member.                                          *)
THEOREM OwnerKept == Spec => []OwnerIsMember
<1>1. GroupInv => OwnerIsMember  BY DEF GroupInv
<1> QED  BY <1>1, GroupInvariance, PTL

(* Only writes change a table.                                             *)
LEMMA QuietTables ==
  ASSUME NEW t \in Threads, Arrive(t) \/ Question(t)
  PROVE  UNCHANGED tables
<1>1. CASE Arrive(t)
  BY <1>1 DEF Arrive, InviteBegin, LeaveBegin, KickBegin, AdminBegin, TransferBegin, DismissBegin, Begin
<1>2. CASE Question(t)
  BY <1>2 DEF Question, Ask, JoinGroup, JoinMember, LeaveOwner, KickOwner, KickAdmin, KickTargetOwner,
              KickTargetAdmin, KickOwnerAgain, AdminOwner, AdminMember, TransferOwner, TransferMember,
              DismissOwner
<1> QED  BY <1>1, <1>2

(* What passes an ownership on, and who asked for it.                      *)
LEMMA HandedStep ==
  ASSUME GroupAssumption, GroupInv, [Next]_vars, NEW g \in GroupIds,
         owner[g] \in Users, owner'[g] \in Users, owner'[g] # owner[g]
  PROVE  \E t \in Threads : /\ req[t] # Idle /\ req'[t] # req[t] /\ req[t].group = g
                            /\ req[t].op = owner[g] /\ req[t].target = owner'[g]
<1>1. TypeOK /\ owner \in [GroupIds -> Users \cup {Unborn, Dismissed}]  BY DEF GroupInv, TypeOK
<1>2. PICK t \in Threads : Write(t)  BY QuietTables DEF Next, vars, tables
<1>3. TransferSet(t)
  <2>1. ~CreateGroup(t)  BY <1>1 DEF CreateGroup, GroupAssumption
  <2>2. ~JoinAdd(t) /\ ~LeaveRemove(t) /\ ~KickRemove(t) /\ ~AdminSet(t)
    BY DEF JoinAdd, LeaveRemove, KickRemove, Remove, AdminSet
  <2>3. ~DismissDelete(t)
    BY <1>1 DEF DismissDelete, GroupAssumption, tables
  <2> QED  BY <1>2, <2>1, <2>2, <2>3 DEF Write
<1>4. /\ req[t].at = "transferSet" /\ End(t)
      /\ req[t].group = g /\ req[t].op = owner[g] /\ req[t].target = owner'[g]
  BY <1>1, <1>3 DEF TransferSet, IsOwner
<1>5. req[t] # Idle  BY <1>4 DEF Idle
<1>6. req'[t] # req[t]  BY <1>1, <1>4, <1>5, EndType
<1> QED  BY <1>4, <1>5, <1>6

(* Ownership passes only by the present owner's own transfer, to the user  *)
(* he named, whatever fails and overlaps: the WHERE of                     *)
(* transfer_group_owner decides, not the question asked before.            *)
THEOREM Handed == Spec => HandedByOwner
<1>1. GroupInv /\ [Next]_vars =>
        [\A g \in GroupIds :
           Exists(g) /\ owner'[g] \in Users /\ owner'[g] # owner[g]
             => \E t \in Threads : /\ req[t] # Idle /\ req'[t] # req[t]
                                   /\ req[t].group = g
                                   /\ req[t].op = owner[g] /\ req[t].target = owner'[g]]_vars
  BY HandedStep, GroupAssumption DEF Exists
<1> QED  BY <1>1, GroupInvariance, PTL DEF Spec, HandedByOwner

(* A membership that goes while its group stays, alone.                    *)
LEMMA RemovedByRight ==
  ASSUME GroupAssumption, GroupInv, [Next]_vars, clash' = {}, NEW m \in member,
         m \notin member', owner'[m[1]] # Dismissed
  PROVE  \E t \in Threads : /\ req[t] # Idle /\ req'[t] # req[t]
                            /\ MayRemove(m[1], req[t].op, m[2])
<1>1. /\ TypeOK /\ owner \in [GroupIds -> Users \cup {Unborn, Dismissed}]
      /\ member \subseteq GroupIds \X Users /\ owner[m[1]] \in Users
  BY DEF GroupInv, TypeOK, MembersLive, Exists
<1>2. PICK t \in Threads : Write(t)  BY QuietTables DEF Next, vars, tables
<1>3. LeaveRemove(t) \/ KickRemove(t)
  <2>1. ~CreateGroup(t)  BY DEF CreateGroup
  <2>2. ~JoinAdd(t) /\ ~AdminSet(t) /\ ~TransferSet(t)
    BY DEF JoinAdd, AdminSet, TransferSet
  <2>3. ~DismissDelete(t)
    <3>1. SUFFICES ASSUME DismissDelete(t) PROVE FALSE  OBVIOUS
    <3>2. m[1] = req[t].group /\ owner' = [owner EXCEPT ![req[t].group] = Dismissed]
      BY <1>1, <3>1 DEF DismissDelete, tables, Exists
    <3> QED  BY <1>1, <3>2
  <2> QED  BY <1>2, <2>1, <2>2, <2>3 DEF Write
<1>4. /\ req[t].at \in {"leaveRemove", "kickRemove"} /\ End(t) /\ NoFault
      /\ m = <<req[t].group, req[t].target>>
  BY <1>3 DEF LeaveRemove, KickRemove, Remove, Fault
<1>5. req[t] # Idle  BY <1>4 DEF Idle
<1>6. req'[t] # req[t]  BY <1>1, <1>4, <1>5, EndType
<1>7. clash = {}  BY <1>4 DEF NoFault
<1>8. Right(req[t])  BY <1>5, <1>7 DEF GroupInv, Alone
<1>9. MayRemove(req[t].group, req[t].op, req[t].target)
  <2>1. CASE req[t].at = "leaveRemove"
    <3>1. req[t].op = req[t].target  BY <2>1 DEF GroupInv, Leaving
    <3> QED  BY <1>8, <2>1, <3>1 DEF Right, MayRemove
  <2>2. CASE req[t].at = "kickRemove"
    BY <1>8, <2>2 DEF Right, MayRemove
  <2> QED  BY <1>4, <2>1, <2>2
<1>10. m[1] = req[t].group /\ m[2] = req[t].target  BY <1>4
<1> QED  BY <1>5, <1>6, <1>9, <1>10

(* A member that becomes an admin, alone.                                  *)
LEMMA AppointedByRight ==
  ASSUME GroupAssumption, GroupInv, [Next]_vars, clash' = {}, NEW m \in member,
         m \notin admin, m \in admin'
  PROVE  \E t \in Threads : /\ req[t] # Idle /\ req'[t] # req[t] /\ IsOwner(m[1], req[t].op)
<1>1. TypeOK /\ owner[m[1]] \in Users
  BY DEF GroupInv, MembersLive, Exists
<1>2. PICK t \in Threads : Write(t)  BY QuietTables DEF Next, vars, tables
<1>3. AdminSet(t) \/ TransferSet(t)
  <2>1. ~CreateGroup(t)
    <3>1. SUFFICES ASSUME CreateGroup(t) PROVE FALSE  OBVIOUS
    <3>2. PICK g \in GroupIds, u \in Users : owner[g] = Unborn /\ m = <<g, u>>
      BY <3>1 DEF CreateGroup
    <3>3. m[1] = g  BY <3>2
    <3> QED  BY <1>1, <3>2, <3>3 DEF GroupAssumption
  <2>2. ~JoinAdd(t) /\ ~LeaveRemove(t) /\ ~KickRemove(t)
    BY DEF JoinAdd, LeaveRemove, KickRemove, Remove
  <2>3. ~DismissDelete(t)  BY DEF DismissDelete, tables
  <2> QED  BY <1>2, <2>1, <2>2, <2>3 DEF Write
<1>4. /\ req[t].at \in {"adminSet", "transferSet"} /\ End(t) /\ NoFault
      /\ m = <<req[t].group, req[t].target>>
  BY <1>3 DEF AdminSet, SetAdmin, TransferSet, Fault
<1>5. req[t] # Idle  BY <1>4 DEF Idle
<1>6. req'[t] # req[t]  BY <1>1, <1>4, <1>5, EndType
<1>7. clash = {}  BY <1>4 DEF NoFault
<1>8. Right(req[t])  BY <1>5, <1>7 DEF GroupInv, Alone
<1>9. IsOwner(req[t].group, req[t].op)  BY <1>4, <1>8 DEF Right
<1>10. m[1] = req[t].group  BY <1>4
<1> QED  BY <1>5, <1>6, <1>9, <1>10

(* While no statement fails and no two requests for a group overlap, the   *)
(* removed and the appointed are so by one who has the right to it in the  *)
(* very step that does it, calls after he was asked (remove_member,        *)
(* leave_group, set_admin, transfer_owner).                                *)
THEOREM RightsHold == Spec => ByRight
<1>1. GroupInv /\ [Next]_vars =>
        [clash' = {} =>
           \A m \in member :
             /\ m \notin member' /\ owner'[m[1]] # Dismissed
                  => \E t \in Threads : /\ req[t] # Idle /\ req'[t] # req[t]
                                        /\ MayRemove(m[1], req[t].op, m[2])
             /\ m \notin admin /\ m \in admin'
                  => \E t \in Threads : /\ req[t] # Idle /\ req'[t] # req[t]
                                        /\ IsOwner(m[1], req[t].op)]_vars
  BY RemovedByRight, AppointedByRight, GroupAssumption
<1> QED  BY <1>1, GroupInvariance, PTL DEF Spec, ByRight
=============================================================================
