--------------------------- MODULE FriendsProofs ---------------------------
(***************************************************************************)
(* Proofs about Friends, for any threads, accounts, bots and failures: the *)
(* types, mutual friendship, and that the tables implement SocialGraph.    *)
(***************************************************************************)
EXTENDS Friends, TLAPS

Status == {"none", "pending", "accepted", "rejected"}

(* Going on within a request, or ending it, keeps the requests' types.     *)
LEMMA GotoType ==
  ASSUME TypeOK, NEW t \in Threads, NEW at \in Steps \cup {"end"}, req[t] # Idle, Goto(t, at)
  PROVE  /\ req' \in [Threads -> Requests \cup {Idle}]
         /\ \A s \in Threads : req'[s] # Idle => req'[s].op # req'[s].with
<1>1. req \in [Threads -> Requests \cup {Idle}] /\ req[t] \in Requests /\ Op(t) # With(t)
  BY DEF TypeOK
<1>2. CASE at = "end"  BY <1>1, <1>2 DEF Goto, TypeOK, Op, With
<1>3. CASE at # "end"
  <2>1. at \in Steps /\ req' = [req EXCEPT ![t].at = at]  BY <1>3 DEF Goto
  <2>2. req'[t] = [req[t] EXCEPT !.at = at]  BY <1>1, <2>1
  <2>3. req'[t] \in Requests /\ req'[t].op = req[t].op /\ req'[t].with = req[t].with
    BY <1>1, <2>1, <2>2 DEF Requests
  <2> QED  BY <1>1, <2>1, <2>3 DEF TypeOK, Op, With
<1> QED  BY <1>2, <1>3

(* A step that touches no table and goes on with a request.                *)
LEMMA QuietType ==
  ASSUME TypeOK, NEW t \in Threads, NEW at \in Steps \cup {"end"}, req[t] # Idle, Goto(t, at),
         NoFault \/ Fault, UNCHANGED <<tables, clash>>
  PROVE  TypeOK'
<1>1. faults' \in 0..MaxFaults  BY FriendAssumption DEF TypeOK, NoFault, Fault
<1> QED  BY <1>1, GotoType DEF TypeOK, Op, With, tables

LEMMA AskType ==
  ASSUME TypeOK, NEW t \in Threads, NEW at, NEW truth,
         NEW yes \in Steps \cup {"end"}, NEW no \in Steps \cup {"end"}, Ask(t, at, truth, yes, no)
  PROVE  TypeOK'
<1>1. PICK next \in {yes, no} : Goto(t, next)  BY DEF Ask
<1> QED  BY <1>1, QuietType DEF Ask, At

(* A step that writes rows and deletes none.                               *)
LEMMA WriteType ==
  ASSUME TypeOK, NEW t \in Threads, NEW at \in Steps \cup {"end"}, req[t] # Idle, Goto(t, at),
         NoFault \/ Fault, remarks' = remarks, row' \in [Pairs -> Status],
         \A p \in Pairs : row[p] # "none" => row'[p] # "none",
         clash' \subseteq {"torn", "stale", "late"}
  PROVE  TypeOK'
<1>1. faults' \in 0..MaxFaults  BY FriendAssumption DEF TypeOK, NoFault, Fault
<1>2. \A p \in remarks' : row'[p] # "none"  BY DEF TypeOK
<1> QED  BY <1>1, <1>2, GotoType DEF TypeOK, Op, With, Status

LEMMA GrantType ==
  ASSUME TypeOK, NEW a \in Users, NEW b \in Users, a # b, Grant(b, a)
  PROVE  /\ row' \in [Pairs -> Status]
         /\ \A p \in Pairs : row[p] # "none" => row'[p] # "none"
         /\ clash' \subseteq {"torn", "stale", "late"}
         /\ NoFault \/ Fault
         /\ clash' = {} =>
              \/ UNCHANGED row
              \/ /\ row[<<a, b>>] = "pending" /\ row[<<b, a>>] = "none"
                 /\ row' = [row EXCEPT ![<<a, b>>] = "accepted", ![<<b, a>>] = "accepted"]
<1>1. row \in [Pairs -> Status] /\ <<a, b>> \in Pairs /\ <<b, a>> \in Pairs
      /\ <<a, b>> # <<b, a>> /\ clash \subseteq {"torn", "stale", "late"}
  BY DEF TypeOK, Pairs, Status
<1> DEFINE r1 == [row EXCEPT ![<<a, b>>] = IF @ = "none" THEN @ ELSE "accepted"]
<1>2. /\ r1 \in [Pairs -> Status]
      /\ \A p \in Pairs : row[p] # "none" => r1[p] # "none"
      /\ r1[<<b, a>>] = row[<<b, a>>]
  BY <1>1 DEF Status
<1>3. CASE /\ NoFault
           /\ row' = IF row[<<b, a>>] = "none" THEN [r1 EXCEPT ![<<b, a>>] = "accepted"] ELSE r1
           /\ clash' = clash \cup (IF row[<<a, b>>] # "pending" THEN {"stale"} ELSE {})
                             \cup (IF row[<<b, a>>] # "none" THEN {"torn"} ELSE {})
  <2>1. [r1 EXCEPT ![<<b, a>>] = "accepted"] \in [Pairs -> Status]
        /\ \A p \in Pairs : row[p] # "none" => [r1 EXCEPT ![<<b, a>>] = "accepted"][p] # "none"
    BY <1>1, <1>2 DEF Status
  <2>2. row' \in [Pairs -> Status] /\ \A p \in Pairs : row[p] # "none" => row'[p] # "none"
    BY <1>2, <1>3, <2>1
  <2>3. clash' = {} =>
          /\ row[<<a, b>>] = "pending" /\ row[<<b, a>>] = "none"
          /\ row' = [row EXCEPT ![<<a, b>>] = "accepted", ![<<b, a>>] = "accepted"]
    BY <1>1, <1>3
  <2>4. clash' \subseteq {"torn", "stale", "late"}  BY <1>1, <1>3
  <2> QED  BY <1>3, <2>2, <2>3, <2>4
<1>4. CASE Fault /\ UNCHANGED <<row, clash>>  BY <1>1, <1>4
<1>5. CASE Fault /\ row' = r1 /\ clash' = clash \cup {"torn"}  BY <1>1, <1>2, <1>5
<1> QED  BY <1>3, <1>4, <1>5 DEF Grant

-----------------------------------------------------------------------------
LEMMA InitType == Init => TypeOK
  BY FriendAssumption DEF Init, TypeOK

LEMMA StepType ==
  ASSUME TypeOK, NEW t \in Threads, Step(t)
  PROVE  TypeOK'
<1>0. /\ row \in [Pairs -> Status] /\ clash \subseteq {"torn", "stale", "late"}
      /\ req[t] # Idle => /\ Op(t) \in Users /\ With(t) \in Users /\ Op(t) # With(t)
                          /\ <<Op(t), With(t)>> \in Pairs /\ <<With(t), Op(t)>> \in Pairs
  BY DEF TypeOK, Status, Requests, Op, With, Pairs
<1>1. CASE Arrive(t)
  <2>1. PICK u \in Users, v \in Users, at \in GatewayFrames \cup SessionFrames : Begin(t, at, u, v)
    BY <1>1 DEF Arrive
  <2>2. [at |-> at, op |-> u, with |-> v] \in Requests
    BY <2>1 DEF Requests, Steps, GatewayFrames, SessionFrames
  <2> QED  BY <2>1, <2>2 DEF Begin, TypeOK, Op, With, tables
<1>2. CASE AddFriend(t)
  <2>1. CASE Ask(t, "addFriend", IsFriend(t), "end", "addAsked")  BY <2>1, AskType DEF Steps
  <2>2. CASE At(t, "addFriend") /\ Fault /\ Goto(t, "end") /\ UNCHANGED <<tables, clash>>
    BY <2>2, QuietType DEF At
  <2> QED  BY <1>2, <2>1, <2>2 DEF AddFriend
<1>3. CASE AddAsked(t)  BY <1>3, AskType DEF AddAsked, Steps
<1>4. CASE Add(t)
  <2>0. PICK at \in Steps \cup {"end"} : Goto(t, at)
    BY <1>4 DEF Add, Steps
  <2>1. /\ row' \in [Pairs -> Status]
        /\ \A p \in Pairs : row[p] # "none" => row'[p] # "none"
    BY <1>0, <1>4 DEF Add, At, Status
  <2> QED  BY <1>0, <1>4, <2>0, <2>1, WriteType DEF Add, At
<1>5. CASE BotAccept(t)
  <2>1. Grant(With(t), Op(t)) /\ Goto(t, "end") /\ remarks' = remarks /\ req[t] # Idle
    BY <1>5 DEF BotAccept, At
  <2> QED  BY <1>0, <2>1, GrantType, WriteType
<1>6. CASE AcceptAsked(t)  BY <1>6, AskType DEF AcceptAsked, Steps
<1>7. CASE Accept(t)
  <2>1. Grant(Op(t), With(t)) /\ Goto(t, "end") /\ remarks' = remarks /\ req[t] # Idle
    BY <1>7 DEF Accept, At
  <2> QED  BY <1>0, <2>1, GrantType, WriteType
<1>8. CASE Reject(t)
  <2>1. req[t] # Idle /\ Goto(t, "end") /\ remarks' = remarks /\ (NoFault \/ Fault)
    BY <1>8 DEF Reject, At
  <2>2. /\ row' \in [Pairs -> Status]
        /\ \A p \in Pairs : row[p] # "none" => row'[p] # "none"
    BY <1>0, <1>8, <2>1 DEF Reject, Status
  <2>3. clash' \subseteq {"torn", "stale", "late"}  BY <1>0, <1>8 DEF Reject
  <2> QED  BY <2>1, <2>2, <2>3, WriteType
<1>9. CASE RemoveFriend(t)  BY <1>9, AskType DEF RemoveFriend, Steps
<1>10. CASE Remove(t)
  <2>1. req[t] # Idle /\ Goto(t, "end") /\ clash' = clash  BY <1>10 DEF Remove, At
  <2>2. faults' \in 0..MaxFaults
    BY <1>10, FriendAssumption DEF Remove, TypeOK, NoFault, Fault
  <2>3. row' \in [Pairs -> Status] /\ remarks' \in SUBSET Pairs /\ \A p \in remarks' : row'[p] # "none"
    BY <1>10 DEF Remove, TypeOK, Status, tables
  <2> QED  BY <2>1, <2>2, <2>3, GotoType DEF TypeOK, Op, With, Status
<1>11. CASE RemarkFriend(t)  BY <1>11, AskType DEF RemarkFriend, Steps
<1>12. CASE Remark(t)
  <2>1. req[t] # Idle /\ Goto(t, "end") /\ UNCHANGED <<row, clash>>  BY <1>12 DEF Remark, At
  <2>2. faults' \in 0..MaxFaults
    BY <1>12, FriendAssumption DEF Remark, TypeOK, NoFault, Fault
  <2>3. remarks' \in SUBSET Pairs /\ \A p \in remarks' : row[p] # "none"
    BY <1>0, <1>12, <2>1 DEF Remark, TypeOK
  <2> QED  BY <2>1, <2>2, <2>3, GotoType DEF TypeOK, Op, With, Status
<1> QED
  BY <1>1, <1>2, <1>3, <1>4, <1>5, <1>6, <1>7, <1>8, <1>9, <1>10, <1>11, <1>12 DEF Step

(* The tables and the requests keep their types, and a remark stands in a  *)
(* row that exists.                                                        *)
THEOREM FriendTypes == Spec => []TypeOK
<1>1. TypeOK /\ [Next]_vars => TypeOK'
  <2> SUFFICES ASSUME TypeOK, [Next]_vars PROVE TypeOK'
    OBVIOUS
  <2>1. CASE Next  BY <2>1, StepType DEF Next
  <2>2. CASE UNCHANGED vars  BY <2>2 DEF vars, TypeOK, Op, With
  <2> QED  BY <2>1, <2>2
<1> QED  BY <1>1, InitType, PTL DEF Spec

-----------------------------------------------------------------------------
LEMMA StepMutual ==
  ASSUME TypeOK, Mutual, NEW t \in Threads, Step(t), clash' = {}
  PROVE  Mutual'
<1>0. /\ row \in [Pairs -> Status] /\ clash \subseteq clash'
      /\ req[t] # Idle => /\ Op(t) \in Users /\ With(t) \in Users /\ Op(t) # With(t)
                          /\ <<Op(t), With(t)>> \in Pairs /\ <<With(t), Op(t)>> \in Pairs
  <2>1. clash \subseteq clash'
    BY DEF Step, Arrive, Begin, AddFriend, AddAsked, Add, BotAccept, AcceptAsked, Accept, Reject,
           RemoveFriend, Remove, RemarkFriend, Remark, Ask, Grant
  <2> QED  BY <2>1 DEF TypeOK, Status, Requests, Op, With, Pairs
<1>1. \A a, b \in Users : row[<<a, b>>] = "accepted" => row[<<b, a>>] = "accepted"
  BY <1>0 DEF Mutual
<1>2. CASE UNCHANGED row  BY <1>1, <1>2 DEF Mutual
<1>3. ASSUME NEW a \in Users, NEW b \in Users, a # b, Grant(b, a) PROVE Mutual'
  <2>1. CASE UNCHANGED row  BY <1>2, <2>1
  <2>2. CASE row' = [row EXCEPT ![<<a, b>>] = "accepted", ![<<b, a>>] = "accepted"]
    BY <1>0, <1>1, <2>2 DEF Mutual, Pairs
  <2> QED  BY <1>3, <2>1, <2>2, GrantType
<1>4. CASE Add(t)
  <2>1. CASE UNCHANGED row  BY <1>2, <2>1
  <2>2. CASE /\ req[t] # Idle /\ row[<<Op(t), With(t)>>] = "none"
             /\ row' = [row EXCEPT ![<<Op(t), With(t)>>] = "pending"]
    BY <1>0, <1>1, <2>2 DEF Mutual, Pairs
  <2> QED  BY <1>4, <2>1, <2>2 DEF Add, At
<1>5. CASE BotAccept(t)  BY <1>0, <1>3, <1>5 DEF BotAccept, At
<1>6. CASE Accept(t)  BY <1>0, <1>3, <1>6 DEF Accept, At
<1>7. CASE Reject(t)
  <2>1. CASE UNCHANGED row  BY <1>2, <2>1
  <2>2. CASE /\ req[t] # Idle /\ row[<<With(t), Op(t)>>] # "accepted"
             /\ row' = [row EXCEPT ![<<With(t), Op(t)>>] = IF @ = "none" THEN @ ELSE "rejected"]
    BY <1>0, <1>1, <2>2 DEF Mutual, Pairs
  <2> QED  BY <1>7, <2>1, <2>2 DEF Reject, At
<1>8. CASE Remove(t)
  <2>1. CASE UNCHANGED row  BY <1>2, <2>1
  <2>2. CASE row' = [p \in Pairs |-> IF p \in {<<Op(t), With(t)>>, <<With(t), Op(t)>>}
                                     THEN "none" ELSE row[p]]
    BY <1>1, <2>2 DEF Mutual, Pairs
  <2> QED  BY <1>8, <2>1, <2>2 DEF Remove, tables
<1> QED
  BY <1>2, <1>4, <1>5, <1>6, <1>7, <1>8
  DEF Step, Arrive, Begin, AddFriend, AddAsked, AcceptAsked, RemoveFriend, RemarkFriend, Remark,
      Ask, tables

(* Friendship is mutual until an acceptance is torn or stale or a          *)
(* rejection late.                                                         *)
THEOREM FriendshipMutual == Spec => []Mutual
<1>1. Init => Mutual  BY DEF Init, Mutual, Pairs
<1>2. TypeOK /\ Mutual /\ [Next]_vars => Mutual'
  <2> SUFFICES ASSUME TypeOK, Mutual, [Next]_vars, clash' = {} PROVE Mutual'
    BY DEF Mutual
  <2>1. CASE Next  BY <2>1, StepMutual DEF Next
  <2>2. CASE UNCHANGED vars  BY <2>2 DEF vars, Mutual
  <2> QED  BY <2>1, <2>2
<1> QED  BY <1>1, <1>2, FriendTypes, PTL DEF Spec

-----------------------------------------------------------------------------
(* The abstract state: who waits for an answer, and who are friends.       *)
Asked == {p \in Pairs : row[p] = "pending"}
Accepted == {p \in Pairs : row[p] = "accepted"}
Couples(A) == {{p[1], p[2]} : p \in A}
Pals == Couples(Accepted)

LEMMA CouplesAdd ==
  ASSUME NEW A \in SUBSET Pairs, NEW a \in Users, NEW b \in Users
  PROVE  Couples(A \cup {<<a, b>>, <<b, a>>}) = Couples(A) \cup {{a, b}}
<1>1. {a, b} = {b, a}  OBVIOUS
<1>2. <<a, b>>[1] = a /\ <<a, b>>[2] = b /\ <<b, a>>[1] = b /\ <<b, a>>[2] = a  OBVIOUS
<1> QED  BY <1>1, <1>2 DEF Couples

LEMMA CouplesLess ==
  ASSUME NEW A \in SUBSET Pairs, NEW a \in Users, NEW b \in Users
  PROVE  Couples(A \ {<<a, b>>, <<b, a>>}) = Couples(A) \ {{a, b}}
<1>1. \A p \in A : {p[1], p[2]} = {a, b} <=> p = <<a, b>> \/ p = <<b, a>>
  <2> SUFFICES ASSUME NEW p \in A PROVE {p[1], p[2]} = {a, b} <=> p = <<a, b>> \/ p = <<b, a>>
    OBVIOUS
  <2>1. PICK c \in Users, d \in Users : p = <<c, d>>  BY DEF Pairs
  <2>2. {c, d} = {a, b} <=> (c = a /\ d = b) \/ (c = b /\ d = a)  OBVIOUS
  <2> QED  BY <2>1, <2>2
<1> QED  BY <1>1 DEF Couples

\* While friendship is mutual, strangers in one direction are no couple.
LEMMA NoCouple ==
  ASSUME Mutual, clash = {}, NEW a \in Users, NEW b \in Users, row[<<a, b>>] # "accepted"
  PROVE  {a, b} \notin Pals
<1> SUFFICES ASSUME {a, b} \in Pals PROVE FALSE
  OBVIOUS
<1>1. PICK p \in Accepted : {a, b} = {p[1], p[2]}  BY DEF Pals, Couples
<1>2. PICK c \in Users, d \in Users : p = <<c, d>>  BY DEF Accepted, Pairs
<1>3. {a, b} = {c, d}  BY <1>1, <1>2
<1>4. (a = c /\ b = d) \/ (a = d /\ b = c)  BY <1>3
<1>5. row[<<c, d>>] = "accepted" /\ row[<<d, c>>] = "accepted"
  BY <1>2 DEF Accepted, Mutual
<1> QED  BY <1>4, <1>5

LEMMA GraphStep ==
  ASSUME TypeOK, Mutual, Mutual', NEW t \in Threads, Step(t), clash = {}, clash' = {}
  PROVE  UNCHANGED row \/ \E a, b \in Users : a # b /\
           (Graph!Ask(a, b) \/ Graph!Accept(b, a) \/ Graph!Reject(b, a) \/ Graph!Part(a, b))
<1>0. /\ row \in [Pairs -> Status]
      /\ req[t] # Idle => /\ Op(t) \in Users /\ With(t) \in Users /\ Op(t) # With(t)
  BY DEF TypeOK, Status, Requests, Op, With
<1> USE DEF Status
<1>3. ASSUME NEW a \in Users, NEW b \in Users, a # b, row[<<a, b>>] = "none",
             row' = [row EXCEPT ![<<a, b>>] = "pending"]
      PROVE  Graph!Ask(a, b)
  <2>1. {a, b} \notin Pals  BY <1>3, NoCouple
  <2>2. Asked' = Asked \cup {<<a, b>>} /\ Accepted' = Accepted
    BY <1>0, <1>3 DEF Asked, Accepted, Pairs
  <2> QED  BY <2>1, <2>2 DEF Graph!Ask, Asked, Pals, Couples, Accepted
<1>4. ASSUME NEW a \in Users, NEW b \in Users, a # b, Grant(b, a)
      PROVE  UNCHANGED row \/ Graph!Accept(b, a)
  <2>1. CASE UNCHANGED row  BY <2>1
  <2>2. CASE /\ row[<<a, b>>] = "pending" /\ row[<<b, a>>] = "none"
             /\ row' = [row EXCEPT ![<<a, b>>] = "accepted", ![<<b, a>>] = "accepted"]
    <3>1. /\ <<a, b>> \in Asked /\ Asked' = Asked \ {<<a, b>>}
          /\ Accepted' = Accepted \cup {<<a, b>>, <<b, a>>}
      BY <1>0, <1>4, <2>2 DEF Asked, Accepted, Pairs
    <3>2. Pals' = Pals \cup {{a, b}}
      <4>1. Accepted \in SUBSET Pairs  BY DEF Accepted
      <4> QED  BY <3>1, <4>1, CouplesAdd DEF Pals
    <3> QED  BY <3>1, <3>2 DEF Graph!Accept, Asked, Pals, Couples, Accepted
  <2> QED  BY <1>4, <2>1, <2>2, GrantType
<1>5. ASSUME NEW a \in Users, NEW b \in Users, a # b, row[<<a, b>>] # "accepted",
             row' = [row EXCEPT ![<<a, b>>] = IF @ = "none" THEN @ ELSE "rejected"]
      PROVE  UNCHANGED row \/ Graph!Reject(b, a)
  <2>0. <<a, b>> \in Pairs  BY DEF Pairs
  <2>1. CASE row[<<a, b>>] = "pending"
    <3>1. <<a, b>> \in Asked /\ Asked' = Asked \ {<<a, b>>} /\ Accepted' = Accepted
      BY <1>0, <1>5, <2>0, <2>1 DEF Asked, Accepted
    <3> QED  BY <3>1 DEF Graph!Reject, Asked, Pals, Couples, Accepted
  <2>2. CASE row[<<a, b>>] # "pending"
    <3>1. row[<<a, b>>] \in {"none", "rejected"}  BY <1>0, <1>5, <2>0, <2>2
    <3> QED  BY <1>0, <1>5, <2>0, <3>1
  <2> QED  BY <2>1, <2>2
<1>6. ASSUME NEW a \in Users, NEW b \in Users, a # b,
             row' = [p \in Pairs |-> IF p \in {<<a, b>>, <<b, a>>} THEN "none" ELSE row[p]]
      PROVE  Graph!Part(a, b)
  <2>1. /\ Asked' = Asked \ {<<a, b>>, <<b, a>>}
        /\ Accepted' = Accepted \ {<<a, b>>, <<b, a>>}
    BY <1>0, <1>6 DEF Asked, Accepted
  <2>2. Accepted \in SUBSET Pairs  BY DEF Accepted
  <2>3. Pals' = Pals \ {{a, b}}  BY <2>1, <2>2, CouplesLess DEF Pals
  <2> QED  BY <2>1, <2>3 DEF Graph!Part, Asked, Pals, Couples, Accepted
<1>7. CASE Add(t)  BY <1>0, <1>3, <1>7 DEF Add, At
<1>8. CASE BotAccept(t)  BY <1>0, <1>4, <1>8 DEF BotAccept, At
<1>9. CASE Accept(t)  BY <1>0, <1>4, <1>9 DEF Accept, At
<1>10. CASE Reject(t)
  <2>1. CASE UNCHANGED row  BY <2>1
  <2>2. CASE /\ req[t] # Idle /\ row[<<With(t), Op(t)>>] # "accepted"
             /\ row' = [row EXCEPT ![<<With(t), Op(t)>>] = IF @ = "none" THEN @ ELSE "rejected"]
    BY <1>0, <1>5, <2>2
  <2> QED  BY <1>10, <2>1, <2>2 DEF Reject, At
<1>11. CASE Remove(t)
  <2>1. CASE UNCHANGED row  BY <2>1
  <2>2. CASE /\ req[t] # Idle
             /\ row' = [p \in Pairs |-> IF p \in {<<Op(t), With(t)>>, <<With(t), Op(t)>>}
                                        THEN "none" ELSE row[p]]
    BY <1>0, <1>6, <2>2
  <2> QED  BY <1>11, <2>1, <2>2 DEF Remove, At, tables
<1> QED
  BY <1>7, <1>8, <1>9, <1>10, <1>11
  DEF Step, Arrive, Begin, AddFriend, AddAsked, AcceptAsked, RemoveFriend, RemarkFriend, Remark,
      Ask, tables

(* Refinement: the requests of all threads, with their questions and       *)
(* failures, implement the social graph until the first clash.             *)
THEOREM TablesAreGraph == Spec => ImplementsGraph
<1>1. Init => Graph!Init  BY DEF Init, Graph!Init, Pairs
<1>2. TypeOK /\ Mutual /\ Mutual' /\ [Next]_vars =>
        [Graph!Next]_<<Asked, Pals, clash # {}>>
  <2> SUFFICES ASSUME TypeOK, Mutual, Mutual', [Next]_vars
               PROVE  Graph!Next \/ UNCHANGED <<Asked, Pals, clash # {}>>
    OBVIOUS
  <2>1. CASE UNCHANGED vars  BY <2>1 DEF vars, Asked, Pals, Couples, Accepted
  <2>2. CASE clash' # {}  BY <2>2 DEF Graph!Next
  <2>3. CASE Next /\ clash' = {}
    <3>1. PICK t \in Threads : Step(t)  BY <2>3 DEF Next
    <3>2. clash \subseteq clash'
      BY <3>1 DEF Step, Arrive, Begin, AddFriend, AddAsked, Add, BotAccept, AcceptAsked, Accept,
                  Reject, RemoveFriend, Remove, RemarkFriend, Remark, Ask, Grant
    <3>3. CASE UNCHANGED row  BY <2>3, <3>2, <3>3 DEF Asked, Pals, Couples, Accepted
    <3>4. CASE \E a, b \in Users : a # b /\
            (Graph!Ask(a, b) \/ Graph!Accept(b, a) \/ Graph!Reject(b, a) \/ Graph!Part(a, b))
      BY <2>3, <3>2, <3>4 DEF Graph!Next
    <3> QED  BY <2>3, <3>1, <3>2, <3>3, <3>4, GraphStep
  <2> QED  BY <2>1, <2>2, <2>3
<1>3. TypeOK /\ Mutual /\ Mutual' /\ [Next]_vars =>
        [Graph!Next]_<<{p \in Pairs : row[p] = "pending"},
                       {{p[1], p[2]} : p \in {q \in Pairs : row[q] = "accepted"}}, clash # {}>>
  BY <1>2 DEF Asked, Pals, Couples, Accepted
<1> QED
  BY <1>1, <1>3, FriendTypes, FriendshipMutual, PTL DEF Spec, ImplementsGraph, Graph!Spec
=============================================================================
