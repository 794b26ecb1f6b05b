--------------------------- MODULE SessionsProofs ---------------------------
(***************************************************************************)
(* Proofs about Sessions for any sessions, accounts and pool threads.      *)
(* Tracked becomes inductive with the type invariant and the fact that the *)
(* sweep removes no session it has not closed.                             *)
(***************************************************************************)
EXTENDS Sessions, TLAPS

ClosedFirst == closing # None => sock[closing] = "closed"

SInv == TypeOK /\ ClosedFirst /\ Tracked

(* Init establishes the invariant. *)
LEMMA SessionInit == Init => SInv
  <1> SUFFICES ASSUME Init PROVE SInv
    OBVIOUS
  <1> USE SessionAssumption DEF Init
  <1>1. \A t \in Threads : job[t].at = "idle"
    BY DEF Idle
  <1>2. job \in [Threads -> [at : {"idle", "login", "auth", "route", "logout", "close"},
                            s : Conns \cup {None}, u : Users \cup {None}]]
    BY DEF Idle
  <1>3. TypeOK
    <2>1. /\ sock \in [Conns -> {"new", "open", "gone", "closed"}]
          /\ route \in [Users -> Conns \cup {None}]
          /\ uid \in [Conns -> Users \cup {None}]
      OBVIOUS
    <2>2. auth \in [Conns -> BOOLEAN] /\ frozen \in BOOLEAN
      BY Zenon
    <2>3. age \in [Conns -> 0..2] /\ frames \in 0..MaxFrames
      OBVIOUS
    <2>4. /\ \A t \in Threads : ~At(t, "idle") => job[t].s \in Conns
          /\ \A t \in Threads :
               At(t, "login") \/ At(t, "auth") \/ At(t, "route") => job[t].u \in Users
      BY <1>1 DEF At
    <2> QED BY <1>2, <2>1, <2>2, <2>3, <2>4 DEF TypeOK
  <1>4. ClosedFirst /\ Tracked
    BY DEF ClosedFirst, Tracked
  <1> QED BY <1>3, <1>4 DEF SInv

(* The actions that leave the registry and the sockets alone. *)
LEMMA QuietStep ==
  ASSUME SInv, UNCHANGED <<sock, accepting, temp, route, closing, replaced>>
  PROVE  ClosedFirst' /\ Tracked'
  BY DEF SInv, ClosedFirst, Tracked, Listed

(* Every step keeps the types: the steps of the sessions themselves ... *)
LEMMA ConnTypes ==
  ASSUME SInv, NEW s \in Conns, Accept(s) \/ Disconnect(s) \/ Silence(s) \/ AddSession
  PROVE  TypeOK'
  <1>1. CASE Accept(s)
    BY <1>1 DEF SInv, TypeOK, Accept, account, At
  <1>2. CASE Disconnect(s)
    BY <1>2 DEF SInv, TypeOK, Disconnect, account, registry, At
  <1>3. CASE Silence(s)
    BY <1>3 DEF SInv, TypeOK, Silence, account, registry, At
  <1>4. CASE AddSession
    BY <1>4 DEF SInv, TypeOK, AddSession, account, At
  <1> QED BY <1>1, <1>2, <1>3, <1>4

(* ... of their handlers ... *)
LEMMA HandlerTypes ==
  ASSUME SInv, NEW t \in Threads, Handle(t)
  PROVE  TypeOK'
  <1> USE SessionAssumption
  <1>1. CASE \E s \in Conns : Frame(t, s)
    <2> PICK s \in Conns : Frame(t, s)
      BY <1>1
    <2> QED BY DEF SInv, TypeOK, Frame, account, registry, At
  <1>2. CASE LoginUser(t)
    BY <1>2 DEF SInv, TypeOK, LoginUser, registry, At, Goto
  <1>3. CASE LoginAuth(t)
    BY <1>3 DEF SInv, TypeOK, LoginAuth, registry, At, Goto
  <1>4. CASE SetUserOnline(t)
    <2>1. job[t].s \in Conns /\ job[t].u \in Users
      BY <1>4 DEF SInv, TypeOK, SetUserOnline, At
    <2>2. route' \in [Users -> Conns \cup {None}] /\ replaced' \in SUBSET Conns
      BY <1>4, <2>1 DEF SInv, TypeOK, SetUserOnline
    <2> QED BY <1>4, <2>1, <2>2 DEF SInv, TypeOK, SetUserOnline, account, At, Done, Idle
  <1>5. CASE LogoutUnauth(t)
    BY <1>5 DEF SInv, TypeOK, LogoutUnauth, registry, At, Goto
  <1>6. CASE LogoutClose(t)
    BY <1>6 DEF SInv, TypeOK, LogoutClose, registry, account, At, Done, Idle
  <1> QED BY <1>1, <1>2, <1>3, <1>4, <1>5, <1>6 DEF Handle

(* ... and of the timer. *)
LEMMA TimerTypes ==
  ASSUME SInv, Timer
  PROVE  TypeOK'
  <1>1. CASE Collect
    <2>1. sweep' \in SUBSET ((Users \cup {"temp"}) \X Conns)
      <3> SUFFICES ASSUME NEW e \in sweep' PROVE e \in (Users \cup {"temp"}) \X Conns
        OBVIOUS
      <3>1. CASE \E s \in temp : e = <<"temp", s>>
        BY <3>1 DEF SInv, TypeOK
      <3>2. CASE \E u \in Users : route[u] # None /\ e = <<u, route[u]>>
        BY <3>2 DEF SInv, TypeOK
      <3> QED BY <1>1, <3>1, <3>2 DEF Collect
    <2> QED BY <1>1, <2>1 DEF SInv, TypeOK, Collect, account, At
  <1>2. CASE CloseSwept
    <2> PICK e \in sweep : /\ sock' = [sock EXCEPT ![e[2]] = "closed"]
                           /\ sweep' = sweep \ {e}
                           /\ closing' = e[2]
      BY <1>2 DEF CloseSwept
    <2>1. e[2] \in Conns
      BY DEF SInv, TypeOK
    <2> QED BY <1>2, <2>1 DEF SInv, TypeOK, CloseSwept, account, At
  <1>3. CASE RemoveSession
    BY <1>3 DEF SInv, TypeOK, RemoveSession, account, At
  <1> QED BY <1>1, <1>2, <1>3 DEF Timer

(* Every step keeps the sessions listed: those of the sessions themselves, *)
LEMMA ConnTracked ==
  ASSUME SInv, NEW s \in Conns, Accept(s) \/ Disconnect(s) \/ Silence(s) \/ AddSession
  PROVE  ClosedFirst' /\ Tracked'
  <1> USE SessionAssumption
  <1>1. CASE Accept(s)
    <2>1. ClosedFirst'
      BY <1>1 DEF SInv, TypeOK, ClosedFirst, Accept
    <2>2. Tracked'
      BY <1>1 DEF SInv, TypeOK, Tracked, Listed, Accept
    <2> QED BY <2>1, <2>2
  <1>2. CASE Disconnect(s)
    <2>1. ClosedFirst'
      BY <1>2 DEF SInv, TypeOK, ClosedFirst, Disconnect, registry
    <2>2. Tracked'
      BY <1>2 DEF SInv, TypeOK, Tracked, Listed, Disconnect, registry
    <2> QED BY <2>1, <2>2
  <1>3. CASE Silence(s)
    BY <1>3, QuietStep DEF Silence, registry
  <1>4. CASE AddSession
    <2>1. ClosedFirst'
      BY <1>4 DEF SInv, ClosedFirst, AddSession
    <2>2. Tracked'
      BY <1>4 DEF SInv, TypeOK, Tracked, Listed, AddSession
    <2> QED BY <2>1, <2>2
  <1> QED BY <1>1, <1>2, <1>3, <1>4

(* a login, which lists the session anew and takes at most one other down, *)
LEMMA LoginTracked ==
  ASSUME SInv, NEW t \in Threads, SetUserOnline(t)
  PROVE  Tracked'
  <1> USE SessionAssumption
  <1> DEFINE s == job[t].s
             u == job[t].u
  <1>1. s \in Conns /\ u \in Users
    BY DEF SInv, TypeOK, SetUserOnline, At
  <1>2. /\ route' = [v \in Users |-> IF v = u THEN s ELSE IF route[v] = s THEN None ELSE route[v]]
        /\ temp' = temp \ {s}
        /\ replaced' = replaced \cup ({route[u]} \ {s, None})
        /\ sock' = sock /\ accepting' = accepting
    BY DEF SetUserOnline
  <1> HIDE DEF s, u
  <1>3. ASSUME NEW x \in Conns, sock[x] \in {"open", "gone"}, accepting # x, x \notin replaced'
        PROVE  Listed(x)'
    <2>1. CASE x = s
      BY <1>1, <1>2, <2>1 DEF Listed
    <2>2. CASE x # s
      <3>1. Listed(x)
        BY <1>2, <1>3 DEF SInv, Tracked
      <3>2. CASE x \in temp
        BY <1>2, <2>2, <3>2 DEF Listed
      <3>3. CASE \E v \in Users : route[v] = x
        <4> PICK v \in Users : route[v] = x
          BY <3>3
        <4>1. v # u
          BY <1>2, <1>3, <2>2
        <4> QED BY <1>2, <2>2, <4>1 DEF Listed
      <3> QED BY <3>1, <3>2, <3>3 DEF Listed
    <2> QED BY <2>1, <2>2
  <1>4. \A v, w \in Users : route'[v] # None /\ route'[v] = route'[w] => v = w
    BY <1>1, <1>2 DEF SInv, Tracked
  <1> QED BY <1>2, <1>3, <1>4 DEF Tracked

(* the other steps of a handler, *)
LEMMA HandlerTracked ==
  ASSUME SInv, NEW t \in Threads, Handle(t)
  PROVE  ClosedFirst' /\ Tracked'
  <1>1. CASE SetUserOnline(t)
    <2>1. ClosedFirst'
      BY <1>1 DEF SInv, ClosedFirst, SetUserOnline
    <2> QED BY <1>1, <2>1, LoginTracked
  <1>2. CASE LogoutClose(t)
    <2>1. job[t].s \in Conns
      BY <1>2 DEF SInv, TypeOK, LogoutClose, At
    <2>2. ClosedFirst'
      BY <1>2, <2>1, SessionAssumption DEF SInv, TypeOK, ClosedFirst, LogoutClose, registry
    <2>3. Tracked'
      BY <1>2, <2>1 DEF SInv, TypeOK, Tracked, Listed, LogoutClose, registry
    <2> QED BY <2>2, <2>3
  <1>3. CASE (\E s \in Conns : Frame(t, s)) \/ LoginUser(t) \/ LoginAuth(t) \/ LogoutUnauth(t)
    BY <1>3, QuietStep DEF Frame, LoginUser, LoginAuth, LogoutUnauth, registry
  <1> QED BY <1>1, <1>2, <1>3 DEF Handle

(* and those of the timer. *)
LEMMA TimerTracked ==
  ASSUME SInv, Timer
  PROVE  ClosedFirst' /\ Tracked'
  <1> USE SessionAssumption
  <1>1. CASE Collect
    BY <1>1, QuietStep DEF Collect
  <1>2. CASE CloseSwept
    <2> PICK e \in sweep : /\ sock' = [sock EXCEPT ![e[2]] = "closed"]
                           /\ closing' = e[2]
      BY <1>2 DEF CloseSwept
    <2>1. e[2] \in Conns
      BY DEF SInv, TypeOK
    <2>2. ClosedFirst'
      BY <2>1 DEF SInv, TypeOK, ClosedFirst
    <2>3. Tracked'
      BY <1>2, <2>1 DEF SInv, TypeOK, Tracked, Listed, CloseSwept
    <2> QED BY <2>2, <2>3
  <1>3. CASE RemoveSession
    <2>1. closing \in Conns /\ sock[closing] = "closed"
      BY <1>3 DEF SInv, TypeOK, ClosedFirst, RemoveSession
    <2>2. ClosedFirst'
      BY <1>3 DEF SInv, ClosedFirst, RemoveSession
    <2>3. Tracked'
      BY <1>3, <2>1 DEF SInv, TypeOK, Tracked, Listed, RemoveSession
    <2> QED BY <2>2, <2>3
  <1> QED BY <1>1, <1>2, <1>3 DEF Timer

(* The invariant is inductive. *)
LEMMA SessionStep == SInv /\ [Next]_vars => SInv'
  <1> SUFFICES ASSUME SInv, [Next]_vars PROVE SInv'
    OBVIOUS
  <1>1. CASE \E s \in Conns : Accept(s) \/ Disconnect(s) \/ Silence(s)
    BY <1>1, ConnTypes, ConnTracked DEF SInv
  <1>2. CASE AddSession
    <2>1. accepting \in Conns
      BY <1>2 DEF SInv, TypeOK, AddSession
    <2> QED BY <1>2, <2>1, ConnTypes, ConnTracked DEF SInv
  <1>3. CASE \E t \in Threads : Handle(t)
    BY <1>3, HandlerTypes, HandlerTracked DEF SInv
  <1>4. CASE Timer
    BY <1>4, TimerTypes, TimerTracked DEF SInv
  <1>5. CASE UNCHANGED vars
    <2>1. TypeOK'
      BY <1>5 DEF SInv, TypeOK, At, vars
    <2> QED BY <1>5, <2>1, QuietStep DEF SInv, vars
  <1> QED BY <1>1, <1>2, <1>3, <1>4, <1>5 DEF Next

(* The inductive invariant holds in every reachable state of the registry. *)
THEOREM SessionInvariance == Spec => []SInv
  BY SessionInit, SessionStep, PTL DEF Spec

(* Type correctness of the registry, the handlers and the sweep. *)
THEOREM SessionTypes == Spec => []TypeOK
  <1>1. SInv => TypeOK
    BY DEF SInv
  <1> QED BY <1>1, SessionInvariance, PTL

(* No session of server.cpp gets out of the sweep's sight while it is open, *)
(* and none is listed for two accounts.                                     *)
THEOREM NobodyForgotten == Spec => []Tracked
  <1>1. SInv => Tracked
    BY DEF SInv
  <1> QED BY <1>1, SessionInvariance, PTL
=============================================================================
