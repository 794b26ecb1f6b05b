------------------------------ MODULE Sessions ------------------------------
(***************************************************************************)
(* The session registry of the TCP server (server.cpp) and the handlers of *)
(* session.cpp that change it: accept, login, logout and the heartbeat     *)
(* timer that sweeps silent sessions.  get_session, is_user_active,        *)
(* send_to_user and broadcast only look sessions up.                       *)
(*                                                                         *)
(* sessions_ maps a user id, or a temporary id before the first login, to  *)
(* a session; each critical section of sessions_mutex_ is one step.  The   *)
(* handlers of one session run on any threads of the pool, several at a    *)
(* time.  Nothing is removed when a connection drops: only a sweep does it. *)
(***************************************************************************)
EXTENDS Naturals

CONSTANTS
  Conns,      \* sessions, each accepted once
  Users,      \* accounts
  Threads,    \* pool threads
  None,       \* no session, user or job
  MaxFrames   \* bound: frames handled

ASSUME SessionAssumption == None \notin Conns \cup Users /\ MaxFrames \in Nat

VARIABLES
  sock,       \* sock[s]: "new", "open", "gone" (the client left) or "closed"
  accepting,  \* the session handle_accept has started and not yet registered
  temp,       \* sessions under a temporary id
  route,      \* route[u]: the session under user id u, or None
  uid, auth,  \* user_id_ and authenticated_ of each session
  age,        \* 0: heard within heartbeat_timeout, 1: within two, 2: longer ago
  job,        \* job[t]: the handler thread t runs: next call, session and user
  sweep,      \* the entries <<id, session>> the timer collected and has yet to remove
  closing,    \* the session of the sweep that is closed and not yet removed
  frozen,     \* remove_session holds sessions_mutex_ and waits for it
  frames,     \* frames still to come
  replaced    \* history: sessions whose route another login took

vars == <<sock, accepting, temp, route, uid, auth, age, job, sweep, closing, frozen, frames,
          replaced>>
registry == <<accepting, temp, route, sweep, closing, frozen, replaced>>
account == <<uid, auth>>

Idle == [at |-> "idle", s |-> None, u |-> None]

Init ==
  /\ sock = [s \in Conns |-> "new"]
  /\ accepting = None
  /\ temp = {}
  /\ route = [u \in Users |-> None]
  /\ uid = [s \in Conns |-> None]
  /\ auth = [s \in Conns |-> FALSE]
  /\ age = [s \in Conns |-> 0]
  /\ job = [t \in Threads |-> Idle]
  /\ sweep = {}
  /\ closing = None
  /\ frozen = FALSE
  /\ frames = MaxFrames
  /\ replaced = {}

Listed(s) == s \in temp \/ \E u \in Users : route[u] = s

-----------------------------------------------------------------------------
\* handle_accept starts the session, which may read and log in from now on ...
Accept(s) ==
  /\ accepting = None
  /\ sock[s] = "new"
  /\ sock' = [sock EXCEPT ![s] = "open"]
  /\ accepting' = s
  /\ UNCHANGED <<temp, route, sweep, closing, frozen, replaced, account, age, job, frames>>

\* ... and registers it under a temporary id.
AddSession ==
  /\ accepting # None /\ ~frozen
  /\ temp' = temp \cup {accepting}
  /\ accepting' = None
  /\ UNCHANGED <<sock, route, sweep, closing, frozen, replaced, account, age, job, frames>>

\* The client leaves and the read ends; a frame that does not parse or a write that
\* fails closes the socket, the write also when the read has ended.
Disconnect(s) ==
  /\ sock[s] \in {"open", "gone"}
  /\ \E x \in {"gone", "closed"} : sock' = [sock EXCEPT ![s] = x]
  /\ UNCHANGED <<registry, account, age, job, frames>>

Silence(s) ==
  /\ sock[s] # "new" /\ age[s] < 2
  /\ age' = [age EXCEPT ![s] = @ + 1]
  /\ UNCHANGED <<sock, registry, account, job, frames>>

-----------------------------------------------------------------------------
At(t, at) == job[t].at = at
Goto(t, at) == job' = [job EXCEPT ![t].at = at]
Done(t) == job' = [job EXCEPT ![t] = Idle]

\* handle_message of a frame that was read before the socket closed or that still comes.
Frame(t, s) ==
  /\ At(t, "idle") /\ frames > 0 /\ sock[s] # "new"
  /\ frames' = frames - 1
  /\ age' = [age EXCEPT ![s] = 0]
  /\ \/ \E u \in Users : job' = [job EXCEPT ![t] = [at |-> "login", s |-> s, u |-> u]]
     \/ auth[s] /\ job' = [job EXCEPT ![t] = [at |-> "logout", s |-> s, u |-> None]]
     \/ UNCHANGED job   \* refused, a heartbeat, or a request that leaves the registry alone
  /\ UNCHANGED <<sock, registry, account>>

\* handle_login, the password verified: set_user_id, set_authenticated, ...
LoginUser(t) ==
  /\ At(t, "login")
  /\ uid' = [uid EXCEPT ![job[t].s] = job[t].u]
  /\ Goto(t, "auth")
  /\ UNCHANGED <<sock, registry, auth, age, frames>>

LoginAuth(t) ==
  /\ At(t, "auth")
  /\ auth' = [auth EXCEPT ![job[t].s] = TRUE]
  /\ Goto(t, "route")
  /\ UNCHANGED <<sock, registry, uid, age, frames>>

\* ... set_user_online: the session leaves all other ids and takes the user's.
SetUserOnline(t) ==
  LET s == job[t].s  u == job[t].u IN
  /\ At(t, "route") /\ ~frozen
  /\ temp' = temp \ {s}
  /\ route' = [v \in Users |-> IF v = u THEN s ELSE IF route[v] = s THEN None ELSE route[v]]
  /\ replaced' = replaced \cup ({route[u]} \ {s, None})
  /\ Done(t)
  /\ UNCHANGED <<sock, accepting, sweep, closing, frozen, account, age, frames>>

\* handle_logout: authenticated_, then the socket; the entry stays.
LogoutUnauth(t) ==
  /\ At(t, "logout")
  /\ auth' = [auth EXCEPT ![job[t].s] = FALSE]
  /\ Goto(t, "close")
  /\ UNCHANGED <<sock, registry, uid, age, frames>>

LogoutClose(t) ==
  /\ At(t, "close")
  /\ sock' = [sock EXCEPT ![job[t].s] = "closed"]
  /\ Done(t)
  /\ UNCHANGED <<registry, account, age, frames>>

-----------------------------------------------------------------------------
\* check_heartbeats collects under the mutex; a session under two ids comes twice.
Collect ==
  /\ sweep = {} /\ closing = None /\ ~frozen
  /\ sweep' = {<<"temp", s>> : s \in {x \in temp : age[x] = 2}} \cup
              {<<u, route[u]>> : u \in {v \in Users : route[v] # None /\ age[route[v]] = 2}}
  /\ UNCHANGED <<sock, accepting, temp, route, closing, frozen, replaced, account, age, job,
                 frames>>

\* Mutant of CloseSwept: only a session that is logged in is closed.
CloseLoggedIn ==
  /\ closing = None
  /\ \E e \in sweep :
       /\ sock' = IF auth[e[2]] THEN [sock EXCEPT ![e[2]] = "closed"] ELSE sock
       /\ sweep' = sweep \ {e}
       /\ closing' = e[2]
  /\ UNCHANGED <<accepting, temp, route, frozen, replaced, account, age, job, frames>>

CloseSwept ==
  /\ closing = None
  /\ \E e \in sweep :
       /\ sock' = [sock EXCEPT ![e[2]] = "closed"]
       /\ sweep' = sweep \ {e}
       /\ closing' = e[2]
  /\ UNCHANGED <<accepting, temp, route, frozen, replaced, account, age, job, frames>>

\* Mutant of RemoveSession: every entry of the user goes, whoever holds it.
RemoveByUser ==
  /\ closing # None /\ ~frozen
  /\ temp' = temp \ {closing}
  /\ route' = [u \in Users |-> IF u = uid[closing] THEN None ELSE route[u]]
  /\ closing' = None
  /\ UNCHANGED <<sock, accepting, sweep, frozen, replaced, account, age, job, frames>>

(***************************************************************************)
(* remove_session erases the first entry of the session; user ids come     *)
(* before temporary ones.  If the session is logged in, it calls           *)
(* set_user_offline, which locks the mutex remove_session holds.           *)
(***************************************************************************)
RemoveSession ==
  /\ closing # None /\ ~frozen
  /\ IF Listed(closing) /\ auth[closing]
     THEN frozen' = TRUE /\ UNCHANGED <<temp, route, closing>>
     ELSE /\ \/ \E u \in Users : route[u] = closing /\ route' = [route EXCEPT ![u] = None]
                                 /\ UNCHANGED temp
             \/ /\ \A u \in Users : route[u] # closing
                /\ temp' = temp \ {closing}
                /\ UNCHANGED route
          /\ closing' = None
          /\ UNCHANGED frozen
  /\ UNCHANGED <<sock, accepting, sweep, replaced, account, age, job, frames>>

-----------------------------------------------------------------------------
Handle(t) ==
  \/ \E s \in Conns : Frame(t, s)
  \/ LoginUser(t) \/ LoginAuth(t) \/ SetUserOnline(t)
  \/ LogoutUnauth(t) \/ LogoutClose(t)

Timer == Collect \/ CloseSwept \/ RemoveSession

Next ==
  \/ \E s \in Conns : Accept(s) \/ Disconnect(s) \/ Silence(s)
  \/ AddSession
  \/ \E t \in Threads : Handle(t)
  \/ Timer

Spec == Init /\ [][Next]_vars

(* The timer rearms itself for ever; a tick that collects nothing is a     *)
(* stuttering step.  Nothing is asked of the clients and the handlers.     *)
FairSpec == Spec /\ WF_vars(Collect) /\ WF_vars(CloseSwept) /\ WF_vars(RemoveSession)

-----------------------------------------------------------------------------
TypeOK ==
  /\ sock \in [Conns -> {"new", "open", "gone", "closed"}]
  /\ accepting \in Conns \cup {None}
  /\ temp \in SUBSET Conns
  /\ route \in [Users -> Conns \cup {None}]
  /\ uid \in [Conns -> Users \cup {None}]
  /\ auth \in [Conns -> BOOLEAN]
  /\ age \in [Conns -> 0..2]
  /\ job \in [Threads -> [at : {"idle", "login", "auth", "route", "logout", "close"},
                          s : Conns \cup {None}, u : Users \cup {None}]]
  /\ \A t \in Threads : ~At(t, "idle") => job[t].s \in Conns
  /\ \A t \in Threads : At(t, "login") \/ At(t, "auth") \/ At(t, "route") => job[t].u \in Users
  /\ sweep \in SUBSET ((Users \cup {"temp"}) \X Conns)
  /\ closing \in Conns \cup {None}
  /\ frozen \in BOOLEAN
  /\ frames \in 0..MaxFrames
  /\ replaced \in SUBSET Conns

(* Every session stays listed, where the sweep can find it, until a login  *)
(* elsewhere takes its place or the sweep has closed it: no race between   *)
(* registration, login and removal loses one.  And none is listed for two  *)
(* accounts, whatever logins it mixes.                                     *)
Tracked ==
  /\ \A s \in Conns :
       sock[s] \in {"open", "gone"} /\ accepting # s /\ s \notin replaced => Listed(s)
  /\ \A u, v \in Users : route[u] # None /\ route[u] = route[v] => u = v

(* A session that stays silent is closed and forgotten, even if it is      *)
(* listed twice or a login brings it back, unless a login elsewhere has    *)
(* replaced it or the server is frozen.                                    *)
SilentSwept ==
  \A s \in Conns :
    (Listed(s) /\ age[s] = 2) ~>
      \/ ~Listed(s) /\ (sock[s] = "closed" \/ s \in replaced)
      \/ age[s] # 2
      \/ frozen
=============================================================================
