--------------------------- MODULE SessionsClaims ---------------------------
(***************************************************************************)
(* What the comments and messages of server.cpp say of the sessions and    *)
(* the code does not keep.                                                 *)
(***************************************************************************)
EXTENDS Sessions

(* The sweep works outside the lock, so that it holds nobody up.           *)
NeverFrozen == ~frozen

(* set_user_online moves the session from its temporary id to the user's.  *)
ListedOnce == \A u \in Users : route[u] \notin temp

(* A route leads to a session that is logged in as its user, unless a      *)
(* login is under way.                                                     *)
RouteIsUser ==
  \A u \in Users : route[u] # None /\ (\A t \in Threads : At(t, "idle")) => uid[route[u]] = u

(* The sweep closes sessions that are silent.                              *)
SweptSilent == [][\A s \in Conns : closing # s /\ closing' = s => age[s] = 2]_vars

(* A session that is replaced does not stay open for ever.                 *)
ReplacedCloses == \A s \in Conns : (s \in replaced) ~> (sock[s] # "open" \/ Listed(s) \/ frozen)
=============================================================================
