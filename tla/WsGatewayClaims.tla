-------------------------- MODULE WsGatewayClaims --------------------------
(***************************************************************************)
(* What the comments and documents of the repository say about the         *)
(* connection layer and the code does not keep.  Each is refuted by a run. *)
(***************************************************************************)
EXTENDS WsGateway

Serving(c) == pc[c] \in {"check", "poll", "recv", "blocked"} /\ ~isClosed[c]
Quiet == \A c \in Conns :
           /\ pc[c] \in {"new", "check", "poll", "recv", "blocked", "stranded", "done"}
           /\ Free(c)

(* handle_login, gateway_main.cpp:239: the old connection of the account   *)
(* is kicked, so an account is served on one connection at a time.         *)
OneLiveLogin ==
  \A c, d \in Conns :
    Serving(c) /\ Serving(d) /\ uid[c] = uid[d] /\ uid[c] # NoUser => c = d

(* handle_login, gateway_main.cpp:251: logging in updates the online       *)
(* status.  Once all threads are at rest an account that is served is      *)
(* ONLINE in the database.                                                 *)
StatusFollowsLogin ==
  Quiet => \A u \in Users :
             LET c == userConns[u] IN
             c # NoConn /\ Serving(c) /\ uid[c] = u => status[u] = "ONLINE"

(* heartbeat_loop, websocket_server.cpp:604: a connection that timed out   *)
(* is removed.                                                             *)
SweptIsRemoved ==
  [][hbCur # NoConn /\ hbCur' = NoConn
       => hbCur \notin Range(connections')]_vars

(* handle_private_message, gateway_main.cpp:357: an offline receiver gets  *)
(* a push.  The code takes an account with a route for online, so a route  *)
(* should not outlive the thread of its connection.                        *)
RoutesAreLive ==
  \A u \in Users : userConns[u] # NoConn => pc[userConns[u]] # "done"

(* handle_private_message, gateway_main.cpp:339: the message is sent to    *)
(* its receiver.  The socket it is written to is served for that account.  *)
ReceiverGetsIt ==
  [][\A c \in Conns :
       LET d == owner[wfd[c]] IN
       pc[c] = "write" /\ pc'[c] = "frame" /\ d # NoConn => uid[d] = want[c]]_vars

(* websocket_server.hpp:235: connections_ maps a socket to its connection. *)
(* A connection that is being served is in it, so that the heartbeat and   *)
(* stop() reach it.                                                        *)
ServedIsListed ==
  \A c \in Conns : Serving(c) /\ mainPc # "stopped" => connections[sock[c]] = c

(* main, gateway_main.cpp:1237: Ctrl+C stops the server.  The stop() that  *)
(* SIGINT calls comes to its end.                                          *)
StopCompletes == mainPc = "joinAccept" ~> mainPc = "stopped"

(* handle_new_connection, websocket_server.cpp:498: poll() waits a second  *)
(* only, so that the loop gets to look at running_, and at closed_ with    *)
(* it.  The thread of a connection that has ended is not kept by recv().   *)
NotStuckInRecv ==
  \A c \in Conns : Ending(c) ~> pc[c] # "stranded" \/ Stalling

(* heartbeat_loop, websocket_server.cpp:603: connections that timed out    *)
(* are removed.  So a client that does not read delays its own end only.   *)
StalledAlone ==
  \A c \in Conns :
    Ending(c) ~> \/ pc[c] \in {"done", "stranded"} /\ c \notin Range(owner)
                 \/ peer[c] = "stalls"
============================================================================
