------------------------------ MODULE WsGateway ------------------------------
(***************************************************************************)
(* The connection layer of gateway_server: WebSocketServer and             *)
(* WsConnection (websocket_server.cpp) with the login, private-message and *)
(* disconnect handlers that gateway_main.cpp plugs into them.              *)
(*                                                                         *)
(* Every accepted connection has a detached handler thread of its own, so  *)
(* a member of Conns names a client's TCP connection, the WsConnection     *)
(* object made for it and the thread that serves it.  Heartbeat is the     *)
(* thread of heartbeat_loop, Main the thread that runs the signal handler, *)
(* and the accept thread has the program counter acceptPc.                 *)
(*                                                                         *)
(* The grain is one step per critical section of conn_mutex_, per database *)
(* call, per system call, and per unsynchronised access to a field that    *)
(* another thread uses.                                                    *)
(***************************************************************************)
EXTENDS Naturals, FiniteSets, Functions

CONSTANTS
  Conns,        \* connections accepted in a behaviour
  Users,        \* accounts (user_id > 0)
  Fds,          \* descriptor numbers the kernel hands out
  Heartbeat,    \* heartbeat_thread_
  Main,         \* the thread that runs signal_handler
  NoConn, NoUser, NoFd,   \* nullptr, user_id_ = 0, socket_ = -1
  MaxFrames,    \* bound: login and privateMessage frames of all clients together
  SweepAllowed, \* bound: whether heartbeat_interval may elapse
  Stallers,     \* bound: the connections whose clients may stop reading
  StopAllowed   \* bound: whether SIGINT may arrive

Threads == Conns \cup {Heartbeat, Main}

ASSUME ConstAssumption ==
  /\ NoConn \notin Threads
  /\ NoUser \notin Users
  /\ NoFd \notin Fds
  /\ {Heartbeat, Main} \cap Conns = {}
  /\ Heartbeat # Main
  /\ MaxFrames \in Nat
  /\ Stallers \subseteq Conns
  /\ {SweepAllowed, StopAllowed} \subseteq BOOLEAN

VARIABLES
  \* the kernel and the clients
  owner,      \* owner[f]: whose socket descriptor f is, NoConn when f is free
  peer,       \* peer[c]: the client "reads" what it is sent, "stalls", or is "gone"
  frames,     \* login and privateMessage frames dispatched so far
  \* WsConnection
  isClosed,   \* closed_ (TRUE too for an object that is not made yet)
  sock,       \* socket_
  uid,        \* user_id_ (authenticated_ is set with it and never reset)
  \* handler threads
  pc,         \* where c's thread is in handle_new_connection and its callees
  lfd,        \* client_socket, the thread's own copy of the descriptor
  want,       \* the account a login or message being handled is about
  other,      \* existing_conn / receiver_conn of the handler that runs
  wfd,        \* the descriptor send_raw loaded for its ::send
  \* WebSocketServer
  connections, userConns, running,
  \* all threads
  closing,    \* closing[t]: the connection whose close() t is inside of
  closeStep,  \* closeStep[t]: what that close() does next
  hbPc, hbSet, hbCur,     \* heartbeat_loop: to_remove, and the one in hand
  acceptPc, mainPc, mainSet,
  \* the database
  status      \* users.online_status

kernelVars == <<owner, peer>>
closeVars  == <<isClosed, closing, closeStep>>
connVars   == <<closeVars, sock>>
localVars  == <<uid, lfd, want, other, wfd, frames>>
tableVars  == <<connections, userConns>>
hbVars     == <<hbPc, hbSet, hbCur>>
stopVars   == <<running, acceptPc, mainPc, mainSet>>
vars == <<kernelVars, connVars, localVars, pc, tableVars, hbVars, stopVars, status>>

PcValues == {"new", "handshake", "check", "poll", "recv", "blocked", "stranded", "frame",
             "login", "kick", "kicked", "bind", "register", "online",
             "lookup", "send", "write", "remove", "offline", "done"}

Init ==
  /\ owner = [f \in Fds |-> NoConn]
  /\ peer = [c \in Conns |-> "reads"]
  /\ frames = 0
  /\ isClosed = [c \in Conns |-> TRUE]
  /\ sock = [c \in Conns |-> NoFd]
  /\ uid = [c \in Conns |-> NoUser]
  /\ pc = [c \in Conns |-> "new"]
  /\ lfd = [c \in Conns |-> NoFd]
  /\ want = [c \in Conns |-> NoUser]
  /\ other = [c \in Conns |-> NoConn]
  /\ wfd = [c \in Conns |-> NoFd]
  /\ connections = [f \in Fds |-> NoConn]
  /\ userConns = [u \in Users |-> NoConn]
  /\ running = TRUE
  /\ closing = [t \in Threads |-> NoConn]
  /\ closeStep = [t \in Threads |-> "none"]
  /\ hbPc = "sleep" /\ hbSet = {} /\ hbCur = NoConn
  /\ acceptPc = "loop" /\ mainPc = "serving" /\ mainSet = {}
  /\ status = [u \in Users |-> "OFFLINE"]

-----------------------------------------------------------------------------
(***************************************************************************)
(* WsConnection::close().  compare_exchange on closed_ lets one thread in; *)
(* it shuts the socket down, releases the descriptor and only then writes  *)
(* socket_ = -1.  A thread inside close() does nothing else meanwhile.     *)
(***************************************************************************)
\* Mutant of Close: socket_ is tested instead of exchanging closed_.
CloseIfOpen(t, c) ==
  IF sock[c] = NoFd
    THEN UNCHANGED closeVars
    ELSE /\ isClosed' = [isClosed EXCEPT ![c] = TRUE]
         /\ closing' = [closing EXCEPT ![t] = c]
         /\ closeStep' = [closeStep EXCEPT ![t] = "release"]

Close(t, c) ==
  IF isClosed[c]
    THEN UNCHANGED closeVars
    ELSE /\ isClosed' = [isClosed EXCEPT ![c] = TRUE]
         /\ closing' = [closing EXCEPT ![t] = c]
         /\ closeStep' = [closeStep EXCEPT ![t] = "release"]

CloseRelease(t) ==
  /\ closeStep[t] = "release"
  /\ owner' = [owner EXCEPT ![sock[closing[t]]] = NoConn]
  /\ closeStep' = [closeStep EXCEPT ![t] = "clear"]
  /\ UNCHANGED <<peer, isClosed, sock, closing, localVars, pc, tableVars,
                 hbVars, stopVars, status>>

\* Mutant of CloseClear: socket_ keeps the released number.
CloseKeepsNumber(t) ==
  /\ closeStep[t] = "clear"
  /\ closing' = [closing EXCEPT ![t] = NoConn]
  /\ closeStep' = [closeStep EXCEPT ![t] = "none"]
  /\ UNCHANGED <<kernelVars, isClosed, sock, localVars, pc, tableVars, hbVars, stopVars,
                 status>>

CloseClear(t) ==
  /\ closeStep[t] = "clear"
  /\ sock' = [sock EXCEPT ![closing[t]] = NoFd]
  /\ closing' = [closing EXCEPT ![t] = NoConn]
  /\ closeStep' = [closeStep EXCEPT ![t] = "none"]
  /\ UNCHANGED <<kernelVars, isClosed, localVars, pc, tableVars, hbVars, stopVars,
                 status>>

Free(t) == closing[t] = NoConn

(***************************************************************************)
(* conn_mutex_ is held across more than one step only by the loops of the  *)
(* heartbeat sweep and of stop(), which close connections inside them.     *)
(***************************************************************************)
MutexFree == hbPc # "sweep" /\ mainPc # "closing"

At(c, label) == pc[c] = label /\ Free(c)
Goto(c, label) == pc' = [pc EXCEPT ![c] = label]

(***************************************************************************)
(* A frame written to a client that is gone may fail; send_raw then closes *)
(* the connection.                                                         *)
(***************************************************************************)
ReplyTo(t, c) ==
  \/ UNCHANGED closeVars
  \/ peer[c] = "gone" /\ Close(t, c)

-----------------------------------------------------------------------------
(***************************************************************************)
(* accept_loop and the start of handle_new_connection.                     *)
(***************************************************************************)
AcceptLoop ==
  /\ acceptPc = "loop"
  /\ acceptPc' = IF running THEN "blocked" ELSE "exited"
  /\ UNCHANGED <<kernelVars, connVars, localVars, pc, tableVars, hbVars,
                 running, mainPc, mainSet, status>>

\* accept() fails and the loop goes round.
AcceptFail ==
  /\ acceptPc = "blocked"
  /\ acceptPc' = "loop"
  /\ UNCHANGED <<kernelVars, connVars, localVars, pc, tableVars, hbVars,
                 running, mainPc, mainSet, status>>

\* accept() returns a descriptor that no open socket uses.  closing
\* listen_socket_ in stop() does not wake a thread blocked in accept().
Accept(c, f) ==
  /\ acceptPc = "blocked"
  /\ pc[c] = "new"
  /\ owner[f] = NoConn
  /\ owner' = [owner EXCEPT ![f] = c]
  /\ lfd' = [lfd EXCEPT ![c] = f]
  /\ Goto(c, "handshake")
  /\ acceptPc' = "loop"
  /\ UNCHANGED <<peer, connVars, uid, want, other, wfd, frames, tableVars,
                 hbVars, running, mainPc, mainSet, status>>

\* No upgrade request within 5 s, or a bad one: the thread closes its socket.
HandshakeFail(c) ==
  /\ At(c, "handshake")
  /\ owner' = [owner EXCEPT ![lfd[c]] = NoConn]
  /\ Goto(c, "done")
  /\ UNCHANGED <<peer, connVars, localVars, tableVars, hbVars, stopVars, status>>

\* Mutant of HandshakeOk: emplace, which keeps a stale entry.
HandshakeEmplaces(c) ==
  /\ At(c, "handshake")
  /\ MutexFree
  /\ isClosed' = [isClosed EXCEPT ![c] = FALSE]
  /\ sock' = [sock EXCEPT ![c] = lfd[c]]
  /\ connections' = [connections EXCEPT ![lfd[c]] = IF @ = NoConn THEN c ELSE @]
  /\ Goto(c, "check")
  /\ UNCHANGED <<kernelVars, closing, closeStep, localVars, userConns, hbVars, stopVars, status>>

\* The WsConnection is made and entered in connections_ under its descriptor.
HandshakeOk(c) ==
  /\ At(c, "handshake")
  /\ MutexFree
  /\ isClosed' = [isClosed EXCEPT ![c] = FALSE]
  /\ sock' = [sock EXCEPT ![c] = lfd[c]]
  /\ connections' = [connections EXCEPT ![lfd[c]] = c]
  /\ Goto(c, "check")
  /\ UNCHANGED <<kernelVars, closing, closeStep, localVars, userConns, hbVars, stopVars, status>>

\* Mutant of LoopCheck: while (running_).
LoopUntilStopped(c) ==
  /\ At(c, "check")
  /\ Goto(c, IF running THEN "poll" ELSE "remove")
  /\ UNCHANGED <<kernelVars, connVars, localVars, tableVars, hbVars, stopVars, status>>

\* while (running_ && !conn->is_closed())
LoopCheck(c) ==
  /\ At(c, "check")
  /\ Goto(c, IF running /\ ~isClosed[c] THEN "poll" ELSE "remove")
  /\ UNCHANGED <<kernelVars, connVars, localVars, tableVars, hbVars, stopVars, status>>

(***************************************************************************)
(* poll() and recv() on client_socket, a number that may by now belong to  *)
(* another connection, and the entry of handle_receive.  The socket may    *)
(* change hands, or another thread that has the number may take the bytes, *)
(* between the two calls.                                                  *)
(***************************************************************************)
ShutDown(d) == \E t \in Threads : closing[t] = d /\ closeStep[t] = "release"
HungUp(d)   == d # NoConn /\ (peer[d] = "gone" \/ ShutDown(d))

\* Also what becomes of a number that nobody owns: POLLNVAL is not looked at.
PollTimeout(c) ==
  /\ At(c, "poll")
  /\ ~HungUp(owner[lfd[c]])
  /\ Goto(c, "check")
  /\ UNCHANGED <<kernelVars, connVars, localVars, tableVars, hbVars, stopVars, status>>

\* POLLHUP or POLLERR.
PollHangup(c) ==
  /\ At(c, "poll")
  /\ HungUp(owner[lfd[c]])
  /\ Goto(c, "remove")
  /\ UNCHANGED <<kernelVars, connVars, localVars, tableVars, hbVars, stopVars, status>>

\* POLLIN: bytes, or the end of file.
PollReady(c) ==
  /\ At(c, "poll")
  /\ owner[lfd[c]] # NoConn
  /\ Goto(c, "recv")
  /\ UNCHANGED <<kernelVars, connVars, localVars, tableVars, hbVars, stopVars, status>>

\* recv() finds no bytes, because the number is another's by now or another
\* thread has taken them, and blocks: on its own socket, or on a stranger's.
RecvBlock(c) ==
  /\ At(c, "recv")
  /\ owner[lfd[c]] # NoConn
  /\ \E b \in Conns \ {c} : lfd[b] = lfd[c]
  /\ Goto(c, IF owner[lfd[c]] = c THEN "blocked" ELSE "stranded")
  /\ UNCHANGED <<kernelVars, connVars, localVars, tableVars, hbVars, stopVars, status>>

\* An end of file or an error.  What a stranded thread gets at last, bytes or
\* an end, makes no difference: its own connection is closed.
RecvEnd(c) ==
  /\ \/ At(c, "recv") /\ (owner[lfd[c]] = NoConn \/ HungUp(owner[lfd[c]]))
     \/ At(c, "blocked") /\ (peer[c] = "gone" \/ isClosed[c])
     \/ At(c, "stranded")
  /\ Goto(c, "remove")
  /\ UNCHANGED <<kernelVars, connVars, localVars, tableVars, hbVars, stopVars, status>>

GetsBytes(c) ==
  \/ At(c, "recv") /\ owner[lfd[c]] # NoConn
  \/ At(c, "blocked")

\* Mutant of Receive: handle_receive does not look at closed_.
ReceiveUnchecked(c) ==
  /\ GetsBytes(c)
  /\ Goto(c, "frame")
  /\ UNCHANGED <<kernelVars, connVars, localVars, tableVars, hbVars, stopVars, status>>

\* recv() returns bytes; handle_receive refuses them once closed_ is set.
Receive(c) ==
  /\ GetsBytes(c)
  /\ Goto(c, IF isClosed[c] THEN "remove" ELSE "frame")
  /\ UNCHANGED <<kernelVars, connVars, localVars, tableVars, hbVars, stopVars, status>>

-----------------------------------------------------------------------------
(***************************************************************************)
(* handle_frame and handle_ws_message, one frame of recv_buffer_ at a      *)
(* time.  closed_ is not looked at again between two buffered frames.      *)
(***************************************************************************)
FrameConsumed(c) ==
  /\ At(c, "frame")
  /\ Goto(c, "check")
  /\ UNCHANGED <<kernelVars, connVars, localVars, tableVars, hbVars, stopVars, status>>

\* A malformed frame: handle_receive returns false.
BadFrame(c) ==
  /\ At(c, "frame")
  /\ Goto(c, "remove")
  /\ UNCHANGED <<kernelVars, connVars, localVars, tableVars, hbVars, stopVars, status>>

CloseFrame(c) ==
  /\ At(c, "frame")
  /\ Close(c, c)
  /\ Goto(c, "remove")
  /\ UNCHANGED <<kernelVars, sock, localVars, tableVars, hbVars, stopVars, status>>

\* Any request that only gets an answer: heartbeat, ping, a failed login, ...
PlainFrame(c) ==
  /\ At(c, "frame")
  /\ ReplyTo(c, c)
  /\ UNCHANGED <<kernelVars, sock, localVars, pc, tableVars, hbVars, stopVars, status>>

\* A login whose password is right, or a privateMessage of a logged-in user,
\* which is stored and acknowledged first.
Dispatch(c, u, label) ==
  /\ At(c, "frame")
  /\ frames < MaxFrames
  /\ frames' = frames + 1
  /\ want' = [want EXCEPT ![c] = u]
  /\ Goto(c, label)
  /\ UNCHANGED <<kernelVars, sock, uid, lfd, other, wfd, tableVars, hbVars,
                 stopVars, status>>

LoginFrame(c, u)   == Dispatch(c, u, "login") /\ UNCHANGED closeVars
MessageFrame(c, u) == uid[c] # NoUser /\ Dispatch(c, u, "lookup") /\ ReplyTo(c, c)

-----------------------------------------------------------------------------
(***************************************************************************)
(* handle_login.                                                           *)
(***************************************************************************)
LoginLookup(c) ==
  /\ At(c, "login")
  /\ MutexFree
  /\ other' = [other EXCEPT ![c] = userConns[want[c]]]
  /\ Goto(c, IF userConns[want[c]] = NoConn THEN "bind" ELSE "kick")
  /\ UNCHANGED <<kernelVars, connVars, uid, lfd, want, wfd, frames, tableVars,
                 hbVars, stopVars, status>>

\* existing_conn gets "kicked": unless it is closed, send_raw loads socket_.
KickSend(c) ==
  /\ At(c, "kick")
  /\ IF isClosed[other[c]]
       THEN Goto(c, "bind") /\ UNCHANGED wfd
       ELSE Goto(c, "kicked") /\ wfd' = [wfd EXCEPT ![c] = sock[other[c]]]
  /\ UNCHANGED <<kernelVars, connVars, uid, lfd, want, other, frames, tableVars,
                 hbVars, stopVars, status>>

\* ::send on the loaded descriptor, whatever comes of it, and close().
LoginKick(c) ==
  /\ At(c, "kicked")
  /\ Close(c, other[c])
  /\ wfd' = [wfd EXCEPT ![c] = NoFd]
  /\ Goto(c, "bind")
  /\ UNCHANGED <<kernelVars, sock, uid, lfd, want, other, frames, tableVars, hbVars,
                 stopVars, status>>

LoginBind(c) ==
  /\ At(c, "bind")
  /\ uid' = [uid EXCEPT ![c] = want[c]]
  /\ Goto(c, "register")
  /\ UNCHANGED <<kernelVars, connVars, lfd, want, other, wfd, frames, tableVars, hbVars,
                 stopVars, status>>

\* add_connection: an older entry of the user is replaced.
AddConnection(c) ==
  /\ At(c, "register")
  /\ MutexFree
  /\ userConns' = [userConns EXCEPT ![uid[c]] = c]
  /\ Goto(c, "online")
  /\ UNCHANGED <<kernelVars, connVars, localVars, connections, hbVars, stopVars, status>>

\* set_online_status(ONLINE), then the response and the pending requests.
LoginFinish(c) ==
  /\ At(c, "online")
  /\ status' = [status EXCEPT ![uid[c]] = "ONLINE"]
  /\ ReplyTo(c, c)
  /\ want' = [want EXCEPT ![c] = NoUser]
  /\ other' = [other EXCEPT ![c] = NoConn]
  /\ Goto(c, "frame")
  /\ UNCHANGED <<kernelVars, sock, uid, lfd, wfd, frames, tableVars, hbVars,
                 stopVars>>

-----------------------------------------------------------------------------
(***************************************************************************)
(* handle_private_message to account want[c]: the message is stored, then  *)
(* get_connection decides between send_text and an offline push.           *)
(***************************************************************************)
MessageLookup(c) ==
  /\ At(c, "lookup")
  /\ MutexFree
  /\ other' = [other EXCEPT ![c] = userConns[want[c]]]
  /\ Goto(c, IF userConns[want[c]] = NoConn THEN "frame" ELSE "send")
  /\ want' = [want EXCEPT ![c] = IF userConns[@] = NoConn THEN NoUser ELSE @]
  /\ UNCHANGED <<kernelVars, connVars, uid, lfd, wfd, frames, tableVars, hbVars,
                 stopVars, status>>

\* send_frame drops the message when closed_ is set; send_raw loads socket_.
MessageSend(c) ==
  /\ At(c, "send")
  /\ IF ~isClosed[other[c]]
       THEN /\ wfd' = [wfd EXCEPT ![c] = sock[other[c]]]
            /\ Goto(c, "write")
            /\ UNCHANGED <<want, other>>
       ELSE /\ Goto(c, "frame")
            /\ want' = [want EXCEPT ![c] = NoUser]
            /\ other' = [other EXCEPT ![c] = NoConn]
            /\ UNCHANGED wfd
  /\ UNCHANGED <<kernelVars, connVars, uid, lfd, frames, tableVars, hbVars,
                 stopVars, status>>

\* ::send on the loaded descriptor; a failure closes receiver_conn.
MessageWrite(c) ==
  /\ At(c, "write")
  /\ LET d == owner[wfd[c]] IN
       \/ /\ d = NoConn \/ HungUp(d)
          /\ Close(c, other[c])
       \/ /\ d # NoConn /\ ~ShutDown(d)
          /\ UNCHANGED closeVars
  /\ wfd' = [wfd EXCEPT ![c] = NoFd]
  /\ want' = [want EXCEPT ![c] = NoUser]
  /\ other' = [other EXCEPT ![c] = NoConn]
  /\ Goto(c, "frame")
  /\ UNCHANGED <<kernelVars, sock, uid, lfd, frames, tableVars, hbVars, stopVars, status>>

-----------------------------------------------------------------------------
\* Mutant of RemoveConnection: whoever the user's entry names goes.
RemoveBlindly(c) ==
  /\ connections' = IF sock[c] = NoFd THEN connections
                    ELSE [connections EXCEPT ![sock[c]] = NoConn]
  /\ userConns' = IF uid[c] # NoUser THEN [userConns EXCEPT ![uid[c]] = NoConn]
                  ELSE userConns

\* Mutant of RemoveConnection: nothing to do once the socket is closed.
RemoveIfOpen(c) ==
  IF sock[c] = NoFd THEN UNCHANGED tableVars
  ELSE /\ connections' = [connections EXCEPT ![sock[c]] = NoConn]
       /\ userConns' = IF uid[c] # NoUser /\ userConns[uid[c]] = c
                       THEN [userConns EXCEPT ![uid[c]] = NoConn] ELSE userConns

\* Mutant of RemoveConnection: connections_ is left alone.
RemoveRouteOnly(c) ==
  /\ UNCHANGED connections
  /\ userConns' = IF uid[c] # NoUser /\ userConns[uid[c]] = c
                  THEN [userConns EXCEPT ![uid[c]] = NoConn] ELSE userConns

(***************************************************************************)
(* remove_connection: the entry under the connection's present socket_     *)
(* goes, whatever it is, and the user's entry if it is this connection.    *)
(***************************************************************************)
RemoveConnection(c) ==
  /\ connections' = IF sock[c] = NoFd THEN connections
                    ELSE [connections EXCEPT ![sock[c]] = NoConn]
  /\ userConns' = IF uid[c] # NoUser /\ userConns[uid[c]] = c
                  THEN [userConns EXCEPT ![uid[c]] = NoConn] ELSE userConns

HandlerRemove(c) ==
  /\ At(c, "remove")
  /\ MutexFree
  /\ RemoveConnection(c)
  /\ Goto(c, "offline")
  /\ UNCHANGED <<kernelVars, connVars, localVars, hbVars, stopVars, status>>

OnDisconnect(c) ==
  /\ At(c, "offline")
  /\ status' = IF uid[c] # NoUser THEN [status EXCEPT ![uid[c]] = "OFFLINE"]
                                  ELSE status
  /\ Goto(c, "done")
  /\ UNCHANGED <<kernelVars, connVars, localVars, tableVars, hbVars, stopVars>>

\* The last shared_ptr goes and ~WsConnection closes the socket.
Referenced(c) ==
  \/ pc[c] # "done"
  \/ c \in Range(connections) \cup Range(userConns) \cup Range(other)
  \/ c \in hbSet \cup mainSet \cup Range(closing)

Destroy(c) ==
  /\ ~isClosed[c]
  /\ ~Referenced(c)
  /\ owner' = [owner EXCEPT ![sock[c]] = NoConn]
  /\ sock' = [sock EXCEPT ![c] = NoFd]
  /\ isClosed' = [isClosed EXCEPT ![c] = TRUE]
  /\ UNCHANGED <<peer, closing, closeStep, localVars, pc, tableVars, hbVars, stopVars, status>>

ClientClose(c) ==
  /\ c \in Range(owner)
  /\ peer[c] # "gone"
  /\ peer' = [peer EXCEPT ![c] = "gone"]
  /\ UNCHANGED <<owner, connVars, localVars, pc, tableVars, hbVars, stopVars, status>>

\* The client has stopped reading and the buffers of its socket are full: from
\* now on a ::send to it may block, with no timeout.
ClientStalls(c) ==
  /\ c \in Stallers
  /\ ~isClosed[c]
  /\ peer[c] = "reads"
  /\ peer' = [peer EXCEPT ![c] = "stalls"]
  /\ UNCHANGED <<owner, connVars, localVars, pc, tableVars, hbVars, stopVars, status>>

-----------------------------------------------------------------------------
(***************************************************************************)
(* heartbeat_loop.  Which connections have been silent for longer than     *)
(* heartbeat_timeout is the clock's choice.                                *)
(***************************************************************************)
HbWake ==
  /\ SweepAllowed
  /\ hbPc = "sleep"
  /\ MutexFree
  /\ hbPc' = "sweep"
  /\ UNCHANGED <<kernelVars, connVars, localVars, pc, tableVars, hbSet, hbCur,
                 stopVars, status>>

\* Under conn_mutex_: a ping to a client that is gone closes the connection.
HbPing(c) ==
  /\ hbPc = "sweep" /\ Free(Heartbeat)
  /\ c \in Range(connections)
  /\ peer[c] = "gone" /\ ~isClosed[c]
  /\ Close(Heartbeat, c)
  /\ UNCHANGED <<kernelVars, sock, localVars, pc, tableVars, hbVars, stopVars, status>>

HbCollect(S) ==
  /\ hbPc = "sweep" /\ Free(Heartbeat)
  /\ S \subseteq Range(connections) \ {NoConn}
  /\ hbSet' = S
  /\ hbPc' = "expire"
  /\ UNCHANGED <<kernelVars, connVars, localVars, pc, tableVars, hbCur, stopVars, status>>

HbClose(c) ==
  /\ hbPc = "expire" /\ hbCur = NoConn /\ Free(Heartbeat)
  /\ c \in hbSet
  /\ hbCur' = c
  /\ Close(Heartbeat, c)
  /\ UNCHANGED <<kernelVars, sock, localVars, pc, tableVars, hbPc, hbSet, stopVars, status>>

HbRemove ==
  /\ hbPc = "expire" /\ hbCur # NoConn
  /\ Free(Heartbeat) /\ MutexFree
  /\ RemoveConnection(hbCur)
  /\ hbSet' = hbSet \ {hbCur}
  /\ hbCur' = NoConn
  /\ UNCHANGED <<kernelVars, connVars, localVars, pc, hbPc, stopVars, status>>

HbNext ==
  /\ hbPc = "expire" /\ hbSet = {}
  /\ hbPc' = IF running THEN "sleep" ELSE "exited"
  /\ UNCHANGED <<kernelVars, connVars, localVars, pc, tableVars, hbSet, hbCur,
                 stopVars, status>>

-----------------------------------------------------------------------------
(***************************************************************************)
(* stop(), called by signal_handler.                                       *)
(***************************************************************************)
StopBegin ==
  /\ StopAllowed
  /\ mainPc = "serving"
  /\ running' = FALSE
  /\ mainPc' = "joinAccept"
  /\ UNCHANGED <<kernelVars, connVars, localVars, pc, tableVars, hbVars, acceptPc,
                 mainSet, status>>

StopJoinAccept ==
  /\ mainPc = "joinAccept" /\ acceptPc = "exited"
  /\ mainPc' = "joinHeartbeat"
  /\ UNCHANGED <<kernelVars, connVars, localVars, pc, tableVars, hbVars, running,
                 acceptPc, mainSet, status>>

StopJoinHeartbeat ==
  /\ mainPc = "joinHeartbeat" /\ hbPc = "exited"
  /\ mainPc' = "closing"
  /\ mainSet' = Range(connections) \ {NoConn}
  /\ UNCHANGED <<kernelVars, connVars, localVars, pc, tableVars, hbVars, running,
                 acceptPc, status>>

StopClose(c) ==
  /\ mainPc = "closing" /\ Free(Main)
  /\ c \in mainSet
  /\ Close(Main, c)
  /\ mainSet' = mainSet \ {c}
  /\ UNCHANGED <<kernelVars, sock, localVars, pc, tableVars, hbVars, running,
                 acceptPc, mainPc, status>>

StopClear ==
  /\ mainPc = "closing" /\ Free(Main) /\ mainSet = {}
  /\ connections' = [f \in Fds |-> NoConn]
  /\ userConns' = [u \in Users |-> NoConn]
  /\ mainPc' = "stopped"
  /\ UNCHANGED <<kernelVars, connVars, localVars, pc, hbVars, running, acceptPc,
                 mainSet, status>>

-----------------------------------------------------------------------------
HandlerStep(c) ==
  \/ HandshakeFail(c) \/ HandshakeOk(c)
  \/ LoopCheck(c) \/ PollTimeout(c) \/ PollHangup(c) \/ PollReady(c)
  \/ RecvBlock(c) \/ RecvEnd(c) \/ Receive(c)
  \/ FrameConsumed(c) \/ BadFrame(c) \/ CloseFrame(c) \/ PlainFrame(c)
  \/ \E u \in Users : LoginFrame(c, u) \/ MessageFrame(c, u)
  \/ LoginLookup(c) \/ KickSend(c) \/ LoginKick(c) \/ LoginBind(c)
  \/ AddConnection(c) \/ LoginFinish(c)
  \/ MessageLookup(c) \/ MessageSend(c) \/ MessageWrite(c)
  \/ HandlerRemove(c) \/ OnDisconnect(c)

CloseStep(t) == CloseRelease(t) \/ CloseClear(t)

HeartbeatStep ==
  \/ HbWake \/ HbRemove \/ HbNext
  \/ \E c \in Conns : HbPing(c) \/ HbClose(c)
  \/ \E S \in SUBSET Conns : HbCollect(S)

StopStep ==
  \/ StopBegin \/ StopJoinAccept \/ StopJoinHeartbeat \/ StopClear
  \/ \E c \in Conns : StopClose(c)

Next ==
  \/ AcceptLoop \/ AcceptFail
  \/ \E c \in Conns, f \in Fds : Accept(c, f)
  \/ \E c \in Conns : HandlerStep(c) \/ Destroy(c) \/ ClientClose(c) \/ ClientStalls(c)
  \/ \E t \in Threads : CloseStep(t)
  \/ HeartbeatStep
  \/ StopStep

Spec == Init /\ [][Next]_vars

(***************************************************************************)
(* Fairness.  A thread that can take its next step takes it: the scheduler *)
(* is fair, and so is MySQL.  A ::send returns unless its client stalls,   *)
(* and a recv() when there are bytes, or an end, on the socket it was      *)
(* called for.  Two kinds of step are strongly fair.  The sweep frees      *)
(* conn_mutex_ for heartbeat_interval seconds each time round, so a thread *)
(* waiting for the mutex gets it (Locked).  A client that has closed has   *)
(* sent finitely many bytes, so the end of file is seen sooner or later    *)
(* although there may be bytes before it (SeesEnd).  Nothing obliges a     *)
(* client to connect, to send, to read or to close, SIGINT to arrive, or   *)
(* accept() to be given a client, and nothing wakes a stranded thread.     *)
(***************************************************************************)
Blocks(d) == d # NoConn /\ peer[d] = "stalls" /\ ~isClosed[d]

Unlocked(c) ==
  \/ HandshakeFail(c) \/ LoopCheck(c)
  \/ PollTimeout(c) \/ PollHangup(c) \/ PollReady(c)
  \/ pc[c] = "recv" /\ (RecvBlock(c) \/ RecvEnd(c) \/ Receive(c))
  \/ (FrameConsumed(c) \/ LoginFinish(c)) /\ ~Blocks(c)
  \/ (LoginKick(c) \/ MessageWrite(c)) /\ ~Blocks(owner[wfd[c]])
  \/ KickSend(c) \/ LoginBind(c) \/ MessageSend(c) \/ OnDisconnect(c)

Locked(c) ==
  \/ HandshakeOk(c) \/ LoginLookup(c) \/ AddConnection(c) \/ MessageLookup(c)
  \/ HandlerRemove(c)

SeesEnd(c) == PollHangup(c) \/ (pc[c] # "stranded" /\ RecvEnd(c))

\* The sweep goes through connections_ with a ping to whoever is rather silent.
SweepPings ==
  /\ \A c \in Range(connections) : ~Blocks(c)
  /\ \E S \in SUBSET Conns : HbCollect(S)

HeartbeatGoesOn ==
  \/ HbWake \/ SweepPings \/ HbRemove \/ HbNext
  \/ \E c \in Conns : HbClose(c)

StopGoesOn ==
  \/ StopJoinAccept \/ StopJoinHeartbeat \/ StopClear
  \/ \E c \in Conns : StopClose(c)

Fairness ==
  /\ \A c \in Conns : /\ WF_vars(Unlocked(c) \/ CloseStep(c) \/ Destroy(c))
                      /\ SF_vars(Locked(c) \/ SeesEnd(c))
  /\ WF_vars(HeartbeatGoesOn \/ CloseStep(Heartbeat))
  /\ WF_vars(StopGoesOn \/ CloseStep(Main))
  /\ WF_vars(AcceptLoop)

FairSpec == Spec /\ Fairness

-----------------------------------------------------------------------------
(* The values each variable ranges over.                                   *)
VarTypes ==
  /\ owner \in [Fds -> Conns \cup {NoConn}]
  /\ peer \in [Conns -> {"reads", "stalls", "gone"}]
  /\ frames \in 0..MaxFrames
  /\ isClosed \in [Conns -> BOOLEAN]
  /\ sock \in [Conns -> Fds \cup {NoFd}]
  /\ uid \in [Conns -> Users \cup {NoUser}]
  /\ pc \in [Conns -> PcValues]
  /\ lfd \in [Conns -> Fds \cup {NoFd}]
  /\ want \in [Conns -> Users \cup {NoUser}]
  /\ other \in [Conns -> Conns \cup {NoConn}]
  /\ wfd \in [Conns -> Fds \cup {NoFd}]
  /\ connections \in [Fds -> Conns \cup {NoConn}]
  /\ userConns \in [Users -> Conns \cup {NoConn}]
  /\ running \in BOOLEAN
  /\ closing \in [Threads -> Conns \cup {NoConn}]
  /\ closeStep \in [Threads -> {"none", "release", "clear"}]
  /\ hbPc \in {"sleep", "sweep", "expire", "exited"}
  /\ hbSet \in SUBSET Conns
  /\ hbCur \in Conns \cup {NoConn}
  /\ acceptPc \in {"loop", "blocked", "exited"}
  /\ mainPc \in {"serving", "joinAccept", "joinHeartbeat", "closing", "stopped"}
  /\ mainSet \in SUBSET Conns
  /\ status \in [Users -> {"ONLINE", "OFFLINE"}]

(* Each handler has, at each point, the locals it dereferences there.      *)
LocalTypes ==
  \A c \in Conns :
    /\ pc[c] \in {"login", "kick", "kicked", "bind", "lookup", "send", "write"} => want[c] \in Users
    /\ pc[c] \in {"register", "online"} => uid[c] \in Users
    /\ pc[c] \in {"kick", "kicked", "send", "write"} => other[c] \in Conns
    /\ pc[c] \in {"kicked", "write"} => wfd[c] \in Fds
    /\ pc[c] # "new" => lfd[c] \in Fds

(* socket_ is set exactly while the connection is open or being closed.    *)
SockWhileOpen ==
  \A c \in Conns :
    sock[c] # NoFd <=> ~isClosed[c] \/ \E t \in Threads : closing[t] = c

(* Type correctness: no handler dereferences a null connection or account, *)
(* and a connection has a descriptor number exactly while it is open or a  *)
(* thread is inside its close() (websocket_server.cpp:68-77).              *)
TypeOK ==
  /\ VarTypes
  /\ LocalTypes
  /\ SockWhileOpen

(* A thread about to ::close() a descriptor closes the one its connection  *)
(* still owns: with kicks, timeouts, failed sends, Close frames and stop() *)
(* racing, no descriptor is closed twice and so none is closed under the   *)
(* feet of the connection that got the number next.                        *)
ClosesOwnDescriptor ==
  \A t \in Threads :
    closeStep[t] = "release" => owner[sock[closing[t]]] = closing[t]

(* connections_ never shows a live connection's descriptor as someone      *)
(* else's, although entries of closed connections stay behind in it.       *)
DescriptorTableRight ==
  \A c \in Conns : ~isClosed[c] => connections[sock[c]] \in {c, NoConn}

(* The parts of the inductive strengthening of the two properties above.   *)
(* At most one thread is inside a connection's close(), and that           *)
(* connection is marked closed.                                            *)
OneCloser ==
  /\ \A t \in Threads : closing[t] = NoConn <=> closeStep[t] = "none"
  /\ \A t \in Threads : closing[t] # NoConn => isClosed[closing[t]]
  /\ \A s, t \in Threads : closing[s] = closing[t] /\ closing[s] # NoConn => s = t

(* Nothing refers to a WsConnection that is not made yet.                  *)
NotMadeYet ==
  \A c \in Conns : pc[c] \in {"new", "handshake"} =>
    /\ isClosed[c] /\ sock[c] = NoFd /\ uid[c] = NoUser
    /\ c # hbCur /\ c \notin hbSet
    /\ \A f \in Fds : connections[f] # c

(* An open connection owns its descriptor, and the handler's own copy of   *)
(* the number agrees with socket_ while that is set.                       *)
OpenOwns ==
  \A c \in Conns :
    /\ pc[c] = "handshake" => owner[lfd[c]] = c
    /\ sock[c] # NoFd => sock[c] = lfd[c]
    /\ ~isClosed[c] => owner[sock[c]] = c

(* The inductive invariant: the sweep has closed what it removes, too.     *)
DescriptorInv ==
  /\ TypeOK
  /\ OneCloser
  /\ NotMadeYet
  /\ OpenOwns
  /\ (hbCur # NoConn => isClosed[hbCur])
  /\ ClosesOwnDescriptor
  /\ DescriptorTableRight

(* A handler thread parses only bytes its own client sent, even when its   *)
(* descriptor was closed and reused between its test of closed_ and recv:  *)
(* what it takes from a stranger it must not act on.                       *)
OwnBytesOnly ==
  [][\A c \in Conns :
       pc[c] \in {"recv", "blocked", "stranded"} /\ pc'[c] = "frame"
         => owner[lfd[c]] = c]_vars

(* While the server runs, a user's route disappears only with its          *)
(* connection: the cleanup of an older connection never takes down a newer *)
(* login.                                                                  *)
RouteDropsOnlyDead ==
  [][\A u \in Users :
       LET c == userConns[u] IN
       c # NoConn /\ userConns'[u] = NoConn /\ mainPc # "closing"
         => isClosed[c] \/ pc[c] = "remove"]_vars

(* A thread that has finished leaves no route to its dead connection under *)
(* the account it last logged in as, whoever closed it and in which order. *)
NoRouteAfterExit ==
  \A c \in Conns :
    pc[c] \in {"offline", "done"} /\ uid[c] # NoUser => userConns[uid[c]] # c

(* A connection that anybody closed, whose client went away, or whose      *)
(* thread gave it up returns its descriptor (with one account), and its    *)
(* thread ends.  Two things only keep it from that, and only as long as    *)
(* they last: clients that do not read, to whom some thread, or the sweep  *)
(* with conn_mutex_ held, may be sending; and a recv() on a number that    *)
(* became another connection's after poll(), which keeps the thread but    *)
(* not the descriptor.                                                     *)
Ending(c) ==
  \/ pc[c] \notin {"new", "handshake"} /\ (peer[c] = "gone" \/ isClosed[c])
  \/ pc[c] \in {"remove", "offline", "done"}

Stalling == \E d \in Conns : peer[d] = "stalls"

ConnectionsEnd ==
  \A c \in Conns :
    Ending(c) ~> \/ pc[c] \in {"done", "stranded"} /\ c \notin Range(owner)
                 \/ Stalling
=============================================================================
