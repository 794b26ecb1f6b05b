-------------------------- MODULE WsGatewayProofs --------------------------
(***************************************************************************)
(* Theorems about WsGateway, for any number of connections, accounts and   *)
(* descriptors.                                                            *)
(***************************************************************************)
EXTENDS WsGateway, TLAPS

USE DEF Threads

(* The initial state satisfies the inductive invariant.                    *)
LEMMA InitInv == Init => DescriptorInv
<1> SUFFICES ASSUME Init PROVE DescriptorInv  OBVIOUS
<1>1. VarTypes
  <2>1. /\ frames \in 0..MaxFrames
        /\ pc \in [Conns -> PcValues]
        /\ closeStep \in [Threads -> {"none", "release", "clear"}]
    BY ConstAssumption DEF Init, PcValues
  <2> QED  BY <2>1 DEF Init, VarTypes
<1>2. LocalTypes /\ SockWhileOpen  BY ConstAssumption DEF Init, LocalTypes, SockWhileOpen
<1>3. OneCloser /\ NotMadeYet  BY ConstAssumption DEF Init, OneCloser, NotMadeYet
<1>4. OpenOwns /\ ClosesOwnDescriptor /\ DescriptorTableRight
  BY DEF Init, OpenOwns, ClosesOwnDescriptor, DescriptorTableRight
<1> QED  BY <1>1, <1>2, <1>3, <1>4 DEF Init, DescriptorInv, TypeOK

(* The types of close()'s variables survive a call of close().             *)
LEMMA CloseTypes ==
  ASSUME VarTypes, NEW t \in Threads, NEW c \in Conns, Close(t, c)
  PROVE  /\ isClosed' \in [Conns -> BOOLEAN]
         /\ closing' \in [Threads -> Conns \cup {NoConn}]
         /\ closeStep' \in [Threads -> {"none", "release", "clear"}]
<1>1. isClosed' \in [Conns -> BOOLEAN]  BY DEF Close, closeVars, VarTypes
<1>2. closing' \in [Threads -> Conns \cup {NoConn}]  BY DEF Close, closeVars, VarTypes
<1>3. closeStep' \in [Threads -> {"none", "release", "clear"}]  BY DEF Close, closeVars, VarTypes
<1> QED  BY <1>1, <1>2, <1>3

(* A step of a handler thread keeps the types.                             *)
LEMMA HandlerTypes ==
  ASSUME ConstAssumption, TypeOK, NEW c \in Conns, HandlerStep(c)
  PROVE  VarTypes'
<1> USE DEF kernelVars, closeVars, connVars, localVars, tableVars, hbVars, stopVars,
            At, Goto, VarTypes, PcValues, SockWhileOpen
<1>1. CASE HandshakeFail(c)
  BY <1>1 DEF HandshakeFail, TypeOK
<1>2. CASE HandshakeOk(c)
  <2>1. lfd[c] \in Fds  BY <1>2 DEF HandshakeOk, TypeOK, LocalTypes
  <2>2. isClosed' \in [Conns -> BOOLEAN] /\ sock' \in [Conns -> Fds \cup {NoFd}]
    BY <1>2, <2>1 DEF HandshakeOk, TypeOK
  <2>3. connections' \in [Fds -> Conns \cup {NoConn}]  BY <1>2, <2>1 DEF HandshakeOk, TypeOK
  <2>4. pc' \in [Conns -> PcValues]  BY <1>2 DEF HandshakeOk, TypeOK
  <2> QED  BY <1>2, <2>2, <2>3, <2>4 DEF HandshakeOk, TypeOK
<1>3. CASE LoopCheck(c)
  BY <1>3 DEF LoopCheck, TypeOK
<1>4. CASE PollTimeout(c)
  BY <1>4 DEF PollTimeout, TypeOK
<1>5. CASE PollHangup(c) \/ PollReady(c)
  BY <1>5 DEF PollHangup, PollReady, TypeOK
<1>6. CASE RecvBlock(c) \/ RecvEnd(c) \/ Receive(c)
  BY <1>6 DEF RecvBlock, RecvEnd, Receive, TypeOK
<1>7. CASE FrameConsumed(c) \/ BadFrame(c)
  BY <1>7 DEF FrameConsumed, BadFrame, TypeOK
<1>8. CASE CloseFrame(c)
  BY <1>8, CloseTypes DEF CloseFrame, TypeOK
<1>9. CASE PlainFrame(c)
  BY <1>9, CloseTypes DEF PlainFrame, ReplyTo, TypeOK
<1>10. ASSUME NEW u \in Users, LoginFrame(c, u) \/ MessageFrame(c, u)
       PROVE  VarTypes'
  <2>1. /\ frames' \in 0..MaxFrames
        /\ want' \in [Conns -> Users \cup {NoUser}]
        /\ pc' \in [Conns -> PcValues]
    BY <1>10, ConstAssumption DEF LoginFrame, MessageFrame, Dispatch, TypeOK
  <2>2. /\ isClosed' \in [Conns -> BOOLEAN]
        /\ closing' \in [Threads -> Conns \cup {NoConn}]
        /\ closeStep' \in [Threads -> {"none", "release", "clear"}]
    BY <1>10, CloseTypes DEF LoginFrame, MessageFrame, ReplyTo, TypeOK
  <2> QED
    BY <1>10, <2>1, <2>2 DEF LoginFrame, MessageFrame, Dispatch, TypeOK
<1>11. CASE LoginLookup(c)
  BY <1>11 DEF LoginLookup, TypeOK, LocalTypes
<1>12. CASE LoginKick(c)
  BY <1>12, CloseTypes DEF LoginKick, TypeOK, LocalTypes
<1>21. CASE KickSend(c)
  BY <1>21 DEF KickSend, TypeOK, LocalTypes
<1>13. CASE LoginBind(c)
  BY <1>13 DEF LoginBind, TypeOK, LocalTypes
<1>14. CASE AddConnection(c)
  BY <1>14 DEF AddConnection, TypeOK, LocalTypes
<1>15. CASE LoginFinish(c)
  BY <1>15, CloseTypes DEF LoginFinish, ReplyTo, TypeOK, LocalTypes
<1>16. CASE MessageLookup(c)
  BY <1>16 DEF MessageLookup, TypeOK, LocalTypes
<1>17. CASE MessageSend(c)
  BY <1>17 DEF MessageSend, TypeOK, LocalTypes
<1>18. CASE MessageWrite(c)
  BY <1>18, CloseTypes DEF MessageWrite, TypeOK, LocalTypes
<1>19. CASE HandlerRemove(c)
  BY <1>19 DEF HandlerRemove, RemoveConnection, TypeOK
<1>20. CASE OnDisconnect(c)
  BY <1>20 DEF OnDisconnect, TypeOK
<1> QED
  BY <1>1, <1>2, <1>3, <1>4, <1>5, <1>6, <1>7, <1>8, <1>9, <1>10, <1>11, <1>12, <1>13,
     <1>14, <1>15, <1>16, <1>17, <1>18, <1>19, <1>20, <1>21 DEF HandlerStep

(* A step of the accept thread, of the kernel, of the heartbeat thread or  *)
(* of stop() keeps the types.                                              *)
LEMMA OtherTypes ==
  ASSUME ConstAssumption, TypeOK,
         \/ AcceptLoop \/ AcceptFail
         \/ \E c \in Conns, f \in Fds : Accept(c, f)
         \/ \E c \in Conns : Destroy(c) \/ ClientClose(c) \/ ClientStalls(c)
         \/ \E t \in Threads : CloseStep(t)
         \/ HeartbeatStep \/ StopStep
  PROVE  VarTypes'
<1> USE DEF kernelVars, closeVars, connVars, localVars, tableVars, hbVars, stopVars,
            Goto, VarTypes, PcValues, TypeOK
<1>1. CASE AcceptLoop \/ AcceptFail
  BY <1>1 DEF AcceptLoop, AcceptFail
<1>2. ASSUME NEW c \in Conns, NEW f \in Fds, Accept(c, f)
      PROVE  VarTypes'
  BY <1>2 DEF Accept
<1>3. ASSUME NEW c \in Conns, Destroy(c)
      PROVE  VarTypes'
  BY <1>3 DEF Destroy
<1>4. ASSUME NEW c \in Conns, ClientClose(c) \/ ClientStalls(c)
      PROVE  VarTypes'
  BY <1>4 DEF ClientClose, ClientStalls
<1>5. ASSUME NEW t \in Threads, CloseStep(t)
      PROVE  VarTypes'
  BY <1>5 DEF CloseStep, CloseRelease, CloseClear
<1>6. CASE HbWake \/ HbNext
  BY <1>6 DEF HbWake, HbNext
<1>7. CASE HbRemove
  BY <1>7 DEF HbRemove, RemoveConnection
<1>8. ASSUME NEW c \in Conns, HbPing(c) \/ HbClose(c)
      PROVE  VarTypes'
  <2>1. Close(Heartbeat, c)
    BY <1>8 DEF HbPing, HbClose
  <2>2. UNCHANGED <<kernelVars, sock, localVars, pc, tableVars, hbPc, hbSet, stopVars, status>>
        /\ hbCur' \in {hbCur, c}
    BY <1>8 DEF HbPing, HbClose
  <2>3. /\ isClosed' \in [Conns -> BOOLEAN]
        /\ closing' \in [Threads -> Conns \cup {NoConn}]
        /\ closeStep' \in [Threads -> {"none", "release", "clear"}]
    BY <2>1, CloseTypes
  <2> QED
    BY <2>2, <2>3
<1>9. ASSUME NEW S \in SUBSET Conns, HbCollect(S)
      PROVE  VarTypes'
  BY <1>9 DEF HbCollect
<1>10. CASE StopBegin \/ StopJoinAccept
  <2>1. running' \in BOOLEAN
    BY <1>10, Zenon DEF StopBegin, StopJoinAccept
  <2>2. /\ mainPc' \in {"serving", "joinAccept", "joinHeartbeat", "closing", "stopped"}
        /\ UNCHANGED <<kernelVars, connVars, localVars, pc, tableVars, hbVars, acceptPc,
                       mainSet, status>>
    BY <1>10 DEF StopBegin, StopJoinAccept
  <2> QED
    BY <2>1, <2>2
<1>13. CASE StopClear
  BY <1>13 DEF StopClear
<1>11. CASE StopJoinHeartbeat
  BY <1>11 DEF StopJoinHeartbeat, Range
<1>12. ASSUME NEW c \in Conns, StopClose(c)
       PROVE  VarTypes'
  BY <1>12, CloseTypes DEF StopClose
<1> QED
  BY <1>1, <1>2, <1>3, <1>4, <1>5, <1>6, <1>7, <1>8, <1>9, <1>10, <1>11, <1>12, <1>13
     DEF HeartbeatStep, StopStep

(* A handler keeps the locals it needs; nobody else writes them.           *)
LEMMA LocalStep ==
  ASSUME ConstAssumption, TypeOK, Next
  PROVE  LocalTypes'
<1> USE DEF kernelVars, closeVars, connVars, localVars, tableVars, hbVars, stopVars,
            At, Goto, VarTypes, LocalTypes, SockWhileOpen, TypeOK
<1>1. ASSUME NEW c \in Conns, HandlerStep(c)
      PROVE  LocalTypes'
  <2>1. CASE HandshakeFail(c) \/ HandshakeOk(c) \/ LoopCheck(c) \/ PollTimeout(c)
             \/ PollHangup(c) \/ PollReady(c)
    BY <2>1 DEF HandshakeFail, HandshakeOk, LoopCheck, PollTimeout, PollHangup, PollReady
  <2>12. CASE RecvBlock(c) \/ RecvEnd(c) \/ Receive(c)
    <3>1. UNCHANGED localVars
      BY <2>12 DEF RecvBlock, RecvEnd, Receive
    <3>2. \E l \in {"blocked", "stranded", "remove", "frame"} : pc' = [pc EXCEPT ![c] = l]
      BY <2>12 DEF RecvBlock, RecvEnd, Receive
    <3>3. pc[c] # "new"
      BY <2>12 DEF RecvBlock, RecvEnd, Receive, GetsBytes
    <3> QED
      BY <3>1, <3>2, <3>3
  <2>13. CASE FrameConsumed(c) \/ BadFrame(c) \/ CloseFrame(c) \/ PlainFrame(c)
              \/ HandlerRemove(c) \/ OnDisconnect(c)
    BY <2>13 DEF FrameConsumed, BadFrame, CloseFrame, PlainFrame, HandlerRemove, OnDisconnect
  <2>2. ASSUME NEW u \in Users, LoginFrame(c, u) \/ MessageFrame(c, u)
        PROVE  LocalTypes'
    BY <2>2 DEF LoginFrame, MessageFrame, Dispatch
  <2>3. CASE LoginLookup(c)
    BY <2>3 DEF LoginLookup
  <2>4. CASE LoginKick(c)
    BY <2>4 DEF LoginKick
  <2>11. CASE KickSend(c)
    BY <2>11 DEF KickSend
  <2>5. CASE LoginBind(c)
    BY <2>5 DEF LoginBind
  <2>6. CASE AddConnection(c)
    BY <2>6 DEF AddConnection
  <2>7. CASE LoginFinish(c)
    BY <2>7 DEF LoginFinish
  <2>8. CASE MessageLookup(c)
    BY <2>8 DEF MessageLookup
  <2>9. CASE MessageSend(c)
    BY <2>9 DEF MessageSend
  <2>10. CASE MessageWrite(c)
    BY <2>10 DEF MessageWrite
  <2> QED
    BY <1>1, <2>1, <2>2, <2>3, <2>4, <2>5, <2>6, <2>7, <2>8, <2>9, <2>10, <2>11, <2>12, <2>13
       DEF HandlerStep
<1>2. ASSUME NEW c \in Conns, NEW f \in Fds, Accept(c, f)
      PROVE  LocalTypes'
  BY <1>2 DEF Accept
<1>3. CASE UNCHANGED <<pc, localVars>>
  BY <1>3
<1>4. ASSUME NEW c \in Conns, Destroy(c) \/ ClientClose(c) \/ ClientStalls(c)
      PROVE  UNCHANGED <<pc, localVars>>
  BY <1>4 DEF Destroy, ClientClose, ClientStalls
<1>5. ASSUME NEW t \in Threads, CloseStep(t)
      PROVE  UNCHANGED <<pc, localVars>>
  BY <1>5 DEF CloseStep, CloseRelease, CloseClear
<1>6. CASE AcceptLoop \/ AcceptFail
  BY <1>6, <1>3 DEF AcceptLoop, AcceptFail
<1>7. CASE HeartbeatStep
  BY <1>7, <1>3 DEF HeartbeatStep, HbWake, HbRemove, HbNext, HbPing, HbClose, HbCollect
<1>8. CASE StopStep
  BY <1>8, <1>3 DEF StopStep, StopBegin, StopJoinAccept, StopJoinHeartbeat, StopClear, StopClose
<1> QED
  BY <1>1, <1>2, <1>3, <1>4, <1>5, <1>6, <1>7, <1>8 DEF Next

-----------------------------------------------------------------------------
(* The invariant without the types that HandlerTypes, OtherTypes and       *)
(* LocalStep take care of.                                                 *)
Core ==
  /\ SockWhileOpen
  /\ OneCloser
  /\ NotMadeYet
  /\ OpenOwns
  /\ (hbCur # NoConn => isClosed[hbCur])
  /\ ClosesOwnDescriptor
  /\ DescriptorTableRight

(* What most steps do to the variables of Core: they take no descriptor,   *)
(* make no connection, enter nothing in connections_.                      *)
Frame ==
  /\ VarTypes'
  /\ UNCHANGED <<owner, sock, lfd>>
  /\ \A c \in Conns : pc'[c] \in {"new", "handshake"} => pc[c] = pc'[c] /\ uid[c] = uid'[c]
  /\ \A c \in Conns : pc[c] \in {"new", "handshake"} => c # hbCur' /\ c \notin hbSet'
  /\ \A f \in Fds : connections'[f] \in {connections[f], NoConn}

(* Such a step that closes nothing keeps the invariant.                    *)
LEMMA QuietCore ==
  ASSUME ConstAssumption, DescriptorInv, Frame, UNCHANGED closeVars,
         hbCur' # NoConn => isClosed[hbCur']
  PROVE  Core'
<1> USE DEF DescriptorInv, Core, Frame, closeVars, TypeOK
<1>1. SockWhileOpen'
  BY DEF SockWhileOpen
<1>2. OneCloser'
  BY DEF OneCloser
<1>3. NotMadeYet'
  BY DEF NotMadeYet, VarTypes, ConstAssumption
<1>4. OpenOwns'
  BY DEF OpenOwns
<1>5. ClosesOwnDescriptor'
  BY DEF ClosesOwnDescriptor
<1>6. DescriptorTableRight'
  BY DEF DescriptorTableRight, SockWhileOpen, VarTypes
<1> QED
  BY <1>1, <1>2, <1>3, <1>4, <1>5, <1>6

(* So does one in which a thread that is not inside close() calls it.      *)
LEMMA CloseCore ==
  ASSUME ConstAssumption, DescriptorInv, Frame,
         NEW t \in Threads, NEW c \in Conns, Free(t), Close(t, c),
         hbCur' # NoConn => isClosed'[hbCur']
  PROVE  Core'
<1>1. CASE isClosed[c]
  BY <1>1, QuietCore DEF Close, closeVars
<1>2. CASE ~isClosed[c]
  <2> USE DEF DescriptorInv, Core, Frame, TypeOK, Close, Free
  <2>1. /\ isClosed' = [isClosed EXCEPT ![c] = TRUE]
        /\ closing' = [closing EXCEPT ![t] = c]
        /\ closeStep' = [closeStep EXCEPT ![t] = "release"]
        /\ closing[t] = NoConn
    BY <1>2
  <2>2. SockWhileOpen'
    BY <1>2, <2>1 DEF SockWhileOpen, VarTypes, ConstAssumption
  <2>3. OneCloser'
    BY <1>2, <2>1 DEF OneCloser, VarTypes, ConstAssumption
  <2>4. NotMadeYet'
    BY <1>2, <2>1 DEF NotMadeYet, VarTypes, ConstAssumption
  <2>5. OpenOwns'
    BY <1>2, <2>1 DEF OpenOwns, VarTypes
  <2>6. ClosesOwnDescriptor'
    BY <1>2, <2>1 DEF ClosesOwnDescriptor, OpenOwns, VarTypes
  <2>7. DescriptorTableRight'
    BY <1>2, <2>1 DEF DescriptorTableRight, SockWhileOpen, VarTypes
  <2> QED
    BY <2>2, <2>3, <2>4, <2>5, <2>6, <2>7
<1> QED
  BY <1>1, <1>2

(* A new descriptor is one that no open connection owns. *)
LEMMA AcceptCore ==
  ASSUME ConstAssumption, DescriptorInv, VarTypes', NEW c \in Conns, NEW f \in Fds, Accept(c, f)
  PROVE  Core'
<1> USE DEF DescriptorInv, Core, TypeOK, VarTypes, ConstAssumption,
            Accept, Goto, connVars, closeVars, tableVars, hbVars
<1>1. SockWhileOpen'
  BY DEF SockWhileOpen, OneCloser, NotMadeYet, LocalTypes
<1>2. OneCloser'
  BY DEF OneCloser, SockWhileOpen, NotMadeYet
<1>3. NotMadeYet'
  BY DEF NotMadeYet, OpenOwns, LocalTypes
<1>4. OpenOwns'
  BY DEF OpenOwns, NotMadeYet, SockWhileOpen, OneCloser, ClosesOwnDescriptor, LocalTypes
<1>5. (hbCur # NoConn => isClosed[hbCur])'
  BY DEF NotMadeYet
<1>6. ClosesOwnDescriptor'
  BY DEF ClosesOwnDescriptor, OpenOwns, NotMadeYet, SockWhileOpen, OneCloser, LocalTypes
<1>7. DescriptorTableRight'
  BY DEF DescriptorTableRight, OpenOwns, NotMadeYet, SockWhileOpen, OneCloser, LocalTypes
<1> QED
  BY <1>1, <1>2, <1>3, <1>4, <1>5, <1>6, <1>7

(* A handler that closes its own number closes no one else's. *)
LEMMA HandshakeFailCore ==
  ASSUME ConstAssumption, DescriptorInv, VarTypes', NEW c \in Conns, HandshakeFail(c)
  PROVE  Core'
<1> USE DEF DescriptorInv, Core, TypeOK, VarTypes, ConstAssumption,
            HandshakeFail, At, Goto, Free, connVars, closeVars, localVars, tableVars, hbVars
<1>1. SockWhileOpen'
  BY DEF SockWhileOpen, OneCloser, NotMadeYet, LocalTypes
<1>2. OneCloser'
  BY DEF OneCloser, SockWhileOpen, NotMadeYet
<1>3. NotMadeYet'
  BY DEF NotMadeYet, OpenOwns, LocalTypes
<1>4. OpenOwns'
  BY DEF OpenOwns, NotMadeYet, SockWhileOpen, OneCloser, ClosesOwnDescriptor, LocalTypes
<1>5. (hbCur # NoConn => isClosed[hbCur])'
  BY DEF NotMadeYet
<1>6. ClosesOwnDescriptor'
  BY DEF ClosesOwnDescriptor, OpenOwns, NotMadeYet, SockWhileOpen, OneCloser, LocalTypes
<1>7. DescriptorTableRight'
  BY DEF DescriptorTableRight, OpenOwns, NotMadeYet, SockWhileOpen, OneCloser, LocalTypes
<1> QED
  BY <1>1, <1>2, <1>3, <1>4, <1>5, <1>6, <1>7

(* The connection made by the handshake owns its descriptor. *)
LEMMA HandshakeOkCore ==
  ASSUME ConstAssumption, DescriptorInv, VarTypes', NEW c \in Conns, HandshakeOk(c)
  PROVE  Core'
<1> USE DEF DescriptorInv, Core, TypeOK, VarTypes, ConstAssumption,
            HandshakeOk, At, Goto, Free, kernelVars, localVars, hbVars
<1>1. SockWhileOpen'
  BY DEF SockWhileOpen, OneCloser, NotMadeYet, LocalTypes
<1>2. OneCloser'
  BY DEF OneCloser, SockWhileOpen, NotMadeYet
<1>3. NotMadeYet'
  BY DEF NotMadeYet, OpenOwns, LocalTypes
<1>4. OpenOwns'
  BY DEF OpenOwns, NotMadeYet, SockWhileOpen, OneCloser, ClosesOwnDescriptor, LocalTypes
<1>5. (hbCur # NoConn => isClosed[hbCur])'
  BY DEF NotMadeYet
<1>6. ClosesOwnDescriptor'
  BY DEF ClosesOwnDescriptor, OpenOwns, NotMadeYet, SockWhileOpen, OneCloser, LocalTypes
<1>7. DescriptorTableRight'
  BY DEF DescriptorTableRight, OpenOwns, NotMadeYet, SockWhileOpen, OneCloser, LocalTypes
<1> QED
  BY <1>1, <1>2, <1>3, <1>4, <1>5, <1>6, <1>7

(* close() releases a descriptor that no other connection owns. *)
LEMMA CloseReleaseCore ==
  ASSUME ConstAssumption, DescriptorInv, VarTypes', NEW t \in Threads, CloseRelease(t)
  PROVE  Core'
<1> USE DEF DescriptorInv, Core, TypeOK, VarTypes, ConstAssumption,
            CloseRelease, localVars, tableVars, hbVars
<1>1. SockWhileOpen'
  BY DEF SockWhileOpen, OneCloser, NotMadeYet, LocalTypes
<1>2. OneCloser'
  BY DEF OneCloser, SockWhileOpen, NotMadeYet
<1>3. NotMadeYet'
  BY DEF NotMadeYet, OpenOwns, LocalTypes
<1>4. OpenOwns'
  BY DEF OpenOwns, NotMadeYet, SockWhileOpen, OneCloser, ClosesOwnDescriptor, LocalTypes
<1>5. (hbCur # NoConn => isClosed[hbCur])'
  BY DEF NotMadeYet
<1>6. ClosesOwnDescriptor'
  BY DEF ClosesOwnDescriptor, OpenOwns, NotMadeYet, SockWhileOpen, OneCloser, LocalTypes
<1>7. DescriptorTableRight'
  BY DEF DescriptorTableRight, OpenOwns, NotMadeYet, SockWhileOpen, OneCloser, LocalTypes
<1> QED
  BY <1>1, <1>2, <1>3, <1>4, <1>5, <1>6, <1>7

(* close() forgets the number after it has been released. *)
LEMMA CloseClearCore ==
  ASSUME ConstAssumption, DescriptorInv, VarTypes', NEW t \in Threads, CloseClear(t)
  PROVE  Core'
<1> USE DEF DescriptorInv, Core, TypeOK, VarTypes, ConstAssumption,
            CloseClear, kernelVars, localVars, tableVars, hbVars
<1>1. SockWhileOpen'
  BY DEF SockWhileOpen, OneCloser, NotMadeYet, LocalTypes
<1>2. OneCloser'
  BY DEF OneCloser, SockWhileOpen, NotMadeYet
<1>3. NotMadeYet'
  BY DEF NotMadeYet, OpenOwns, LocalTypes
<1>4. OpenOwns'
  BY DEF OpenOwns, NotMadeYet, SockWhileOpen, OneCloser, ClosesOwnDescriptor, LocalTypes
<1>5. (hbCur # NoConn => isClosed[hbCur])'
  BY DEF NotMadeYet
<1>6. ClosesOwnDescriptor'
  BY DEF ClosesOwnDescriptor, OpenOwns, NotMadeYet, SockWhileOpen, OneCloser, LocalTypes
<1>7. DescriptorTableRight'
  BY DEF DescriptorTableRight, OpenOwns, NotMadeYet, SockWhileOpen, OneCloser, LocalTypes
<1> QED
  BY <1>1, <1>2, <1>3, <1>4, <1>5, <1>6, <1>7

(* The destructor closes a connection that no thread is closing. *)
LEMMA DestroyCore ==
  ASSUME ConstAssumption, DescriptorInv, VarTypes', NEW c \in Conns, Destroy(c)
  PROVE  Core'
<1> USE DEF DescriptorInv, Core, TypeOK, VarTypes, ConstAssumption,
            Destroy, Referenced, Range, localVars, tableVars, hbVars
<1>1. SockWhileOpen'
  BY DEF SockWhileOpen, OneCloser, NotMadeYet, LocalTypes
<1>2. OneCloser'
  BY DEF OneCloser, SockWhileOpen, NotMadeYet
<1>3. NotMadeYet'
  BY DEF NotMadeYet, OpenOwns, LocalTypes
<1>4. OpenOwns'
  BY DEF OpenOwns, NotMadeYet, SockWhileOpen, OneCloser, ClosesOwnDescriptor, LocalTypes
<1>5. (hbCur # NoConn => isClosed[hbCur])'
  BY DEF NotMadeYet
<1>6. ClosesOwnDescriptor'
  BY DEF ClosesOwnDescriptor, OpenOwns, NotMadeYet, SockWhileOpen, OneCloser, LocalTypes
<1>7. DescriptorTableRight'
  BY DEF DescriptorTableRight, OpenOwns, NotMadeYet, SockWhileOpen, OneCloser, LocalTypes
<1> QED
  BY <1>1, <1>2, <1>3, <1>4, <1>5, <1>6, <1>7

(* A step of a handler thread keeps the invariant.                         *)
LEMMA HandlerCore ==
  ASSUME ConstAssumption, DescriptorInv, VarTypes', NEW c \in Conns, HandlerStep(c)
  PROVE  Core'
<1> USE DEF kernelVars, connVars, localVars, tableVars, hbVars, stopVars, At, Goto
<1>1. CASE HandshakeFail(c) \/ HandshakeOk(c)
  BY <1>1, HandshakeFailCore, HandshakeOkCore
<1>t. VarTypes /\ LocalTypes
  BY DEF DescriptorInv, TypeOK
<1>h. (hbCur # NoConn => isClosed[hbCur]) /\ NotMadeYet
  BY DEF DescriptorInv
<1>2. CASE LoopCheck(c) \/ PollTimeout(c) \/ PollHangup(c) \/ PollReady(c)
           \/ RecvBlock(c) \/ RecvEnd(c) \/ Receive(c)
           \/ FrameConsumed(c) \/ BadFrame(c)
  <2>1. Frame /\ UNCHANGED <<closeVars, hbCur>>
    BY <1>2, <1>t, <1>h DEF LoopCheck, PollTimeout, PollHangup, PollReady, RecvBlock,
                  RecvEnd, Receive, GetsBytes, FrameConsumed,
                  BadFrame, Frame, VarTypes, NotMadeYet
  <2> QED
    BY <2>1, <1>h, QuietCore DEF closeVars
<1>3. ASSUME NEW u \in Users, LoginFrame(c, u) \/ MessageFrame(c, u)
      PROVE  Core'
  <2>1. Frame /\ UNCHANGED hbCur /\ Free(c)
    BY <1>3, <1>t, <1>h DEF LoginFrame, MessageFrame, Dispatch, Frame, VarTypes, NotMadeYet
  <2>2. UNCHANGED closeVars \/ Close(c, c)
    BY <1>3 DEF LoginFrame, MessageFrame, ReplyTo
  <2>3. CASE Close(c, c)
    <3>1. hbCur' # NoConn => isClosed'[hbCur']
      BY <2>1, <2>3, <1>h, <1>t DEF Close, closeVars, VarTypes
    <3> QED
      BY <2>1, <2>3, <3>1, CloseCore
  <2> QED
    BY <2>1, <2>2, <2>3, <1>h, QuietCore DEF closeVars
<1>4. CASE LoginLookup(c) \/ KickSend(c) \/ LoginBind(c) \/ AddConnection(c) \/ MessageLookup(c)
           \/ MessageSend(c) \/ OnDisconnect(c)
  <2>1. Frame /\ UNCHANGED <<closeVars, hbCur>>
    BY <1>4, <1>t, <1>h DEF LoginLookup, KickSend, LoginBind, AddConnection,
                  MessageLookup, MessageSend, OnDisconnect, Frame, VarTypes, NotMadeYet
  <2> QED
    BY <2>1, <1>h, QuietCore DEF closeVars
<1>5. CASE HandlerRemove(c)
  <2>1. Frame /\ UNCHANGED <<closeVars, hbCur>>
    BY <1>5, <1>t, <1>h DEF HandlerRemove, RemoveConnection, Frame, VarTypes, NotMadeYet
  <2> QED
    BY <2>1, <1>h, QuietCore DEF closeVars
<1>6. CASE CloseFrame(c) \/ PlainFrame(c) \/ LoginKick(c) \/ LoginFinish(c)
           \/ MessageWrite(c)
  <2>1. Frame /\ UNCHANGED hbCur /\ Free(c) /\ other[c] \in Conns \cup {NoConn}
    BY <1>6, <1>t, <1>h DEF CloseFrame, PlainFrame, LoginKick, LoginFinish, MessageWrite,
                  Frame, VarTypes, NotMadeYet
  <2>2. UNCHANGED closeVars \/ Close(c, c) \/ (other[c] \in Conns /\ Close(c, other[c]))
    BY <1>6, <1>t DEF CloseFrame, PlainFrame, LoginKick, LoginFinish, MessageWrite,
                  ReplyTo, LocalTypes
  <2>3. ASSUME NEW d \in Conns, Close(c, d)
        PROVE  Core'
    <3>1. hbCur' # NoConn => isClosed'[hbCur']
      BY <2>1, <2>3, <1>h, <1>t DEF Close, closeVars, VarTypes
    <3> QED
      BY <2>1, <2>3, <3>1, CloseCore
  <2> QED
    BY <2>1, <2>2, <2>3, <1>h, QuietCore DEF closeVars
<1> QED
  BY <1>1, <1>2, <1>3, <1>4, <1>5, <1>6 DEF HandlerStep

(* A step of the heartbeat thread keeps the invariant.                     *)
LEMMA HeartbeatCore ==
  ASSUME ConstAssumption, DescriptorInv, VarTypes', HeartbeatStep
  PROVE  Core'
<1> USE DEF kernelVars, connVars, localVars, tableVars, hbVars, stopVars
<1>t. VarTypes
  BY DEF DescriptorInv, TypeOK
<1>h. (hbCur # NoConn => isClosed[hbCur]) /\ NotMadeYet
  BY DEF DescriptorInv
<1>1. CASE HbWake \/ HbNext
  <2>1. Frame /\ UNCHANGED <<closeVars, hbCur>>
    BY <1>1, <1>t, <1>h DEF HbWake, HbNext, Frame, VarTypes, NotMadeYet
  <2> QED
    BY <2>1, <1>h, QuietCore DEF closeVars
<1>2. CASE HbRemove
  <2>1. Frame /\ UNCHANGED closeVars /\ hbCur' = NoConn
    BY <1>2, <1>t, <1>h DEF HbRemove, RemoveConnection, Frame, VarTypes, NotMadeYet,
                             ConstAssumption
  <2> QED
    BY <2>1, QuietCore DEF closeVars
<1>3. ASSUME NEW S \in SUBSET Conns, HbCollect(S)
      PROVE  Core'
  <2>1. Frame /\ UNCHANGED <<closeVars, hbCur>>
    BY <1>3, <1>t, <1>h DEF HbCollect, Frame, VarTypes, NotMadeYet, Range
  <2> QED
    BY <2>1, <1>h, QuietCore DEF closeVars
<1>4. ASSUME NEW c \in Conns, HbPing(c)
      PROVE  Core'
  <2>1. Frame /\ UNCHANGED hbCur /\ Free(Heartbeat) /\ Close(Heartbeat, c)
    BY <1>4, <1>t, <1>h DEF HbPing, Frame, VarTypes, NotMadeYet
  <2>2. hbCur' # NoConn => isClosed'[hbCur']
    BY <2>1, <1>h, <1>t DEF Close, closeVars, VarTypes
  <2> QED
    BY <2>1, <2>2, CloseCore
<1>5. ASSUME NEW c \in Conns, HbClose(c)
      PROVE  Core'
  <2>1. Frame /\ hbCur' = c /\ Free(Heartbeat) /\ Close(Heartbeat, c)
    BY <1>5, <1>t, <1>h DEF HbClose, Frame, VarTypes, NotMadeYet
  <2>2. hbCur' # NoConn => isClosed'[hbCur']
    BY <2>1, <1>t DEF Close, closeVars, VarTypes
  <2> QED
    BY <2>1, <2>2, CloseCore
<1> QED
  BY <1>1, <1>2, <1>3, <1>4, <1>5 DEF HeartbeatStep

(* A step of stop() keeps the invariant.                                   *)
LEMMA StopCore ==
  ASSUME ConstAssumption, DescriptorInv, VarTypes', StopStep
  PROVE  Core'
<1> USE DEF kernelVars, connVars, localVars, tableVars, hbVars
<1>t. VarTypes
  BY DEF DescriptorInv, TypeOK
<1>h. (hbCur # NoConn => isClosed[hbCur]) /\ NotMadeYet
  BY DEF DescriptorInv
<1>1. CASE StopBegin \/ StopJoinAccept \/ StopJoinHeartbeat \/ StopClear
  <2>1. Frame /\ UNCHANGED <<closeVars, hbCur>>
    BY <1>1, <1>t, <1>h DEF StopBegin, StopJoinAccept, StopJoinHeartbeat, StopClear, Frame,
                            VarTypes, NotMadeYet
  <2> QED
    BY <2>1, <1>h, QuietCore DEF closeVars
<1>2. ASSUME NEW c \in Conns, StopClose(c)
      PROVE  Core'
  <2>1. Frame /\ UNCHANGED hbCur /\ Free(Main) /\ Close(Main, c)
    BY <1>2, <1>t, <1>h DEF StopClose, Frame, VarTypes, NotMadeYet
  <2>2. hbCur' # NoConn => isClosed'[hbCur']
    BY <2>1, <1>h, <1>t DEF Close, closeVars, VarTypes
  <2> QED
    BY <2>1, <2>2, CloseCore
<1> QED
  BY <1>1, <1>2 DEF StopStep

(* Every step keeps the inductive invariant.                               *)
LEMMA StepInv == ConstAssumption /\ DescriptorInv /\ [Next]_vars => DescriptorInv'
<1> SUFFICES ASSUME ConstAssumption, DescriptorInv, [Next]_vars
             PROVE  DescriptorInv'
  OBVIOUS
<1>1. CASE UNCHANGED vars
  BY <1>1, SMTT(30) DEF vars, kernelVars, connVars, closeVars, localVars, tableVars, hbVars,
     stopVars, DescriptorInv, TypeOK, VarTypes, LocalTypes, SockWhileOpen, OneCloser,
     NotMadeYet, OpenOwns, ClosesOwnDescriptor, DescriptorTableRight
<1>2. CASE Next
  <2>1. TypeOK
    BY DEF DescriptorInv
  <2>2. VarTypes'
    BY <1>2, <2>1, HandlerTypes, OtherTypes DEF Next
  <2>3. LocalTypes'
    BY <1>2, <2>1, LocalStep
  <2>4. Core'
    <3>1. CASE AcceptLoop \/ AcceptFail
      <4>1. Frame /\ UNCHANGED <<closeVars, hbCur>>
        BY <3>1, <2>1, <2>2 DEF AcceptLoop, AcceptFail, Frame, kernelVars, connVars, localVars,
           tableVars, hbVars, DescriptorInv, TypeOK, VarTypes, NotMadeYet
      <4>2. hbCur # NoConn => isClosed[hbCur]
        BY DEF DescriptorInv
      <4> QED
        BY <4>1, <4>2, QuietCore DEF closeVars
    <3>2. ASSUME NEW c \in Conns, NEW f \in Fds, Accept(c, f)
          PROVE  Core'
      BY <3>2, <2>2, AcceptCore
    <3>3. ASSUME NEW c \in Conns, HandlerStep(c)
          PROVE  Core'
      BY <3>3, <2>2, HandlerCore
    <3>4. ASSUME NEW c \in Conns, Destroy(c)
          PROVE  Core'
      BY <3>4, <2>2, DestroyCore
    <3>5. ASSUME NEW c \in Conns, ClientClose(c) \/ ClientStalls(c)
          PROVE  Core'
      <4>1. Frame /\ UNCHANGED <<closeVars, hbCur>>
        BY <3>5, <2>1, <2>2 DEF ClientClose, ClientStalls, Frame, connVars, localVars,
           tableVars, hbVars, DescriptorInv, TypeOK, VarTypes, NotMadeYet
      <4>2. hbCur # NoConn => isClosed[hbCur]
        BY DEF DescriptorInv
      <4> QED
        BY <4>1, <4>2, QuietCore DEF closeVars
    <3>6. ASSUME NEW t \in Threads, CloseStep(t)
          PROVE  Core'
      BY <3>6, <2>2, CloseReleaseCore, CloseClearCore DEF CloseStep
    <3>7. CASE HeartbeatStep
      BY <3>7, <2>2, HeartbeatCore
    <3>8. CASE StopStep
      BY <3>8, <2>2, StopCore
    <3> QED
      BY <1>2, <3>1, <3>2, <3>3, <3>4, <3>5, <3>6, <3>7, <3>8 DEF Next
  <2> QED
    BY <2>2, <2>3, <2>4 DEF Core, DescriptorInv, TypeOK
<1> QED
  BY <1>1, <1>2

(* The inductive invariant holds in every reachable state.                 *)
THEOREM DescriptorInvariance == Spec => []DescriptorInv
<1>1. Init => DescriptorInv
  BY InitInv
<1>2. DescriptorInv /\ [Next]_vars => DescriptorInv'
  BY StepInv, ConstAssumption
<1> QED
  BY <1>1, <1>2, PTL DEF Spec

(* No handler dereferences a null connection, and socket_ is set exactly   *)
(* while the connection is open or inside close().                         *)
THEOREM TypeCorrect == Spec => []TypeOK
<1>1. DescriptorInv => TypeOK
  BY DEF DescriptorInv
<1> QED
  BY <1>1, DescriptorInvariance, PTL

(* However kicks, timeouts, failed sends, Close frames and stop() race, a  *)
(* descriptor is closed by its own connection only, and only once.         *)
THEOREM NoForeignClose == Spec => []ClosesOwnDescriptor
<1>1. DescriptorInv => ClosesOwnDescriptor
  BY DEF DescriptorInv
<1> QED
  BY <1>1, DescriptorInvariance, PTL

(* A live connection's entry in connections_ is its own or missing.        *)
THEOREM TableRight == Spec => []DescriptorTableRight
<1>1. DescriptorInv => DescriptorTableRight
  BY DEF DescriptorInv
<1> QED
  BY <1>1, DescriptorInvariance, PTL

-----------------------------------------------------------------------------
(* Only a handler that has just received, on an open connection, goes from *)
(* recv() to a frame.                                                      *)
LEMMA RecvToFrame ==
  ASSUME ConstAssumption, TypeOK, Next, NEW d \in Conns,
         pc[d] \in {"recv", "blocked", "stranded"}, pc'[d] = "frame"
  PROVE  ~isClosed[d]
<1>t. VarTypes
  BY DEF TypeOK
<1> USE DEF At, Goto, VarTypes
<1>1. ASSUME NEW c \in Conns, HandlerStep(c)
      PROVE  ~isClosed[d]
  <2>1. CASE Receive(c)
    BY <2>1, <1>t DEF Receive
  <2>2. CASE HandshakeFail(c) \/ HandshakeOk(c) \/ LoopCheck(c) \/ PollTimeout(c)
             \/ PollHangup(c) \/ PollReady(c) \/ RecvBlock(c) \/ RecvEnd(c)
    BY <2>2, <1>t DEF HandshakeFail, HandshakeOk, LoopCheck, PollTimeout, PollHangup,
                      PollReady, RecvBlock, RecvEnd
  <2>3. CASE FrameConsumed(c) \/ BadFrame(c) \/ CloseFrame(c) \/ PlainFrame(c)
    BY <2>3, <1>t DEF FrameConsumed, BadFrame, CloseFrame, PlainFrame
  <2>4. ASSUME NEW u \in Users, LoginFrame(c, u) \/ MessageFrame(c, u)
        PROVE  ~isClosed[d]
    BY <2>4, <1>t DEF LoginFrame, MessageFrame, Dispatch
  <2>5. CASE LoginLookup(c) \/ KickSend(c) \/ LoginKick(c) \/ LoginBind(c)
             \/ AddConnection(c) \/ LoginFinish(c)
    BY <2>5, <1>t DEF LoginLookup, KickSend, LoginKick, LoginBind, AddConnection, LoginFinish
  <2>6. CASE MessageLookup(c) \/ MessageSend(c) \/ MessageWrite(c)
    BY <2>6, <1>t DEF MessageLookup, MessageSend, MessageWrite
  <2>7. CASE HandlerRemove(c) \/ OnDisconnect(c)
    BY <2>7, <1>t DEF HandlerRemove, OnDisconnect
  <2> QED
    BY <1>1, <2>1, <2>2, <2>3, <2>4, <2>5, <2>6, <2>7 DEF HandlerStep
<1>2. ASSUME NEW c \in Conns, NEW f \in Fds, Accept(c, f)
      PROVE  ~isClosed[d]
  BY <1>2, <1>t DEF Accept
<1>3. CASE UNCHANGED pc
  BY <1>3
<1>4. CASE AcceptLoop \/ AcceptFail
  BY <1>4 DEF AcceptLoop, AcceptFail
<1>5. ASSUME NEW c \in Conns, Destroy(c) \/ ClientClose(c) \/ ClientStalls(c)
      PROVE  UNCHANGED pc
  BY <1>5 DEF Destroy, ClientClose, ClientStalls
<1>6. ASSUME NEW t \in Threads, CloseStep(t)
      PROVE  UNCHANGED pc
  BY <1>6 DEF CloseStep, CloseRelease, CloseClear
<1>7. CASE HeartbeatStep
  BY <1>7 DEF HeartbeatStep, HbWake, HbRemove, HbNext, HbPing, HbClose, HbCollect
<1>8. CASE StopStep
  BY <1>8 DEF StopStep, StopBegin, StopJoinAccept, StopJoinHeartbeat, StopClear, StopClose
<1> QED
  BY <1>1, <1>2, <1>3, <1>4, <1>5, <1>6, <1>7, <1>8 DEF Next

(* Whatever happened to the descriptor between a handler's test of closed_ *)
(* and its recv(), the bytes it goes on to parse came from its own client. *)
THEOREM ParsesOwnBytes == Spec => OwnBytesOnly
<1>1. ASSUME ConstAssumption, DescriptorInv, [Next]_vars
      PROVE  \A c \in Conns :
               pc[c] \in {"recv", "blocked", "stranded"} /\ pc'[c] = "frame"
                 => owner[lfd[c]] = c
  <2> SUFFICES ASSUME NEW c \in Conns,
                      pc[c] \in {"recv", "blocked", "stranded"}, pc'[c] = "frame"
               PROVE  owner[lfd[c]] = c
    OBVIOUS
  <2>1. Next
    BY <1>1 DEF vars
  <2>2. ~isClosed[c]
    BY <1>1, <2>1, RecvToFrame DEF DescriptorInv
  <2>3. VarTypes /\ SockWhileOpen /\ OpenOwns
    BY <1>1 DEF DescriptorInv, TypeOK
  <2> QED
    BY <2>2, <2>3 DEF SockWhileOpen, OpenOwns
<1>2. DescriptorInv /\ [Next]_vars
        => [\A c \in Conns :
              pc[c] \in {"recv", "blocked", "stranded"} /\ pc'[c] = "frame"
                => owner[lfd[c]] = c]_vars
  BY <1>1, ConstAssumption
<1> QED
  BY <1>2, DescriptorInvariance, PTL DEF Spec, OwnBytesOnly

-----------------------------------------------------------------------------
(* The only steps that touch a route: a login enters its own connection;   *)
(* a handler's cleanup, the sweep and stop() only take routes out, the     *)
(* first two their own connection's.                                       *)
RouteStep ==
  \/ UNCHANGED userConns
  \/ \E c \in Conns : pc[c] = "register" /\ pc'[c] = "online"
                     /\ userConns' = [userConns EXCEPT ![uid[c]] = c]
  \/ \E c \in Conns, u \in Users :
       /\ pc[c] = "remove" \/ c = hbCur
       /\ userConns[u] = c /\ userConns' = [userConns EXCEPT ![u] = NoConn]
  \/ mainPc = "closing" /\ userConns' = [u \in Users |-> NoConn]

(* Every step is one of those.                                             *)
LEMMA RouteSteps ==
  ASSUME ConstAssumption, TypeOK, Next
  PROVE  RouteStep
<1>t. VarTypes /\ LocalTypes
  BY DEF TypeOK
<1> USE DEF tableVars
<1>q. CASE UNCHANGED userConns
  BY <1>q DEF RouteStep
<1>1. ASSUME NEW c \in Conns, HandlerStep(c)
      PROVE  RouteStep
  <2>1. CASE AddConnection(c)
    BY <2>1, <1>t DEF AddConnection, At, Goto, RouteStep, VarTypes
  <2>2. CASE HandlerRemove(c)
    BY <2>2, <1>t DEF HandlerRemove, RemoveConnection, At, Goto, RouteStep, VarTypes
  <2>3. CASE HandshakeFail(c) \/ HandshakeOk(c) \/ LoopCheck(c) \/ PollTimeout(c)
             \/ PollHangup(c) \/ PollReady(c) \/ RecvBlock(c) \/ RecvEnd(c)
             \/ Receive(c)
    BY <2>3, <1>q DEF HandshakeFail, HandshakeOk, LoopCheck, PollTimeout, PollHangup,
                      PollReady, RecvBlock, RecvEnd, Receive
  <2>4. CASE FrameConsumed(c) \/ BadFrame(c) \/ CloseFrame(c) \/ PlainFrame(c)
    BY <2>4, <1>q DEF FrameConsumed, BadFrame, CloseFrame, PlainFrame
  <2>5. ASSUME NEW u \in Users, LoginFrame(c, u) \/ MessageFrame(c, u)
        PROVE  RouteStep
    BY <2>5, <1>q DEF LoginFrame, MessageFrame, Dispatch
  <2>6. CASE LoginLookup(c) \/ KickSend(c) \/ LoginKick(c) \/ LoginBind(c)
             \/ LoginFinish(c)
    BY <2>6, <1>q DEF LoginLookup, KickSend, LoginKick, LoginBind, LoginFinish
  <2>7. CASE MessageLookup(c) \/ MessageSend(c) \/ MessageWrite(c) \/ OnDisconnect(c)
    BY <2>7, <1>q DEF MessageLookup, MessageSend, MessageWrite, OnDisconnect
  <2> QED
    BY <1>1, <2>1, <2>2, <2>3, <2>4, <2>5, <2>6, <2>7 DEF HandlerStep
<1>2. CASE HbRemove
  BY <1>2, <1>t DEF HbRemove, RemoveConnection, RouteStep, VarTypes
<1>3. CASE StopClear
  BY <1>3 DEF StopClear, RouteStep
<1>4. CASE AcceptLoop \/ AcceptFail
  BY <1>4, <1>q DEF AcceptLoop, AcceptFail
<1>5. ASSUME NEW c \in Conns, Destroy(c) \/ ClientClose(c) \/ ClientStalls(c)
                            \/ \E f \in Fds : Accept(c, f)
      PROVE  RouteStep
  BY <1>5, <1>q DEF Destroy, ClientClose, ClientStalls, Accept
<1>6. ASSUME NEW t \in Threads, CloseStep(t)
      PROVE  RouteStep
  BY <1>6, <1>q DEF CloseStep, CloseRelease, CloseClear
<1>7. CASE HeartbeatStep
  BY <1>7, <1>2, <1>q DEF HeartbeatStep, HbWake, HbNext, HbPing, HbClose, HbCollect
<1>8. CASE StopStep
  BY <1>8, <1>3, <1>q DEF StopStep, StopBegin, StopJoinAccept, StopJoinHeartbeat, StopClose
<1> QED
  BY <1>1, <1>4, <1>5, <1>6, <1>7, <1>8 DEF Next

(* While the server runs, a route is taken out only when its connection is *)
(* closed or its own thread is leaving: an older connection's cleanup never*)
(* takes down a newer login.                                               *)
THEOREM RouteSurvives == Spec => RouteDropsOnlyDead
<1>1. ASSUME ConstAssumption, DescriptorInv, [Next]_vars
      PROVE  \A u \in Users :
               LET c == userConns[u] IN
               c # NoConn /\ userConns'[u] = NoConn /\ mainPc # "closing"
                 => isClosed[c] \/ pc[c] = "remove"
  <2> SUFFICES ASSUME NEW u \in Users, userConns[u] # NoConn, userConns'[u] = NoConn,
                      mainPc # "closing"
               PROVE  isClosed[userConns[u]] \/ pc[userConns[u]] = "remove"
    OBVIOUS
  <2>1. VarTypes /\ (hbCur # NoConn => isClosed[hbCur])
    BY <1>1 DEF DescriptorInv, TypeOK
  <2>2. Next
    BY <1>1 DEF vars, tableVars
  <2>3. RouteStep
    BY <1>1, <2>2, RouteSteps DEF DescriptorInv
  <2> QED
    BY <2>1, <2>3, ConstAssumption DEF RouteStep, VarTypes
<1>2. DescriptorInv /\ [Next]_vars
        => [\A u \in Users :
              LET c == userConns[u] IN
              c # NoConn /\ userConns'[u] = NoConn /\ mainPc # "closing"
                => isClosed[c] \/ pc[c] = "remove"]_vars
  BY <1>1, ConstAssumption
<1> QED
  BY <1>2, DescriptorInvariance, PTL DEF Spec, RouteDropsOnlyDead

(* A thread arrives at its end from a failed handshake or through          *)
(* remove_connection, and its account does not change after that.          *)
LEMMA ExitSteps ==
  ASSUME ConstAssumption, TypeOK, Next, NEW d \in Conns, pc'[d] \in {"offline", "done"}
  PROVE  /\ uid'[d] = uid[d]
         /\ HandlerRemove(d) \/ pc[d] \in {"offline", "done", "handshake"}
<1>t. VarTypes
  BY DEF TypeOK
<1> DEFINE P == /\ uid'[d] = uid[d]
                /\ HandlerRemove(d) \/ pc[d] \in {"offline", "done", "handshake"}
<1> USE DEF At, Goto, VarTypes, localVars
<1>1. ASSUME NEW c \in Conns, HandlerStep(c)
      PROVE  P
  <2>1. CASE LoginBind(c)
    BY <2>1, <1>t DEF LoginBind
  <2>2. CASE HandlerRemove(c)
    BY <2>2, <1>t DEF HandlerRemove
  <2>3. CASE HandshakeFail(c) \/ HandshakeOk(c) \/ LoopCheck(c) \/ PollTimeout(c)
             \/ PollHangup(c) \/ PollReady(c) \/ RecvBlock(c) \/ RecvEnd(c)
             \/ Receive(c)
    BY <2>3, <1>t DEF HandshakeFail, HandshakeOk, LoopCheck, PollTimeout, PollHangup,
                      PollReady, RecvBlock, RecvEnd, Receive
  <2>4. CASE FrameConsumed(c) \/ BadFrame(c) \/ CloseFrame(c) \/ PlainFrame(c)
    BY <2>4, <1>t DEF FrameConsumed, BadFrame, CloseFrame, PlainFrame
  <2>5. ASSUME NEW u \in Users, LoginFrame(c, u) \/ MessageFrame(c, u)
        PROVE  P
    BY <2>5, <1>t DEF LoginFrame, MessageFrame, Dispatch
  <2>6. CASE LoginLookup(c) \/ KickSend(c) \/ LoginKick(c)
             \/ AddConnection(c) \/ LoginFinish(c)
    BY <2>6, <1>t DEF LoginLookup, KickSend, LoginKick, AddConnection, LoginFinish
  <2>7. CASE MessageLookup(c) \/ MessageSend(c) \/ MessageWrite(c) \/ OnDisconnect(c)
    BY <2>7, <1>t DEF MessageLookup, MessageSend, MessageWrite, OnDisconnect
  <2> QED
    BY <1>1, <2>1, <2>2, <2>3, <2>4, <2>5, <2>6, <2>7 DEF HandlerStep
<1>2. ASSUME NEW c \in Conns, NEW f \in Fds, Accept(c, f)
      PROVE  P
  BY <1>2, <1>t DEF Accept
<1>3. CASE UNCHANGED <<pc, uid>>
  BY <1>3
<1>4. CASE AcceptLoop \/ AcceptFail
  BY <1>4, <1>3 DEF AcceptLoop, AcceptFail
<1>5. ASSUME NEW c \in Conns, Destroy(c) \/ ClientClose(c) \/ ClientStalls(c)
      PROVE  P
  BY <1>5, <1>3 DEF Destroy, ClientClose, ClientStalls
<1>6. ASSUME NEW t \in Threads, CloseStep(t)
      PROVE  P
  BY <1>6, <1>3 DEF CloseStep, CloseRelease, CloseClear
<1>7. CASE HeartbeatStep
  BY <1>7, <1>3 DEF HeartbeatStep, HbWake, HbRemove, HbNext, HbPing, HbClose, HbCollect
<1>8. CASE StopStep
  BY <1>8, <1>3 DEF StopStep, StopBegin, StopJoinAccept, StopJoinHeartbeat, StopClear, StopClose
<1> QED
  BY <1>1, <1>2, <1>4, <1>5, <1>6, <1>7, <1>8 DEF Next

(* A finished handler thread leaves no route to its dead connection,       *)
(* whoever closed it: remove_connection looks the user up, not the socket. *)
THEOREM NoStaleRoute == Spec => []NoRouteAfterExit
<1>1. Init => NoRouteAfterExit
  BY DEF Init, NoRouteAfterExit
<1>2. ASSUME ConstAssumption, DescriptorInv, NoRouteAfterExit, [Next]_vars
      PROVE  NoRouteAfterExit'
  <2>1. CASE UNCHANGED vars
    BY <1>2, <2>1 DEF vars, localVars, tableVars, NoRouteAfterExit
  <2>2. CASE Next
    <3> SUFFICES ASSUME NEW d \in Conns, pc'[d] \in {"offline", "done"}, uid'[d] # NoUser
                 PROVE  userConns'[uid'[d]] # d
      BY DEF NoRouteAfterExit
    <3>1. TypeOK /\ NotMadeYet /\ VarTypes
      BY <1>2 DEF DescriptorInv, TypeOK
    <3>2. /\ uid'[d] = uid[d]
          /\ HandlerRemove(d) \/ pc[d] \in {"offline", "done", "handshake"}
      BY <1>2, <2>2, <3>1, ExitSteps
    <3>3. CASE HandlerRemove(d)
      BY <3>1, <3>2, <3>3, ConstAssumption DEF HandlerRemove, RemoveConnection, VarTypes
    <3>4. CASE pc[d] \in {"offline", "done"}
      <4>1. RouteStep /\ userConns[uid[d]] # d
        BY <1>2, <2>2, <3>1, <3>2, <3>4, RouteSteps DEF NoRouteAfterExit
      <4>2. uid[d] \in Users /\ d # NoConn
        BY <3>1, <3>2, ConstAssumption DEF VarTypes
      <4> QED
        BY <3>1, <3>2, <3>4, <4>1, <4>2 DEF RouteStep, VarTypes
    <3>5. CASE pc[d] = "handshake"
      BY <3>1, <3>2, <3>5 DEF NotMadeYet
    <3> QED
      BY <3>2, <3>3, <3>4, <3>5
  <2> QED
    BY <1>2, <2>1, <2>2
<1>3. DescriptorInv /\ NoRouteAfterExit /\ [Next]_vars => NoRouteAfterExit'
  BY <1>2, ConstAssumption
<1> QED
  BY <1>1, <1>3, DescriptorInvariance, PTL DEF Spec
============================================================================
