------------------------ MODULE ClientReconnectProofs ------------------------
(***************************************************************************)
(* Proofs about the client's connection: LinkInv is inductive, so for any  *)
(* number of devices, channels and faults an app that has been started     *)
(* keeps trying and a connected one hears its channel; and CalmRight is,   *)
(* so a device never makes the gateway kick its own connection.            *)
(***************************************************************************)
EXTENDS ClientReconnect, TLAPS

LEMMA InitLink == ClientAssumption /\ Init => LinkInv
  BY DEF ClientAssumption, Init, LinkInv, TypeOK, LinksRight, KeepsTrying, ConnectedHears, Faults

(* The values that the operations write.                                   *)
LEMMA SpendTypes ==
  ASSUME TypeOK, NEW f \in Faults, Spend(f)
  PROVE  left' \in [Faults -> Nat]
<1>1. left \in [Faults -> Nat]  BY DEF TypeOK
<1>2. left[f] - 1 \in Nat /\ left' = [left EXCEPT ![f] = left[f] - 1]  BY <1>1 DEF Spend
<1> QED  BY <1>1, <1>2

LEMMA RequestTypes ==
  ASSUME TypeOK, NEW c \in Chans, NEW n \in Nat
  PROVE  [req EXCEPT ![c] = n] \in [Chans -> Nat] /\ req[c] \in Nat /\ req[c] + 1 \in Nat
<1>1. req \in [Chans -> Nat]  BY DEF TypeOK
<1> QED  BY <1>1

LEMMA InboxTypes ==
  ASSUME TypeOK, NEW c \in Chans, inbox[c] # <<>>, inbox' = [inbox EXCEPT ![c] = Tail(@)]
  PROVE  inbox' \in [Chans -> Seq({"loginOk", "kicked"})]
<1>1. inbox \in [Chans -> Seq({"loginOk", "kicked"})]  BY DEF TypeOK
<1>2. inbox[c] \in Seq({"loginOk", "kicked"})  BY <1>1
<1>3. Tail(inbox[c]) \in Seq({"loginOk", "kicked"})  BY <1>2
<1> QED  BY <1>1, <1>3

LEMMA EmptyInboxTypes ==
  ASSUME TypeOK, NEW c \in Chans, inbox' = [inbox EXCEPT ![c] = <<>>]
  PROVE  inbox' \in [Chans -> Seq({"loginOk", "kicked"})]
<1>1. inbox \in [Chans -> Seq({"loginOk", "kicked"})]  BY DEF TypeOK
<1>2. <<>> \in Seq({"loginOk", "kicked"})  OBVIOUS
<1> QED  BY <1>1, <1>2

LEMMA ForgetTypes ==
  ASSUME TypeOK, NEW c \in Chans, Forget(c)
  PROVE  /\ listening' \in [Chans -> BOOLEAN] /\ known' \in [Chans -> BOOLEAN]
         /\ route' \in Chans \cup {NoChan}
         /\ req' \in [Chans -> Nat]
         /\ inbox' \in [Chans -> Seq({"loginOk", "kicked"})]
<1>1. /\ listening' \in [Chans -> BOOLEAN] /\ known' \in [Chans -> BOOLEAN]
      /\ route' \in Chans \cup {NoChan}
  BY DEF Forget, TypeOK
<1>2. req' \in [Chans -> Nat]  BY RequestTypes DEF Forget
<1>3. inbox' \in [Chans -> Seq({"loginOk", "kicked"})]  BY EmptyInboxTypes DEF Forget
<1> QED  BY <1>1, <1>2, <1>3

(* A new attempt takes a channel that is no other device's.                *)
LEMMA StartConnectSteps ==
  ASSUME LinkInv, NEW d \in Devices, NEW caller \in {"user", "timer"},
         connecting[d] = "no", StartConnect(d, caller),
         UNCHANGED <<connected, missed>>
  PROVE  /\ chan' \in [Devices -> Chans \cup {NoChan}]
         /\ connecting' \in [Devices -> {"no", "user", "timer"}]
         /\ net' \in [Chans -> {"free", "opening", "doomed", "open", "closing", "dead"}]
         /\ holder' \in [Chans -> Devices]
         /\ listening' \in [Chans -> BOOLEAN] /\ known' \in [Chans -> BOOLEAN]
         /\ route' \in Chans \cup {NoChan}
         /\ req' \in [Chans -> Nat]
         /\ inbox' \in [Chans -> Seq({"loginOk", "kicked"})]
         /\ LinksRight' /\ ConnectedHears'
<1>1. PICK c \in Chans :
        /\ net[c] = "free" \/ Abandoned(c)
        /\ net' = [net EXCEPT ![c] = "opening"]
        /\ Forget(c)
        /\ holder' = [holder EXCEPT ![c] = d]
        /\ chan' = [chan EXCEPT ![d] = c]
        /\ connecting' = [connecting EXCEPT ![d] = caller]
  BY DEF StartConnect
<1>2. /\ chan' \in [Devices -> Chans \cup {NoChan}]
      /\ connecting' \in [Devices -> {"no", "user", "timer"}]
      /\ net' \in [Chans -> {"free", "opening", "doomed", "open", "closing", "dead"}]
      /\ holder' \in [Chans -> Devices]
  BY <1>1 DEF LinkInv, TypeOK
<1>3. /\ ~listening[c]
      /\ \A e \in Devices : connecting[e] # "no" => chan[e] # c
      /\ listening' = [listening EXCEPT ![c] = FALSE]
  BY <1>1 DEF LinkInv, LinksRight, Abandoned, Forget
<1>4. ASSUME NEW e \in Devices, connecting'[e] # "no"
      PROVE  chan'[e] \in Chans /\ net'[chan'[e]] \in {"opening", "doomed"} /\ holder'[chan'[e]] = e
  <2>1. CASE e = d  BY <1>1, <2>1 DEF LinkInv, TypeOK
  <2>2. CASE e # d  BY <1>1, <1>3, <1>4, <2>2 DEF LinkInv, TypeOK, LinksRight
  <2> QED  BY <2>1, <2>2
<1>5. ASSUME NEW x \in Chans, listening'[x] PROVE net'[x] \in {"open", "closing", "dead"}
  BY <1>1, <1>3, <1>5 DEF LinkInv, TypeOK, LinksRight
<1>6. ASSUME NEW e \in Devices, connected'[e] PROVE missed'[e] < MaxMissed /\ chan'[e] \in Chans
  BY <1>1, <1>6 DEF LinkInv, TypeOK, LinksRight
<1>7. ASSUME NEW e \in Devices, connected'[e], connecting'[e] = "no"
      PROVE  listening'[chan'[e]] /\ holder'[chan'[e]] = e
  <2>1. e # d  BY <1>1, <1>7 DEF LinkInv, TypeOK
  <2>2. listening[chan[e]] /\ holder[chan[e]] = e /\ chan'[e] = chan[e] /\ chan[e] \in Chans
    BY <1>1, <1>7, <2>1 DEF LinkInv, TypeOK, LinksRight, ConnectedHears
  <2> QED  BY <1>1, <1>3, <2>2 DEF LinkInv, TypeOK
<1>8. /\ listening' \in [Chans -> BOOLEAN] /\ known' \in [Chans -> BOOLEAN]
      /\ route' \in Chans \cup {NoChan}
      /\ req' \in [Chans -> Nat]
      /\ inbox' \in [Chans -> Seq({"loginOk", "kicked"})]
  BY <1>1, ForgetTypes DEF LinkInv
<1> QED  BY <1>2, <1>4, <1>5, <1>6, <1>7, <1>8 DEF LinksRight, ConnectedHears

(* The steps of connect().                                                 *)
LEMMA ConnectSteps ==
  ASSUME ClientAssumption, LinkInv, NEW d \in Devices,
         UserConnect(d) \/ TimerFires(d) \/ ConnectReady(d) \/ ConnectFails(d)
  PROVE  LinkInv'
<1> USE DEF LinkInv, ClientAssumption, Faults
<1>1. CASE UserConnect(d)
  <2>1. connecting[d] = "no" /\ StartConnect(d, "user") /\ UNCHANGED <<connected, missed>>
    BY <1>1 DEF UserConnect
  <2>2. calm' \in BOOLEAN  BY <1>1, Zenon DEF UserConnect
  <2>3. TypeOK'  BY <1>1, <2>1, <2>2, StartConnectSteps DEF UserConnect, TypeOK
  <2>4. KeepsTrying'  BY <1>1 DEF UserConnect, StartConnect, TypeOK, KeepsTrying
  <2> QED  BY <2>1, <2>3, <2>4, StartConnectSteps
<1>2. CASE TimerFires(d)
  <2>1. timer' \in [Devices -> BOOLEAN]  BY <1>2 DEF TimerFires, TypeOK
  <2>2. KeepsTrying'  BY <1>2 DEF TimerFires, StartConnect, TypeOK, KeepsTrying
  <2>3. CASE connecting[d] = "no"
    <3>1. StartConnect(d, "timer") /\ UNCHANGED <<connected, missed>>
      BY <1>2, <2>3 DEF TimerFires
    <3>2. TypeOK'  BY <1>2, <2>1, <2>3, <3>1, StartConnectSteps DEF TimerFires, TypeOK
    <3> QED  BY <2>2, <2>3, <3>1, <3>2, StartConnectSteps
  <2>4. CASE connecting[d] # "no"
    <3>1. UNCHANGED <<chanVars, route, chan, connecting, connected, missed>>
      BY <1>2, <2>4 DEF TimerFires
    <3>2. TypeOK'  BY <1>2, <2>1, <3>1 DEF TimerFires, TypeOK, chanVars
    <3>3. LinksRight' /\ ConnectedHears'  BY <3>1 DEF LinksRight, ConnectedHears, chanVars
    <3> QED  BY <2>2, <3>2, <3>3
  <2> QED  BY <2>3, <2>4
<1>3. CASE ConnectReady(d)
  <2> DEFINE c == chan[d]
  <2>1. /\ c \in Chans /\ net[c] \in {"opening", "doomed"} /\ holder[c] = d
        /\ net' = [net EXCEPT ![c] = IF @ = "doomed" THEN "closing" ELSE "open"]
        /\ connecting' = [connecting EXCEPT ![d] = "no"]
        /\ connected' = [connected EXCEPT ![d] = TRUE]
        /\ shown' = [shown EXCEPT ![d] = TRUE]
        /\ missed' = [missed EXCEPT ![d] = 0]
        /\ beating' = [beating EXCEPT ![d] = TRUE]
        /\ listening' = [listening EXCEPT ![c] = TRUE]
        /\ req' \in {req, [req EXCEPT ![c] = @ + 1]}
        /\ UNCHANGED <<chan, timer, creds, authed, waiting, holder, inbox, known, route, left, calm>>
    <3>1. req' \in {req, [req EXCEPT ![c] = @ + 1]}  BY <1>3 DEF ConnectReady, TypeOK
    <3> QED  BY <1>3, <3>1 DEF ConnectReady, Opens, LinksRight
  <2> HIDE DEF c
  <2>2. TypeOK'
    <3>1. net' \in [Chans -> {"free", "opening", "doomed", "open", "closing", "dead"}]
      BY <2>1 DEF TypeOK
    <3>2. req' \in [Chans -> Nat]
      <4>1. CASE req' = req  BY <4>1 DEF TypeOK
      <4>2. CASE req' = [req EXCEPT ![c] = @ + 1]
        <5>1. req[c] + 1 \in Nat  BY <2>1, RequestTypes
        <5> QED  BY <2>1, <4>2, <5>1, RequestTypes
      <4> QED  BY <2>1, <4>1, <4>2
    <3>3. missed' \in [Devices -> 0..MaxMissed]  BY <2>1 DEF TypeOK
    <3>4. connecting' \in [Devices -> {"no", "user", "timer"}]  BY <2>1 DEF TypeOK
    <3>5. /\ connected' \in [Devices -> BOOLEAN] /\ shown' \in [Devices -> BOOLEAN]
          /\ beating' \in [Devices -> BOOLEAN] /\ listening' \in [Chans -> BOOLEAN]
      BY <2>1 DEF TypeOK
    <3> QED  BY <2>1, <3>1, <3>2, <3>3, <3>4, <3>5 DEF TypeOK
  <2>3. LinksRight'
    <3>1. ASSUME NEW e \in Devices, connecting'[e] # "no"
          PROVE  chan'[e] \in Chans /\ net'[chan'[e]] \in {"opening", "doomed"} /\ holder'[chan'[e]] = e
      <4>1. e # d /\ connecting[e] # "no"  BY <2>1, <3>1 DEF TypeOK
      <4>2. chan[e] \in Chans /\ net[chan[e]] \in {"opening", "doomed"} /\ holder[chan[e]] = e
        BY <4>1 DEF LinksRight
      <4>3. chan[e] # c  BY <2>1, <4>1, <4>2
      <4> QED  BY <2>1, <4>2, <4>3 DEF TypeOK
    <3>2. ASSUME NEW x \in Chans, listening'[x] PROVE net'[x] \in {"open", "closing", "dead"}
      <4>1. CASE x = c  BY <2>1, <4>1 DEF TypeOK
      <4>2. CASE x # c  BY <2>1, <3>2, <4>2 DEF TypeOK, LinksRight
      <4> QED  BY <4>1, <4>2
    <3>3. ASSUME NEW e \in Devices, connected'[e] PROVE missed'[e] < MaxMissed /\ chan'[e] \in Chans
      <4>1. CASE e = d
        <5>1. missed'[e] = 0 /\ chan'[e] = c  BY <2>1, <4>1 DEF TypeOK, c
        <5> QED  BY <2>1, <5>1
      <4>2. CASE e # d  BY <2>1, <3>3, <4>2 DEF TypeOK, LinksRight
      <4> QED  BY <4>1, <4>2
    <3> QED  BY <3>1, <3>2, <3>3 DEF LinksRight
  <2>4. KeepsTrying'  BY <2>1 DEF TypeOK, KeepsTrying
  <2>5. ConnectedHears'
    <3>1. ASSUME NEW e \in Devices, connected'[e], connecting'[e] = "no"
          PROVE  listening'[chan'[e]] /\ holder'[chan'[e]] = e
      <4>1. CASE e = d  BY <2>1, <4>1 DEF TypeOK, c
      <4>2. CASE e # d
        <5>1. connected[e] /\ connecting[e] = "no"  BY <2>1, <3>1, <4>2 DEF TypeOK
        <5>2. listening[chan[e]] /\ holder[chan[e]] = e /\ chan[e] \in Chans
          BY <5>1 DEF LinksRight, ConnectedHears
        <5> QED  BY <2>1, <5>2 DEF TypeOK
      <4> QED  BY <4>1, <4>2
    <3> QED  BY <3>1 DEF ConnectedHears
  <2> QED  BY <2>2, <2>3, <2>4, <2>5
<1>4. CASE ConnectFails(d)
  <2> DEFINE c == chan[d]
  <2>1. /\ c \in Chans /\ connecting[d] # "no"
        /\ Spend("refusal")
        /\ connecting' = [connecting EXCEPT ![d] = "no"]
        /\ connected' = [connected EXCEPT ![d] = FALSE]
        /\ timer' = [timer EXCEPT ![d] = TRUE]
        /\ Discard(c) \/ UNCHANGED <<net, listening, inbox, req, known, route>>
        /\ UNCHANGED <<chan, beating, missed, creds, shown, authed, waiting, holder, calm>>
    BY <1>4, Zenon DEF ConnectFails, LinksRight
  <2>2. /\ net[c] \in {"opening", "doomed"} /\ holder[c] = d
    BY <2>1 DEF LinksRight
  <2> HIDE DEF c
  <2>3. /\ \A x \in Chans : x # c => net'[x] = net[x] /\ listening'[x] = listening[x]
        /\ ~listening'[c]
    <3>1. ~listening[c]  BY <2>1, <2>2 DEF LinksRight
    <3>2. CASE Discard(c)  BY <2>1, <3>2 DEF Discard, Forget, TypeOK
    <3> QED  BY <2>1, <3>1, <3>2
  <2>4. TypeOK'
    <3>1. /\ connecting' \in [Devices -> {"no", "user", "timer"}]
          /\ connected' \in [Devices -> BOOLEAN] /\ timer' \in [Devices -> BOOLEAN]
      BY <2>1 DEF TypeOK
    <3>2. /\ net' \in [Chans -> {"free", "opening", "doomed", "open", "closing", "dead"}]
          /\ listening' \in [Chans -> BOOLEAN] /\ known' \in [Chans -> BOOLEAN]
          /\ route' \in Chans \cup {NoChan}
          /\ req' \in [Chans -> Nat]
          /\ inbox' \in [Chans -> Seq({"loginOk", "kicked"})]
      <4>1. CASE Discard(c)
        <5>1. Forget(c) /\ net' = [net EXCEPT ![c] = "free"]  BY <4>1 DEF Discard
        <5>2. net' \in [Chans -> {"free", "opening", "doomed", "open", "closing", "dead"}]
          BY <5>1 DEF TypeOK
        <5> QED  BY <2>1, <5>1, <5>2, ForgetTypes
      <4>2. CASE UNCHANGED <<net, listening, inbox, req, known, route>>  BY <4>2 DEF TypeOK
      <4> QED  BY <2>1, <4>1, <4>2
    <3>3. left' \in [Faults -> Nat]  BY <2>1, SpendTypes
    <3> QED  BY <2>1, <3>1, <3>2, <3>3 DEF TypeOK
  <2>5. LinksRight'
    <3>1. ASSUME NEW e \in Devices, connecting'[e] # "no"
          PROVE  chan'[e] \in Chans /\ net'[chan'[e]] \in {"opening", "doomed"} /\ holder'[chan'[e]] = e
      <4>1. e # d /\ connecting[e] # "no"  BY <2>1, <3>1 DEF TypeOK
      <4>2. chan[e] \in Chans /\ net[chan[e]] \in {"opening", "doomed"} /\ holder[chan[e]] = e
        BY <4>1 DEF LinksRight
      <4>3. chan[e] # c  BY <2>2, <4>1, <4>2
      <4> QED  BY <2>1, <2>3, <4>2, <4>3
    <3>2. ASSUME NEW x \in Chans, listening'[x] PROVE net'[x] \in {"open", "closing", "dead"}
      BY <2>3, <3>2 DEF LinksRight
    <3>3. ASSUME NEW e \in Devices, connected'[e] PROVE missed'[e] < MaxMissed /\ chan'[e] \in Chans
      BY <2>1, <3>3 DEF TypeOK, LinksRight
    <3> QED  BY <3>1, <3>2, <3>3 DEF LinksRight
  <2>6. KeepsTrying'  BY <2>1 DEF TypeOK, KeepsTrying
  <2>7. ConnectedHears'
    <3>1. ASSUME NEW e \in Devices, connected'[e], connecting'[e] = "no"
          PROVE  listening'[chan'[e]] /\ holder'[chan'[e]] = e
      <4>1. e # d /\ connected[e] /\ connecting[e] = "no"  BY <2>1, <3>1 DEF TypeOK
      <4>2. listening[chan[e]] /\ holder[chan[e]] = e /\ chan[e] \in Chans
        BY <4>1 DEF LinksRight, ConnectedHears
      <4>3. chan[e] # c  BY <2>2, <4>1, <4>2
      <4> QED  BY <2>1, <2>3, <4>2, <4>3
    <3> QED  BY <3>1 DEF ConnectedHears
  <2> QED  BY <2>4, <2>5, <2>6, <2>7
<1> QED  BY <1>1, <1>2, <1>3, <1>4

(* The callbacks of a channel's stream.                                    *)
LEMMA StreamSteps ==
  ASSUME ClientAssumption, LinkInv, NEW c \in Chans, Done(c) \/ LoginOk(c) \/ Kicked(c)
  PROVE  LinkInv'
<1> USE DEF LinkInv
<1>1. CASE Done(c)
  <2> DEFINE d == holder[c]
  <2>1. /\ d \in Devices /\ net[c] = "dead"
        /\ HandleDisconnect(d) /\ Discard(c)
        /\ UNCHANGED <<chan, connecting, missed, creds, authed, waiting, holder, left, calm>>
    BY <1>1 DEF Done, TypeOK
  <2> HIDE DEF d
  <2>2. TypeOK'
    <3>1. /\ connected' \in [Devices -> BOOLEAN] /\ shown' \in [Devices -> BOOLEAN]
          /\ beating' \in [Devices -> BOOLEAN] /\ timer' \in [Devices -> BOOLEAN]
      BY <2>1 DEF HandleDisconnect, TypeOK
    <3>2. /\ net' \in [Chans -> {"free", "opening", "doomed", "open", "closing", "dead"}]
          /\ listening' \in [Chans -> BOOLEAN] /\ known' \in [Chans -> BOOLEAN]
          /\ route' \in Chans \cup {NoChan}
      BY <2>1, ForgetTypes DEF Discard, TypeOK
    <3>3. req' \in [Chans -> Nat] /\ inbox' \in [Chans -> Seq({"loginOk", "kicked"})]
      BY <2>1, ForgetTypes DEF Discard
    <3> QED  BY <2>1, <3>1, <3>2, <3>3 DEF TypeOK
  <2>3. LinksRight'
    <3>1. \A x \in Chans : x # c => net'[x] = net[x] /\ listening'[x] = listening[x]
      BY <2>1 DEF Discard, Forget, TypeOK
    <3>2. ~listening'[c]  BY <2>1 DEF Discard, Forget, TypeOK
    <3>3. ASSUME NEW e \in Devices, connecting'[e] # "no"
          PROVE  chan'[e] \in Chans /\ net'[chan'[e]] \in {"opening", "doomed"} /\ holder'[chan'[e]] = e
      <4>1. chan[e] \in Chans /\ net[chan[e]] \in {"opening", "doomed"} /\ holder[chan[e]] = e
        BY <2>1, <3>3 DEF LinksRight
      <4> QED  BY <2>1, <3>1, <4>1
    <3>4. ASSUME NEW e \in Devices, connected'[e] PROVE missed'[e] < MaxMissed /\ chan'[e] \in Chans
      <4>1. connected[e]  BY <2>1, <3>4 DEF HandleDisconnect, TypeOK
      <4> QED  BY <2>1, <4>1 DEF LinksRight
    <3> QED  BY <3>1, <3>2, <3>3, <3>4 DEF LinksRight
  <2>4. KeepsTrying'  BY <2>1 DEF HandleDisconnect, TypeOK, KeepsTrying
  <2>5. ConnectedHears'
    <3>1. ASSUME NEW e \in Devices, connected'[e], connecting'[e] = "no"
          PROVE  listening'[chan'[e]] /\ holder'[chan'[e]] = e
      <4>1. e # d /\ connected[e]  BY <2>1, <3>1 DEF HandleDisconnect, TypeOK
      <4>2. listening[chan[e]] /\ holder[chan[e]] = e /\ chan[e] \in Chans
        BY <2>1, <3>1, <4>1 DEF LinksRight, ConnectedHears
      <4>3. chan[e] # c  BY <4>1, <4>2 DEF d
      <4> QED  BY <2>1, <4>2, <4>3 DEF Discard, Forget, TypeOK
    <3> QED  BY <3>1 DEF ConnectedHears
  <2> QED  BY <2>2, <2>3, <2>4, <2>5
<1>2. CASE LoginOk(c)
  <2>1. holder[c] \in Devices  BY DEF TypeOK
  <2>2. inbox' \in [Chans -> Seq({"loginOk", "kicked"})]  BY <1>2, InboxTypes DEF LoginOk
  <2>3. authed' \in [Devices -> BOOLEAN] /\ waiting' \in [Devices -> BOOLEAN]
    BY <1>2 DEF LoginOk, TypeOK
  <2>4. creds' \in [Devices -> BOOLEAN]
    <3>1. creds \in [Devices -> BOOLEAN] /\ waiting \in [Devices -> BOOLEAN]  BY DEF TypeOK
    <3>2. creds' = [creds EXCEPT ![holder[c]] = creds[holder[c]] \/ waiting[holder[c]]]
      BY <1>2 DEF LoginOk
    <3>3. (creds[holder[c]] \/ waiting[holder[c]]) \in BOOLEAN  BY Zenon
    <3> QED  BY <3>1, <3>2, <3>3
  <2>5. UNCHANGED <<chan, connected, connecting, timer, beating, missed, shown,
                    net, holder, listening, req, known, route, left, calm>>
    BY <1>2 DEF LoginOk
  <2>6. TypeOK'  BY <2>2, <2>3, <2>4, <2>5 DEF TypeOK
  <2>7. LinksRight' /\ KeepsTrying' /\ ConnectedHears'
    BY <2>5 DEF LinksRight, KeepsTrying, ConnectedHears
  <2> QED  BY <2>6, <2>7
<1>3. CASE Kicked(c)
  <2>1. inbox' \in [Chans -> Seq({"loginOk", "kicked"})]  BY <1>3, InboxTypes DEF Kicked
  <2>2. authed' \in [Devices -> BOOLEAN]  BY <1>3 DEF Kicked, TypeOK
  <2>3. UNCHANGED <<chan, connected, connecting, timer, beating, missed, creds, shown,
                    waiting, net, holder, listening, req, known, route, left, calm>>
    BY <1>3 DEF Kicked
  <2>4. TypeOK'  BY <2>1, <2>2, <2>3 DEF TypeOK
  <2>5. LinksRight' /\ KeepsTrying' /\ ConnectedHears'
    BY <2>3 DEF LinksRight, KeepsTrying, ConnectedHears
  <2> QED  BY <2>4, <2>5
<1> QED  BY <1>1, <1>2, <1>3

(* The heartbeat timers.                                                   *)
LEMMA HeartbeatSteps ==
  ASSUME ClientAssumption, LinkInv, NEW d \in Devices,
         HeartbeatTimeout(d) \/ HeartbeatResponse(d)
  PROVE  LinkInv'
<1> USE DEF LinkInv, ClientAssumption, Faults
<1>1. CASE HeartbeatTimeout(d) /\ missed[d] + 1 >= MaxMissed
  <2>1. /\ missed' = [missed EXCEPT ![d] = @ + 1]
        /\ SinkClose(chan[d]) /\ HandleDisconnect(d) /\ calm' = FALSE
        /\ \/ left["silence"] > 0 /\ left' = [left EXCEPT !["silence"] = @ - 1]
           \/ left' = left
        /\ connected[d]
        /\ UNCHANGED <<chan, connecting, creds, authed, waiting, holder, listening, inbox, req, known, route>>
    BY <1>1 DEF HeartbeatTimeout, Spend
  <2>2. chan[d] \in Chans /\ missed[d] + 1 \in 0..MaxMissed
    <3>1. missed \in [Devices -> 0..MaxMissed]  BY DEF TypeOK
    <3>2. missed[d] \in 0..MaxMissed  BY <3>1
    <3>3. chan[d] \in Chans /\ missed[d] < MaxMissed  BY <2>1 DEF LinksRight
    <3> QED  BY <3>2, <3>3
  <2>3. net' \in [Chans -> {"free", "opening", "doomed", "open", "closing", "dead"}]
    BY <2>1, <2>2 DEF SinkClose, TypeOK
  <2>4. \A x \in Chans : /\ net[x] \in {"opening", "doomed"} => net'[x] \in {"opening", "doomed"}
                         /\ net[x] \in {"open", "closing", "dead"} => net'[x] \in {"open", "closing", "dead"}
    BY <2>1, <2>2 DEF SinkClose, TypeOK
  <2>5. /\ connected' \in [Devices -> BOOLEAN] /\ shown' \in [Devices -> BOOLEAN]
        /\ beating' \in [Devices -> BOOLEAN] /\ timer' \in [Devices -> BOOLEAN]
    BY <2>1 DEF HandleDisconnect, TypeOK
  <2>6. missed' \in [Devices -> 0..MaxMissed] /\ left' \in [Faults -> Nat]
    <3>1. missed' \in [Devices -> 0..MaxMissed]  BY <2>1, <2>2 DEF TypeOK
    <3>2. left' \in [Faults -> Nat]  BY <2>1 DEF TypeOK
    <3> QED  BY <3>1, <3>2
  <2>7. TypeOK'  BY <2>1, <2>3, <2>5, <2>6 DEF TypeOK
  <2>8. LinksRight'
    <3>1. ASSUME NEW e \in Devices, connecting'[e] # "no"
          PROVE  chan'[e] \in Chans /\ net'[chan'[e]] \in {"opening", "doomed"} /\ holder'[chan'[e]] = e
      BY <2>1, <2>4, <3>1 DEF LinksRight
    <3>2. ASSUME NEW x \in Chans, listening'[x] PROVE net'[x] \in {"open", "closing", "dead"}
      BY <2>1, <2>4, <3>2 DEF LinksRight
    <3>3. ASSUME NEW e \in Devices, connected'[e] PROVE missed'[e] < MaxMissed /\ chan'[e] \in Chans
      <4>1. e # d /\ connected[e]  BY <2>1, <3>3 DEF HandleDisconnect, TypeOK
      <4> QED  BY <2>1, <4>1 DEF TypeOK, LinksRight
    <3> QED  BY <3>1, <3>2, <3>3 DEF LinksRight
  <2>9. KeepsTrying' /\ ConnectedHears'
    BY <2>1 DEF HandleDisconnect, TypeOK, KeepsTrying, ConnectedHears
  <2> QED  BY <2>7, <2>8, <2>9
<1>2. CASE HeartbeatTimeout(d) /\ ~(missed[d] + 1 >= MaxMissed)
  <2>1. /\ missed' = [missed EXCEPT ![d] = @ + 1]
        /\ \/ left["silence"] > 0 /\ left' = [left EXCEPT !["silence"] = @ - 1]
           \/ left' = left
        /\ UNCHANGED <<net, connected, shown, beating, timer, calm, chan, connecting, creds,
                       authed, waiting, holder, listening, inbox, req, known, route>>
    BY <1>2 DEF HeartbeatTimeout, Spend
  <2>2. missed' \in [Devices -> 0..MaxMissed]
    <3>1. missed \in [Devices -> 0..MaxMissed]  BY DEF TypeOK
    <3>2. missed[d] + 1 \in 0..MaxMissed  BY <1>2, <3>1
    <3> QED  BY <2>1, <3>1, <3>2
  <2>3. left' \in [Faults -> Nat]  BY <2>1 DEF TypeOK
  <2>4. TypeOK'  BY <2>1, <2>2, <2>3 DEF TypeOK
  <2>5. LinksRight'  BY <1>2, <2>1 DEF TypeOK, LinksRight
  <2>6. KeepsTrying' /\ ConnectedHears'  BY <2>1 DEF KeepsTrying, ConnectedHears
  <2> QED  BY <2>4, <2>5, <2>6
<1>3. CASE HeartbeatResponse(d)
  <2>1. /\ missed' = [missed EXCEPT ![d] = 0]
        /\ UNCHANGED <<chan, connected, connecting, timer, beating, creds, shown, authed,
                       waiting, net, holder, listening, inbox, req, known, route, left, calm>>
    BY <1>3 DEF HeartbeatResponse, chanVars
  <2>2. missed' \in [Devices -> 0..MaxMissed]  BY <2>1 DEF TypeOK
  <2>3. TypeOK'  BY <2>1, <2>2 DEF TypeOK
  <2>4. LinksRight'
    <3>1. \A e \in Devices : connected[e] => missed'[e] < MaxMissed
      BY <2>1 DEF TypeOK, LinksRight
    <3> QED  BY <2>1, <3>1 DEF LinksRight
  <2>5. KeepsTrying' /\ ConnectedHears'  BY <2>1 DEF KeepsTrying, ConnectedHears
  <2> QED  BY <2>3, <2>4, <2>5
<1> QED  BY <1>1, <1>2, <1>3

(* What the user does.                                                     *)
LEMMA UserSteps ==
  ASSUME ClientAssumption, LinkInv, NEW d \in Devices,
         UserLogin(d) \/ LoginGivesUp(d) \/ UserLogout(d)
  PROVE  LinkInv'
<1>1. TypeOK  BY DEF LinkInv
<1>2. UNCHANGED <<chan, connected, connecting, timer, beating, missed, shown,
                  net, holder, listening, inbox, known, route>>
  BY DEF UserLogin, LoginGivesUp, UserLogout, chanVars
<1>3. TypeOK'
  <2>1. CASE UserLogin(d)
    <3>1. calm' \in BOOLEAN
      <4>1. CASE UNCHANGED <<req, calm>>  BY <1>1, <4>1 DEF TypeOK
      <4>2. CASE calm' = (calm /\ req[chan[d]] = 0 /\ route # chan[d])  BY <4>2, Zenon
      <4> QED  BY <2>1, <4>1, <4>2 DEF UserLogin
    <3>2. req' \in [Chans -> Nat]
      <4>1. CASE req' = req  BY <1>1, <4>1 DEF TypeOK
      <4>2. CASE connected[d] /\ req' = [req EXCEPT ![chan[d]] = @ + 1]
        <5>1. chan[d] \in Chans  BY <4>2 DEF LinkInv, LinksRight
        <5>2. req[chan[d]] + 1 \in Nat  BY <1>1, <5>1, RequestTypes
        <5> QED  BY <1>1, <4>2, <5>1, <5>2, RequestTypes
      <4> QED  BY <2>1, <4>1, <4>2 DEF UserLogin
    <3>3. left' \in [Faults -> Nat]  BY <1>1, <2>1, SpendTypes DEF UserLogin, Faults
    <3>4. waiting' \in [Devices -> BOOLEAN]  BY <1>1, <2>1 DEF UserLogin, TypeOK
    <3>5. UNCHANGED <<creds, authed>>  BY <2>1 DEF UserLogin
    <3> QED  BY <1>1, <1>2, <3>1, <3>2, <3>3, <3>4, <3>5 DEF TypeOK
  <2>2. CASE LoginGivesUp(d)
    <3>1. UNCHANGED <<creds, authed, req, left, calm>>  BY <2>2 DEF LoginGivesUp, chanVars
    <3>2. waiting' \in [Devices -> BOOLEAN]  BY <1>1, <2>2 DEF LoginGivesUp, TypeOK
    <3> QED  BY <1>1, <1>2, <3>1, <3>2 DEF TypeOK
  <2>3. CASE UserLogout(d)
    <3>1. left' \in [Faults -> Nat]  BY <1>1, <2>3, SpendTypes DEF UserLogout, Faults
    <3>2. authed' \in [Devices -> BOOLEAN] /\ creds' \in [Devices -> BOOLEAN]
      BY <1>1, <2>3 DEF UserLogout, TypeOK
    <3>3. UNCHANGED <<waiting, req, calm>>  BY <2>3 DEF UserLogout, chanVars
    <3> QED  BY <1>1, <1>2, <3>1, <3>2, <3>3 DEF TypeOK
  <2> QED  BY <2>1, <2>2, <2>3
<1>4. LinksRight' /\ KeepsTrying' /\ ConnectedHears'
  BY <1>2 DEF LinkInv, LinksRight, KeepsTrying, ConnectedHears
<1> QED  BY <1>3, <1>4 DEF LinkInv

(* The gateway and the network: they change only the states of channels,   *)
(* never to or from one that is being opened.                              *)
LEMMA GatewaySteps ==
  ASSUME ClientAssumption, LinkInv, NEW c \in Chans,
         GatewayLogin(c) \/ GatewayCloses(c) \/ Drop(c)
  PROVE  LinkInv'
<1> USE DEF LinkInv, ClientAssumption, Faults, GatewayLogin, GatewayCloses, Drop, Alive, deviceVars
<1>1. TypeOK'
  <2>1. CASE GatewayLogin(c)
    <3>1. net' \in [Chans -> {"free", "opening", "doomed", "open", "closing", "dead"}]
      BY <2>1 DEF TypeOK
    <3>2. req' \in [Chans -> Nat]  BY <2>1 DEF TypeOK
    <3>3. inbox' \in [Chans -> Seq({"loginOk", "kicked"})]
      <4>1. \A x \in Chans : inbox'[x] \in {inbox[x], Append(inbox[x], "kicked"), Append(inbox[x], "loginOk")}
        BY <2>1
      <4>2. ASSUME NEW x \in Chans PROVE inbox'[x] \in Seq({"loginOk", "kicked"})
        <5>1. inbox[x] \in Seq({"loginOk", "kicked"})  BY DEF TypeOK
        <5>2. \A w \in {"loginOk", "kicked"} : Append(inbox[x], w) \in Seq({"loginOk", "kicked"})
          BY <5>1
        <5> QED  BY <4>1, <5>1, <5>2
      <4>3. inbox' = [x \in Chans |-> inbox'[x]]  BY <2>1
      <4> QED  BY <4>2, <4>3
    <3> QED  BY <2>1, <3>1, <3>2, <3>3 DEF TypeOK
  <2>2. CASE GatewayCloses(c) \/ Drop(c)
    <3>1. net' \in [Chans -> {"free", "opening", "doomed", "open", "closing", "dead"}]
      BY <2>2 DEF TypeOK
    <3>2. left' \in [Faults -> Nat]  BY <2>2, SpendTypes DEF TypeOK
    <3>3. UNCHANGED <<deviceVars, holder, listening, inbox, req, known, route, calm>>  BY <2>2
    <3> QED  BY <3>1, <3>2, <3>3 DEF TypeOK
  <2> QED  BY <2>1, <2>2
<1>2. LinksRight'
  <2>1. CASE GatewayLogin(c)  BY <2>1 DEF TypeOK, LinksRight
  <2>2. CASE GatewayCloses(c)  BY <2>2 DEF TypeOK, LinksRight
  <2>3. CASE Drop(c)  BY <2>3 DEF TypeOK, LinksRight
  <2> QED  BY <2>1, <2>2, <2>3
<1>3. KeepsTrying' /\ ConnectedHears'  BY DEF KeepsTrying, ConnectedHears
<1> QED  BY <1>1, <1>2, <1>3

(* What becomes of an abandoned channel concerns no device.                *)
LEMMA LateSteps ==
  ASSUME LinkInv, NEW c \in Chans, LateOpens(c) \/ LateEnds(c)
  PROVE  LinkInv'
<1> USE DEF LinkInv, deviceVars
<1>1. /\ ~listening[c]
      /\ \A e \in Devices : connecting[e] # "no" => chan[e] # c
      /\ UNCHANGED <<deviceVars, holder, left, calm>>
  BY DEF LateOpens, LateEnds, Abandoned
<1>2. /\ \A x \in Chans : x # c => net'[x] = net[x]
      /\ \A x \in Chans : listening'[x] = listening[x]
  BY <1>1 DEF LateOpens, LateEnds, Opens, Discard, Forget, TypeOK
<1>3. TypeOK'
  <2>1. net' \in [Chans -> {"free", "opening", "doomed", "open", "closing", "dead"}]
    BY DEF LateOpens, LateEnds, Opens, Discard, TypeOK
  <2>2. CASE LateOpens(c)  BY <1>1, <2>1, <2>2 DEF LateOpens, TypeOK
  <2>3. CASE LateEnds(c)
    <3>1. Forget(c)  BY <2>3 DEF LateEnds, Discard
    <3> QED  BY <1>1, <2>1, <3>1, ForgetTypes DEF TypeOK
  <2> QED  BY <2>2, <2>3
<1>4. LinksRight'
  <2>1. ASSUME NEW e \in Devices, connecting'[e] # "no"
        PROVE  chan'[e] \in Chans /\ net'[chan'[e]] \in {"opening", "doomed"} /\ holder'[chan'[e]] = e
    BY <1>1, <1>2, <2>1 DEF LinksRight
  <2>2. ASSUME NEW x \in Chans, listening'[x] PROVE net'[x] \in {"open", "closing", "dead"}
    BY <1>1, <1>2, <2>2 DEF LinksRight
  <2>3. ASSUME NEW e \in Devices, connected'[e] PROVE missed'[e] < MaxMissed /\ chan'[e] \in Chans
    BY <1>1, <2>3 DEF LinksRight
  <2> QED  BY <2>1, <2>2, <2>3 DEF LinksRight
<1>5. KeepsTrying'  BY <1>1 DEF KeepsTrying
<1>6. ConnectedHears'  BY <1>1, <1>2 DEF ConnectedHears, LinksRight
<1> QED  BY <1>3, <1>4, <1>5, <1>6

LEMMA StepLink == ClientAssumption /\ LinkInv /\ [Next]_vars => LinkInv'
<1> SUFFICES ASSUME ClientAssumption, LinkInv, [Next]_vars PROVE LinkInv'
  OBVIOUS
<1>1. ASSUME NEW d \in Devices, DeviceStep(d) PROVE LinkInv'
  BY <1>1, ConnectSteps, HeartbeatSteps, UserSteps DEF DeviceStep
<1>2. ASSUME NEW c \in Chans, ChanStep(c) PROVE LinkInv'
  BY <1>2, StreamSteps, LateSteps, GatewaySteps DEF ChanStep
<1>3. CASE UNCHANGED vars
  BY <1>3 DEF vars, deviceVars, chanVars, LinkInv, TypeOK, LinksRight, KeepsTrying, ConnectedHears
<1> QED  BY <1>1, <1>2, <1>3 DEF Next

(* The inductive invariant of the client's connection                      *)
(* (websocket_service.dart:218-430).                                       *)
THEOREM LinkInvariance == Spec => []LinkInv
<1>1. Init => LinkInv  BY InitLink, ClientAssumption
<1>2. LinkInv /\ [Next]_vars => LinkInv'  BY StepLink, ClientAssumption
<1> QED  BY <1>1, <1>2, PTL DEF Spec

(* Type correctness.                                                       *)
THEOREM ClientTypes == Spec => []TypeOK
<1>1. LinkInv => TypeOK  BY DEF LinkInv
<1> QED  BY <1>1, LinkInvariance, PTL

(* The app never stops trying (_handleDisconnect and _scheduleReconnect).  *)
THEOREM NeverGivesUp == Spec => []KeepsTrying
<1>1. LinkInv => KeepsTrying  BY DEF LinkInv
<1> QED  BY <1>1, LinkInvariance, PTL

(* A connected app listens to its present channel (connect,                *)
(* _startListening and the callbacks of older channels).                   *)
THEOREM NeverDeaf == Spec => []ConnectedHears
<1>1. LinkInv => ConnectedHears  BY DEF LinkInv
<1> QED  BY <1>1, LinkInvariance, PTL

-----------------------------------------------------------------------------
(* While calm, a device is in one phase at a time: it has an attempt under *)
(* way, or is connected, or its timer runs.  It listens to one channel at  *)
(* most, its present one, and only such a channel has a login on its way   *)
(* or is in the gateway's table.                                           *)
OnePhase ==
  \A d \in Devices :
    /\ connected[d] => shown[d] /\ connecting[d] = "no"
    /\ timer[d] => ~connected[d] /\ connecting[d] = "no"

OneChannel ==
  \A c \in Chans : listening[c] => connected[holder[c]] /\ chan[holder[c]] = c

OneRequest ==
  \A c \in Chans :
    /\ ~listening[c] => req[c] = 0 /\ route # c
    /\ req[c] \in {0, 1}
    /\ route = c => req[c] = 0

CalmRight == calm => OnePhase /\ OneChannel /\ OneRequest

(* A step that only touches the connections themselves.                    *)
LEMMA CalmQuiet ==
  ASSUME OnePhase, OneChannel, OneRequest,
         UNCHANGED <<connected, shown, connecting, timer, chan, holder, listening, req, route>>
  PROVE  OnePhase' /\ OneChannel' /\ OneRequest'
<1>1. OnePhase'  BY DEF OnePhase
<1>2. OneChannel'  BY DEF OneChannel
<1>3. OneRequest'  BY DEF OneRequest
<1> QED  BY <1>1, <1>2, <1>3

(* Of a channel that nobody listens to there is nothing to forget.         *)
LEMMA ForgetRequest ==
  ASSUME LinkInv, OneRequest, NEW c \in Chans, ~listening[c], Forget(c)
  PROVE  UNCHANGED <<listening, req, route>>
<1>1. req[c] = 0 /\ route # c  BY DEF OneRequest
<1>2. /\ listening \in [Chans -> BOOLEAN] /\ req \in [Chans -> Nat]
  BY DEF LinkInv, TypeOK
<1>3. listening' = listening  BY <1>2 DEF Forget
<1>4. req' = req  BY <1>1, <1>2 DEF Forget
<1>5. route' = route  BY <1>1 DEF Forget
<1> QED  BY <1>3, <1>4, <1>5

(* A new attempt, by a device that is not connected and has none.          *)
LEMMA CalmStart ==
  ASSUME LinkInv, OnePhase, OneChannel, OneRequest, NEW d \in Devices,
         NEW caller \in {"user", "timer"}, connecting[d] = "no", ~connected[d],
         StartConnect(d, caller), ~timer'[d], \A e \in Devices : timer'[e] => timer[e],
         UNCHANGED <<connected, shown>>
  PROVE  OnePhase' /\ OneChannel' /\ OneRequest'
<1>1. PICK c \in Chans :
        /\ net[c] = "free" \/ Abandoned(c)
        /\ Forget(c)
        /\ holder' = [holder EXCEPT ![c] = d]
        /\ chan' = [chan EXCEPT ![d] = c]
        /\ connecting' = [connecting EXCEPT ![d] = caller]
  BY DEF StartConnect
<1>2. ~listening[c]  BY <1>1 DEF LinkInv, LinksRight, Abandoned
<1>3. UNCHANGED <<listening, req, route>>  BY <1>1, <1>2, ForgetRequest
<1>4. /\ \A x \in Chans : x # c => holder'[x] = holder[x]
      /\ \A e \in Devices : e # d => chan'[e] = chan[e] /\ connecting'[e] = connecting[e]
      /\ \A x \in Chans : holder[x] \in Devices
  BY <1>1 DEF LinkInv, TypeOK
<1>5. OnePhase'  BY <1>4 DEF OnePhase
<1>6. OneChannel'  BY <1>2, <1>3, <1>4 DEF OneChannel
<1>7. OneRequest'  BY <1>3 DEF OneRequest
<1> QED  BY <1>5, <1>6, <1>7

(* The attempt of a device ends, well or not.                              *)
LEMMA CalmEnds ==
  ASSUME LinkInv, OnePhase, OneChannel, OneRequest, NEW d \in Devices,
         ConnectReady(d) \/ ConnectFails(d)
  PROVE  OnePhase' /\ OneChannel' /\ OneRequest'
<1> DEFINE c == chan[d]
<1>1. connecting[d] # "no"  BY DEF ConnectReady, ConnectFails
<1>2. /\ c \in Chans /\ ~listening[c] /\ holder[c] = d
      /\ ~connected[d] /\ ~timer[d] /\ req[c] = 0 /\ route # c
  BY <1>1 DEF LinkInv, LinksRight, OnePhase, OneRequest
<1>3. \A x \in Chans : holder[x] \in Devices  BY DEF LinkInv, TypeOK
<1>4. \A x \in Chans : listening[x] => holder[x] # d
  BY <1>2 DEF OneChannel
<1>5. CASE ConnectReady(d)
  <2>1. /\ listening'[c] /\ connected'[d] /\ shown'[d] /\ connecting'[d] = "no"
        /\ req'[c] \in {0, 1}
        /\ \A x \in Chans : x # c => listening'[x] = listening[x] /\ req'[x] = req[x]
        /\ \A e \in Devices : e # d => connected'[e] = connected[e] /\ shown'[e] = shown[e]
                                       /\ connecting'[e] = connecting[e]
    BY <1>2, <1>5 DEF ConnectReady, LinkInv, TypeOK
  <2>2. UNCHANGED <<timer, holder, chan, route>>  BY <1>5 DEF ConnectReady
  <2>3. OnePhase'  BY <1>2, <2>1, <2>2 DEF OnePhase
  <2>4. OneChannel'  BY <1>2, <1>3, <1>4, <2>1, <2>2 DEF OneChannel
  <2>5. OneRequest'  BY <1>2, <2>1, <2>2 DEF OneRequest
  <2> QED  BY <2>3, <2>4, <2>5
<1>6. CASE ConnectFails(d)
  <2>1. UNCHANGED <<listening, req, route>>
    BY <1>2, <1>6, ForgetRequest DEF ConnectFails, Discard
  <2>2. /\ ~connected'[d] /\ connecting'[d] = "no"
        /\ \A e \in Devices : e # d => connected'[e] = connected[e] /\ timer'[e] = timer[e]
                                       /\ connecting'[e] = connecting[e]
    BY <1>6 DEF ConnectFails, LinkInv, TypeOK
  <2>3. UNCHANGED <<shown, holder, chan>>  BY <1>6 DEF ConnectFails
  <2>4. OnePhase'  BY <2>2, <2>3 DEF OnePhase
  <2>5. OneChannel'  BY <1>3, <1>4, <2>1, <2>2, <2>3 DEF OneChannel
  <2>6. OneRequest'  BY <2>1 DEF OneRequest
  <2> QED  BY <2>4, <2>5, <2>6
<1> QED  BY <1>5, <1>6

(* The end of a stream: it was the device's only one.                      *)
LEMMA CalmDone ==
  ASSUME LinkInv, OnePhase, OneChannel, OneRequest, NEW c \in Chans, Done(c)
  PROVE  OnePhase' /\ OneChannel' /\ OneRequest'
<1> DEFINE d == holder[c]
<1>1. d \in Devices /\ \A x \in Chans : holder[x] \in Devices  BY DEF LinkInv, TypeOK
<1>2. connected[d] /\ chan[d] = c /\ connecting[d] = "no"
  BY <1>1 DEF Done, OneChannel, OnePhase
<1>3. \A x \in Chans : x # c /\ listening[x] => holder[x] # d
  BY <1>2 DEF OneChannel
<1>4. /\ ~listening'[c] /\ req'[c] = 0 /\ ~connected'[d] /\ ~shown'[d]
      /\ \A x \in Chans : x # c => listening'[x] = listening[x] /\ req'[x] = req[x]
      /\ \A e \in Devices : e # d => connected'[e] = connected[e] /\ shown'[e] = shown[e]
                                     /\ timer'[e] = timer[e]
  BY <1>1 DEF Done, HandleDisconnect, Discard, Forget, LinkInv, TypeOK
<1>5. UNCHANGED <<connecting, holder, chan>> /\ route' = IF route = c THEN NoChan ELSE route
  BY DEF Done, Discard, Forget
<1>6. OnePhase'  BY <1>2, <1>4, <1>5 DEF OnePhase
<1>7. OneChannel'  BY <1>1, <1>3, <1>4, <1>5 DEF OneChannel
<1>8. OneRequest'
  <2>1. \A x \in Chans : route' = x => route = x /\ x # c
    BY <1>5, ClientAssumption DEF ClientAssumption
  <2> QED  BY <1>4, <2>1 DEF OneRequest
<1> QED  BY <1>6, <1>7, <1>8

(* A login that is sent while calm is the only one of its channel, and the *)
(* gateway has not entered the channel before it arrives.                  *)
LEMMA CalmLogin ==
  ASSUME LinkInv, OnePhase, OneChannel, OneRequest, NEW d \in Devices, UserLogin(d), calm'
  PROVE  OnePhase' /\ OneChannel' /\ OneRequest'
<1> DEFINE c == chan[d]
<1>1. UNCHANGED <<connected, shown, connecting, timer, chan, holder, listening, route>>
  BY DEF UserLogin
<1>2. CASE UNCHANGED req  BY <1>1, <1>2, CalmQuiet
<1>3. CASE req' # req
  <2>1. connected[d] /\ req' = [req EXCEPT ![c] = @ + 1] /\ req[c] = 0 /\ route # c
    BY <1>3 DEF UserLogin
  <2>2. c \in Chans /\ listening[c]
    BY <2>1 DEF OnePhase, LinkInv, LinksRight, ConnectedHears
  <2>3. req'[c] = 1 /\ \A x \in Chans : x # c => req'[x] = req[x]
    BY <2>1, <2>2 DEF LinkInv, TypeOK
  <2>4. OnePhase' /\ OneChannel'  BY <1>1 DEF OnePhase, OneChannel
  <2>5. OneRequest'  BY <1>1, <2>1, <2>2, <2>3 DEF OneRequest
  <2> QED  BY <2>4, <2>5
<1> QED  BY <1>2, <1>3

(* The gateway serves a login.                                             *)
LEMMA CalmServed ==
  ASSUME LinkInv, OnePhase, OneChannel, OneRequest, NEW c \in Chans, GatewayLogin(c)
  PROVE  OnePhase' /\ OneChannel' /\ OneRequest'
<1>1. UNCHANGED <<connected, shown, connecting, timer, chan, holder, listening>>
  BY DEF GatewayLogin, deviceVars
<1>2. req[c] = 1 /\ listening[c]
  BY DEF GatewayLogin, OneRequest
<1>3. /\ req'[c] = 0 /\ \A x \in Chans : x # c => req'[x] = req[x]
      /\ route' = c
  BY <1>2 DEF GatewayLogin, LinkInv, TypeOK
<1>4. OnePhase' /\ OneChannel'  BY <1>1 DEF OnePhase, OneChannel
<1>5. OneRequest'  BY <1>1, <1>2, <1>3 DEF OneRequest
<1> QED  BY <1>4, <1>5

(* Every step keeps it, or ends the calm.                                  *)
LEMMA CalmStep == LinkInv /\ CalmRight /\ [Next]_vars => CalmRight'
<1> SUFFICES ASSUME LinkInv, CalmRight, [Next]_vars, calm'
             PROVE  OnePhase' /\ OneChannel' /\ OneRequest'
  BY DEF CalmRight
<1> USE DEF deviceVars, chanVars
<1>1. calm
  BY DEF Next, vars, DeviceStep, ChanStep, UserConnect, TimerFires, ConnectReady, ConnectFails,
         HeartbeatTimeout, HeartbeatResponse, UserLogin, LoginGivesUp, UserLogout,
         Done, LoginOk, Kicked, LateOpens, LateEnds, GatewayLogin, GatewayCloses, Drop
<1>2. OnePhase /\ OneChannel /\ OneRequest  BY <1>1 DEF CalmRight
<1>t. connected \in [Devices -> BOOLEAN] /\ timer \in [Devices -> BOOLEAN]
  BY DEF LinkInv, TypeOK
<1>3. ASSUME NEW d \in Devices, UserConnect(d)
      PROVE  OnePhase' /\ OneChannel' /\ OneRequest'
  <2>1. ~connected[d] /\ ~timer[d]  BY <1>2, <1>3 DEF UserConnect, OnePhase
  <2> QED  BY <1>2, <1>3, <2>1, CalmStart DEF UserConnect
<1>4. ASSUME NEW d \in Devices, TimerFires(d)
      PROVE  OnePhase' /\ OneChannel' /\ OneRequest'
  <2>1. connecting[d] = "no" /\ ~connected[d]  BY <1>2, <1>4 DEF TimerFires, OnePhase
  <2>2. ~timer'[d] /\ \A e \in Devices : timer'[e] => timer[e]
    BY <1>4, <1>t DEF TimerFires
  <2> QED  BY <1>2, <1>4, <2>1, <2>2, CalmStart DEF TimerFires
<1>5. ASSUME NEW d \in Devices, ConnectReady(d) \/ ConnectFails(d)
      PROVE  OnePhase' /\ OneChannel' /\ OneRequest'
  BY <1>2, <1>5, CalmEnds
<1>6. ASSUME NEW d \in Devices, HeartbeatTimeout(d)
      PROVE  OnePhase' /\ OneChannel' /\ OneRequest'
  BY <1>2, <1>6, CalmQuiet DEF HeartbeatTimeout
<1>7. ASSUME NEW d \in Devices, HeartbeatResponse(d) \/ LoginGivesUp(d) \/ UserLogout(d)
      PROVE  OnePhase' /\ OneChannel' /\ OneRequest'
  BY <1>2, <1>7, CalmQuiet DEF HeartbeatResponse, LoginGivesUp, UserLogout
<1>8. ASSUME NEW d \in Devices, UserLogin(d)
      PROVE  OnePhase' /\ OneChannel' /\ OneRequest'
  BY <1>2, <1>8, CalmLogin
<1>9. ASSUME NEW c \in Chans, Done(c) \/ GatewayLogin(c)
      PROVE  OnePhase' /\ OneChannel' /\ OneRequest'
  BY <1>2, <1>9, CalmDone, CalmServed
<1>10. ASSUME NEW c \in Chans, LoginOk(c) \/ Kicked(c)
       PROVE  OnePhase' /\ OneChannel' /\ OneRequest'
  BY <1>2, <1>10, CalmQuiet DEF LoginOk, Kicked
<1>11. ASSUME NEW c \in Chans, GatewayCloses(c) \/ Drop(c) \/ LateOpens(c)
       PROVE  OnePhase' /\ OneChannel' /\ OneRequest'
  BY <1>2, <1>11, CalmQuiet DEF GatewayCloses, Drop, LateOpens
<1>13. ASSUME NEW c \in Chans, LateEnds(c)
       PROVE  OnePhase' /\ OneChannel' /\ OneRequest'
  <2>1. UNCHANGED <<listening, req, route>>
    BY <1>2, <1>13, ForgetRequest DEF LateEnds, Abandoned, Discard
  <2> QED  BY <1>2, <1>13, <2>1, CalmQuiet DEF LateEnds
<1>12. CASE UNCHANGED vars  BY <1>2, <1>12, CalmQuiet DEF vars
<1> QED
  BY <1>3, <1>4, <1>5, <1>6, <1>7, <1>8, <1>9, <1>10, <1>11, <1>12, <1>13
     DEF Next, DeviceStep, ChanStep

(* Until something sets off the reconnect loop, a device listens to one    *)
(* live connection at most and never makes the gateway kick it by a login  *)
(* of its own, although attempts that timed out may open later.            *)
THEOREM KickedByOthersOnly == Spec => []NeverKicksItself
<1>1. Init => CalmRight
  <2> SUFFICES ASSUME Init PROVE OnePhase /\ OneChannel /\ OneRequest
    BY DEF CalmRight
  <2>1. OnePhase /\ OneChannel  BY DEF Init, OnePhase, OneChannel
  <2>2. OneRequest  BY ClientAssumption DEF Init, OneRequest, ClientAssumption
  <2> QED  BY <2>1, <2>2
<1>2. ASSUME LinkInv, CalmRight PROVE NeverKicksItself
  <2> SUFFICES ASSUME calm PROVE NeverKicksItself
    BY DEF NeverKicksItself
  <2>1. OneChannel /\ OneRequest  BY <1>2 DEF CalmRight
  <2>2. ASSUME NEW b \in Chans, NEW c \in Chans, listening[b], listening[c], holder[b] = holder[c]
        PROVE  b = c
    BY <2>1, <2>2 DEF OneChannel
  <2>3. ASSUME NEW c \in Chans, req[c] > 0, Alive(route) PROVE holder[route] # holder[c]
    <3>1. route \in Chans  BY <1>2, <2>3 DEF LinkInv, TypeOK, Alive
    <3>2. listening[c] /\ listening[route] /\ route # c
      BY <2>1, <2>3, <3>1 DEF OneRequest
    <3> QED  BY <2>2, <3>1, <3>2
  <2> QED  BY <2>2, <2>3 DEF NeverKicksItself
<1>3. LinkInv /\ CalmRight => NeverKicksItself  BY <1>2
<1> QED  BY <1>1, <1>3, CalmStep, LinkInvariance, PTL DEF Spec
==============================================================================
