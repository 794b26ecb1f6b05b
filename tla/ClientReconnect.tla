--------------------------- MODULE ClientReconnect ---------------------------
(***************************************************************************)
(* The Flutter client's connection to the gateway: WebSocketService        *)
(* (connect, reconnect timer, heartbeat, stream callbacks) with the login, *)
(* automatic login, kick and logout of ChatService, for devices that use   *)
(* one account, against an abstract gateway.                               *)
(*                                                                         *)
(* Dart runs one callback at a time, so a step is the code from one await  *)
(* or callback to the next.  A member of Chans is a WebSocketChannel; its  *)
(* name is used again once both ends are done with it.  The gateway is     *)
(* what handle_login of gateway_main.cpp is to a client: it kicks the      *)
(* connection its table has for the account and enters the new one.        *)
(***************************************************************************)
EXTENDS Naturals, Sequences

CONSTANTS
  Devices,      \* app instances logged in to the account
  Chans,        \* channels that exist at a time
  NoChan,
  MaxMissed,    \* _maxMissedHeartbeats
  MaxDrops, MaxRefusals, MaxSilences,  \* bounds: faults of the network
  MaxLogins     \* bound: logins and logouts by the user

ASSUME ClientAssumption ==
  /\ NoChan \notin Chans
  /\ MaxMissed \in Nat \ {0}
  /\ {MaxDrops, MaxRefusals, MaxSilences, MaxLogins} \subseteq Nat

VARIABLES
  \* WebSocketService
  chan,        \* _channel
  connected,   \* _isConnected
  connecting,  \* _isConnecting: "no", or who called the connect() that waits
  timer,       \* _reconnectTimer is running
  beating,     \* _heartbeatTimer is running
  missed,      \* _missedHeartbeats
  creds,       \* _savedUsername and _savedPassword are set
  \* ChatService
  shown,       \* its own _isConnected, which the screens look at
  authed,      \* _isAuthenticated
  waiting,     \* login() waits for its response
  \* the channels
  net,         \* net[c]: the state of the connection under channel c
  holder,      \* holder[c]: the device that opened c
  listening,   \* listening[c]: a stream subscription exists
  inbox,       \* inbox[c]: messages on their way to the device
  req,         \* req[c]: login requests on their way to the gateway
  known,       \* known[c]: the gateway has authenticated c
  \* the gateway and the bounds
  route,       \* user_connections_[the account]
  left,        \* left[f]: faults of kind f that may still happen
  calm         \* history: nothing happened that sets off the reconnect loop

deviceVars == <<chan, connected, connecting, timer, beating, missed, creds,
                shown, authed, waiting>>
chanVars == <<net, holder, listening, inbox, req, known>>
vars == <<deviceVars, chanVars, route, left, calm>>

Faults == {"drop", "refusal", "silence", "login"}

Init ==
  /\ chan = [d \in Devices |-> NoChan]
  /\ connected = [d \in Devices |-> FALSE]
  /\ connecting = [d \in Devices |-> "no"]
  /\ timer = [d \in Devices |-> FALSE]
  /\ beating = [d \in Devices |-> FALSE]
  /\ missed = [d \in Devices |-> 0]
  /\ creds = [d \in Devices |-> FALSE]
  /\ shown = [d \in Devices |-> FALSE]
  /\ authed = [d \in Devices |-> FALSE]
  /\ waiting = [d \in Devices |-> FALSE]
  /\ net = [c \in Chans |-> "free"]
  /\ holder \in [Chans -> Devices]
  /\ listening = [c \in Chans |-> FALSE]
  /\ inbox = [c \in Chans |-> <<>>]
  /\ req = [c \in Chans |-> 0]
  /\ known = [c \in Chans |-> FALSE]
  /\ route = NoChan
  /\ left = [drop |-> MaxDrops, refusal |-> MaxRefusals,
             silence |-> MaxSilences, login |-> MaxLogins]
  /\ calm = TRUE

Spend(f) == left[f] > 0 /\ left' = [left EXCEPT ![f] = @ - 1]

\* Nothing that was under way on channel c arrives any more.
Forget(c) ==
  /\ listening' = [listening EXCEPT ![c] = FALSE]
  /\ inbox' = [inbox EXCEPT ![c] = <<>>]
  /\ req' = [req EXCEPT ![c] = 0]
  /\ known' = [known EXCEPT ![c] = FALSE]
  /\ route' = IF route = c THEN NoChan ELSE route

\* Both ends are done with channel c.
Discard(c) == net' = [net EXCEPT ![c] = "free"] /\ Forget(c)

-----------------------------------------------------------------------------
(***************************************************************************)
(* connect(), called by a screen or by the reconnect timer.                *)
(***************************************************************************)
\* A channel that connect() waited for in vain: nobody listens to it.
Abandoned(c) ==
  /\ net[c] # "free" /\ ~listening[c]
  /\ ~\E d \in Devices : connecting[d] # "no" /\ chan[d] = c

\* Up to the await of ready: _channel is replaced, whatever it was.  An
\* abandoned channel may end at any time, so its name may be the new one's.
StartConnect(d, caller) ==
  \E c \in Chans :
    /\ net[c] = "free" \/ Abandoned(c)
    /\ net' = [net EXCEPT ![c] = "opening"]
    /\ Forget(c)
    /\ holder' = [holder EXCEPT ![c] = d]
    /\ chan' = [chan EXCEPT ![d] = c]
    /\ connecting' = [connecting EXCEPT ![d] = caller]

\* A screen connects when ChatService shows no connection; the timer, if it
\* is running, keeps running.
UserConnect(d) ==
  /\ ~shown[d]
  /\ connecting[d] = "no"
  /\ StartConnect(d, "user")
  /\ calm' = (calm /\ ~timer[d])
  /\ UNCHANGED <<connected, timer, beating, missed, creds, shown, authed, waiting, left>>

\* Mutant of TimerFires: Timer.periodic.
TimerRepeats(d) ==
  /\ timer[d]
  /\ \/ connecting[d] = "no" /\ StartConnect(d, "timer")
     \/ connecting[d] # "no" /\ UNCHANGED <<chanVars, route, chan, connecting>>
  /\ UNCHANGED <<timer, connected, beating, missed, creds, shown, authed, waiting,
                 left, calm>>

\* The timer does not ask whether the app is connected by now.
TimerFires(d) ==
  /\ timer[d]
  /\ timer' = [timer EXCEPT ![d] = FALSE]
  /\ \/ connecting[d] = "no" /\ StartConnect(d, "timer")
     \/ connecting[d] # "no" /\ UNCHANGED <<chanVars, route, chan, connecting>>
  /\ UNCHANGED <<connected, beating, missed, creds, shown, authed, waiting, left, calm>>

\* Opening takes along what has been written to the sink, a login or a close.
Opens(c) == net' = [net EXCEPT ![c] = IF @ = "doomed" THEN "closing" ELSE "open"]

\* Mutant of ConnectReady: the misses of the last connection count on.
ConnectKeepsMisses(d) ==
  LET c == chan[d] IN
  /\ connecting[d] # "no"
  /\ Opens(c)
  /\ connecting' = [connecting EXCEPT ![d] = "no"]
  /\ connected' = [connected EXCEPT ![d] = TRUE]
  /\ shown' = [shown EXCEPT ![d] = TRUE]
  /\ beating' = [beating EXCEPT ![d] = TRUE]
  /\ listening' = [listening EXCEPT ![c] = TRUE]
  /\ UNCHANGED <<chan, timer, missed, creds, authed, waiting, holder, inbox, req,
                 known, route, left, calm>>

\* After ready: callbacks, subscription, heartbeat; after a reconnect with
\* saved credentials, the automatic login.
ConnectReady(d) ==
  LET c == chan[d] IN
  /\ connecting[d] # "no"
  /\ Opens(c)
  /\ connecting' = [connecting EXCEPT ![d] = "no"]
  /\ connected' = [connected EXCEPT ![d] = TRUE]
  /\ shown' = [shown EXCEPT ![d] = TRUE]
  /\ missed' = [missed EXCEPT ![d] = 0]
  /\ beating' = [beating EXCEPT ![d] = TRUE]
  /\ listening' = [listening EXCEPT ![c] = TRUE]
  /\ req' = [req EXCEPT ![c] = IF connecting[d] = "timer" /\ creds[d] THEN @ + 1 ELSE @]
  /\ UNCHANGED <<chan, timer, creds, authed, waiting, holder, inbox, known, route, left, calm>>

\* Refused, or timed out: then nobody closes the channel, and it may still
\* open.  _scheduleReconnect replaces a running timer.
ConnectFails(d) ==
  /\ connecting[d] # "no"
  /\ Spend("refusal")
  /\ connecting' = [connecting EXCEPT ![d] = "no"]
  /\ connected' = [connected EXCEPT ![d] = FALSE]
  /\ timer' = [timer EXCEPT ![d] = TRUE]
  /\ Discard(chan[d]) \/ UNCHANGED <<net, listening, inbox, req, known, route>>
  /\ UNCHANGED <<chan, beating, missed, creds, shown, authed, waiting, holder, calm>>

\* An abandoned channel opens after all.
LateOpens(c) ==
  /\ Abandoned(c) /\ net[c] \in {"opening", "doomed"}
  /\ Opens(c)
  /\ UNCHANGED <<deviceVars, holder, listening, inbox, req, known, route, left, calm>>

\* It fails to open after all, or comes to its end.
LateEnds(c) ==
  /\ Abandoned(c)
  /\ Discard(c)
  /\ UNCHANGED <<deviceVars, holder, left, calm>>

-----------------------------------------------------------------------------
(***************************************************************************)
(* Callbacks of a channel's stream.  They do not know which channel they   *)
(* belong to, and an old subscription is never cancelled.                  *)
(***************************************************************************)
\* Mutant of HandleDisconnect: no reconnect is scheduled.
DisconnectForGood(d) ==
  /\ connected' = [connected EXCEPT ![d] = FALSE]
  /\ shown' = [shown EXCEPT ![d] = FALSE]
  /\ beating' = [beating EXCEPT ![d] = FALSE]
  /\ timer' = timer

\* Mutant of HandleDisconnect: _isConnected is left as it is.
DisconnectUnnoticed(d) ==
  /\ timer' = [timer EXCEPT ![d] = TRUE]
  /\ UNCHANGED <<connected, shown, beating>>

HandleDisconnect(d) ==
  /\ connected' = [connected EXCEPT ![d] = FALSE]
  /\ shown' = [shown EXCEPT ![d] = FALSE]
  /\ beating' = [beating EXCEPT ![d] = FALSE]
  /\ timer' = [timer EXCEPT ![d] = TRUE]

\* onDone and onError, after the messages before it.
Done(c) ==
  /\ listening[c] /\ net[c] = "dead" /\ inbox[c] = <<>>
  /\ HandleDisconnect(holder[c])
  /\ Discard(c)
  /\ UNCHANGED <<chan, connecting, missed, creds, authed, waiting, holder, left, calm>>

\* login() saves the credentials when it sees the success it waits for.
LoginOk(c) ==
  LET d == holder[c] IN
  /\ listening[c] /\ inbox[c] # <<>> /\ Head(inbox[c]) = "loginOk"
  /\ inbox' = [inbox EXCEPT ![c] = Tail(@)]
  /\ authed' = [authed EXCEPT ![d] = TRUE]
  /\ creds' = [creds EXCEPT ![d] = @ \/ waiting[d]]
  /\ waiting' = [waiting EXCEPT ![d] = FALSE]
  /\ UNCHANGED <<chan, connected, connecting, timer, beating, missed, shown,
                 net, holder, listening, req, known, route, left, calm>>

\* The saved credentials stay.
Kicked(c) ==
  /\ listening[c] /\ inbox[c] # <<>> /\ Head(inbox[c]) = "kicked"
  /\ inbox' = [inbox EXCEPT ![c] = Tail(@)]
  /\ authed' = [authed EXCEPT ![holder[c]] = FALSE]
  /\ UNCHANGED <<chan, connected, connecting, timer, beating, missed, creds, shown,
                 waiting, net, holder, listening, req, known, route, left, calm>>

-----------------------------------------------------------------------------
(***************************************************************************)
(* The heartbeat.  A silence is a heartbeat that gets no answer in time;   *)
(* before a login the gateway answers none.  A login on its way arrives    *)
(* well before a heartbeat is given up.                                    *)
(***************************************************************************)
\* sink.close() on the current channel.
SinkClose(c) ==
  net' = [net EXCEPT ![c] = IF @ = "open" THEN "closing"
                            ELSE IF @ = "opening" THEN "doomed" ELSE @]

Answered(c) == net[c] = "open" /\ (known[c] \/ req[c] > 0)

HeartbeatTimeout(d) ==
  /\ beating[d] /\ connected[d]
  /\ IF Answered(chan[d]) THEN Spend("silence") ELSE left' = left
  /\ missed' = [missed EXCEPT ![d] = @ + 1]
  /\ IF missed[d] + 1 >= MaxMissed
       THEN /\ SinkClose(chan[d])
            /\ HandleDisconnect(d)
            /\ calm' = FALSE
       ELSE UNCHANGED <<net, connected, shown, beating, timer, calm>>
  /\ UNCHANGED <<chan, connecting, creds, authed, waiting, holder, listening,
                 inbox, req, known, route>>

\* The answer may come on any channel that is still listened to.
HeartbeatResponse(d) ==
  /\ missed[d] > 0
  /\ \E c \in Chans : holder[c] = d /\ listening[c] /\ known[c] /\ net[c] \in {"open", "closing"}
  /\ missed' = [missed EXCEPT ![d] = 0]
  /\ UNCHANGED <<chan, connected, connecting, timer, beating, creds, shown, authed,
                 waiting, chanVars, route, left, calm>>

-----------------------------------------------------------------------------
(***************************************************************************)
(* The user.                                                               *)
(***************************************************************************)
UserLogin(d) ==
  LET c == chan[d] IN
  /\ shown[d] /\ ~authed[d] /\ ~waiting[d]
  /\ Spend("login")
  /\ waiting' = [waiting EXCEPT ![d] = TRUE]
  /\ IF connected[d] /\ net[c] \in {"opening", "open"}
       THEN /\ req' = [req EXCEPT ![c] = @ + 1]
            /\ calm' = (calm /\ req[c] = 0 /\ route # c)
       ELSE UNCHANGED <<req, calm>>
  /\ UNCHANGED <<chan, connected, connecting, timer, beating, missed, creds, shown,
                 authed, net, holder, listening, inbox, known, route>>

\* Five seconds without a response.
LoginGivesUp(d) ==
  /\ waiting[d]
  /\ waiting' = [waiting EXCEPT ![d] = FALSE]
  /\ UNCHANGED <<chan, connected, connecting, timer, beating, missed, creds, shown,
                 authed, chanVars, route, left, calm>>

\* The gateway does not know the logout request.
UserLogout(d) ==
  /\ authed[d]
  /\ Spend("login")
  /\ authed' = [authed EXCEPT ![d] = FALSE]
  /\ creds' = [creds EXCEPT ![d] = FALSE]
  /\ UNCHANGED <<chan, connected, connecting, timer, beating, missed, shown,
                 waiting, chanVars, route, calm>>

-----------------------------------------------------------------------------
(***************************************************************************)
(* The gateway and the network.                                            *)
(***************************************************************************)
Alive(c) == c # NoChan /\ net[c] \in {"open", "closing"}

\* handle_login: kick the connection in the table, enter this one, answer.
GatewayLogin(c) ==
  LET kickable == Alive(route) IN
  /\ Alive(c) /\ req[c] > 0
  /\ req' = [req EXCEPT ![c] = @ - 1]
  /\ net' = [x \in Chans |-> IF kickable /\ x = route THEN "dead" ELSE net[x]]
  /\ inbox' = [x \in Chans |->
                 IF kickable /\ x = route THEN Append(inbox[x], "kicked")
                 ELSE IF x = c THEN Append(inbox[x], "loginOk") ELSE inbox[x]]
  /\ known' = [known EXCEPT ![c] = TRUE]
  /\ route' = c
  /\ UNCHANGED <<deviceVars, holder, listening, left, calm>>

\* The gateway answers a Close frame by closing.
GatewayCloses(c) ==
  /\ net[c] = "closing"
  /\ net' = [net EXCEPT ![c] = "dead"]
  /\ UNCHANGED <<deviceVars, holder, listening, inbox, req, known, route, left, calm>>

\* The gateway or the network gives a connection up.
Drop(c) ==
  /\ net[c] = "open"
  /\ Spend("drop")
  /\ net' = [net EXCEPT ![c] = "dead"]
  /\ UNCHANGED <<deviceVars, holder, listening, inbox, req, known, route, calm>>

-----------------------------------------------------------------------------
DeviceStep(d) ==
  \/ UserConnect(d) \/ TimerFires(d) \/ ConnectReady(d) \/ ConnectFails(d)
  \/ HeartbeatTimeout(d) \/ HeartbeatResponse(d)
  \/ UserLogin(d) \/ LoginGivesUp(d) \/ UserLogout(d)

ChanStep(c) ==
  \/ Done(c) \/ LoginOk(c) \/ Kicked(c)
  \/ LateOpens(c) \/ LateEnds(c)
  \/ GatewayLogin(c) \/ GatewayCloses(c) \/ Drop(c)

Next == (\E d \in Devices : DeviceStep(d)) \/ (\E c \in Chans : ChanStep(c))

Spec == Init /\ [][Next]_vars

(***************************************************************************)
(* Timers fire, a connection attempt ends, messages and closes arrive, the *)
(* gateway serves what it gets.  The user need not do anything, and a      *)
(* channel that was abandoned need neither open nor end.                   *)
(***************************************************************************)
Fairness ==
  /\ \A d \in Devices : WF_vars(TimerFires(d)) /\ WF_vars(ConnectReady(d))
  /\ \A c \in Chans : /\ WF_vars(Done(c) \/ LoginOk(c) \/ Kicked(c))
                      /\ WF_vars(GatewayLogin(c))
                      /\ WF_vars(GatewayCloses(c))

FairSpec == Spec /\ Fairness

-----------------------------------------------------------------------------
(* Type correctness.                                                       *)
TypeOK ==
  /\ chan \in [Devices -> Chans \cup {NoChan}]
  /\ connecting \in [Devices -> {"no", "user", "timer"}]
  /\ connected \in [Devices -> BOOLEAN] /\ timer \in [Devices -> BOOLEAN]
  /\ beating \in [Devices -> BOOLEAN] /\ creds \in [Devices -> BOOLEAN]
  /\ shown \in [Devices -> BOOLEAN] /\ authed \in [Devices -> BOOLEAN]
  /\ waiting \in [Devices -> BOOLEAN]
  /\ missed \in [Devices -> 0..MaxMissed]
  /\ net \in [Chans -> {"free", "opening", "doomed", "open", "closing", "dead"}]
  /\ holder \in [Chans -> Devices]
  /\ listening \in [Chans -> BOOLEAN]
  /\ inbox \in [Chans -> Seq({"loginOk", "kicked"})]
  /\ req \in [Chans -> Nat]
  /\ known \in [Chans -> BOOLEAN]
  /\ route \in Chans \cup {NoChan}
  /\ left \in [Faults -> Nat]
  /\ calm \in BOOLEAN

(* An app that has been started never stops trying: while it is not        *)
(* connected, a connection attempt or the reconnect timer is under way,    *)
(* although the timer gives up silently when it meets an attempt.          *)
KeepsTrying ==
  \A d \in Devices :
    chan[d] # NoChan /\ ~connected[d] => timer[d] \/ connecting[d] # "no"

(* A device that holds itself connected listens on its present channel, so *)
(* that it hears of its end: callbacks of older channels and overlapping   *)
(* attempts never leave it deaf.                                           *)
ConnectedHears ==
  \A d \in Devices :
    connected[d] /\ connecting[d] = "no"
      => listening[chan[d]] /\ holder[chan[d]] = d

(* While nothing has set off the reconnect loop, a device listens to one   *)
(* live connection at most, and the gateway kicks that only for a login of *)
(* another device: what an abandoned attempt leaves behind may open beside *)
(* it, but never logs in.  This is what SettlesWhenCalm rests on; Settles  *)
(* of ClientReconnectClaims lacks it.                                      *)
NeverKicksItself ==
  calm =>
    /\ \A b, c \in Chans :
         listening[b] /\ listening[c] /\ Alive(b) /\ Alive(c) /\ holder[b] = holder[c]
           => b = c
    /\ \A c \in Chans :
         Alive(c) /\ req[c] > 0 /\ Alive(route) => holder[route] # holder[c]

(* Attempts are under way on channels of their own, only open channels     *)
(* are listened to, and the misses of a live connection are below the      *)
(* limit: the rest of the inductive invariant.                             *)
LinksRight ==
  /\ \A d \in Devices : connecting[d] # "no" =>
       chan[d] \in Chans /\ net[chan[d]] \in {"opening", "doomed"} /\ holder[chan[d]] = d
  /\ \A c \in Chans : listening[c] => net[c] \in {"open", "closing", "dead"}
  /\ \A d \in Devices : connected[d] => missed[d] < MaxMissed /\ chan[d] \in Chans

LinkInv == TypeOK /\ LinksRight /\ KeepsTrying /\ ConnectedHears

(* The app is connected again and again.                                   *)
Reconnects == \A d \in Devices : []<>(chan[d] = NoChan \/ connected[d])

(* If heartbeats are never lost, screens do not connect while the timer    *)
(* runs, and nobody logs in twice on one connection, the app ends up       *)
(* connected for good.                                                     *)
SettlesWhenCalm ==
  []calm => \A d \in Devices : <>[](chan[d] = NoChan \/ connected[d])
=============================================================================
