----------------------- MODULE ClientReconnectClaims -----------------------
(***************************************************************************)
(* What the client's comments and documents say of its connection and the  *)
(* code does not keep.  Each is refuted by a run.                          *)
(***************************************************************************)
EXTENDS ClientReconnect

(* src/.iflow/features.json:223: the client reconnects once the network has    *)
(* recovered.  With finitely many faults, an app whose user is logged in   *)
(* ends up connected for good.                                             *)
Settles == \A d \in Devices : <>[](chan[d] = NoChan \/ connected[d] \/ ~creds[d])

(* src/.iflow/features.json:221: heartbeats are sent correctly.  An app nobody *)
(* logs in to stays connected on a sound network.                          *)
IdleStays == \A d \in Devices : <>[](chan[d] = NoChan \/ connected[d])

(* chat_service.dart:274: a kicked device is logged off.  Then two devices *)
(* whose users do nothing more come to rest, one logged in and one off,    *)
(* even where a single device would settle.                                *)
KicksEnd == []calm => <>[][UNCHANGED authed]_vars

(* connect, websocket_service.dart:259: an attempt that timed out has      *)
(* failed.  Then a device has one live connection at most, as long as      *)
(* nothing else makes it open a second.                                    *)
OneConnection ==
  calm => \A b, c \in Chans : Alive(b) /\ Alive(c) /\ holder[b] = holder[c] => b = c
============================================================================
