------------------------- MODULE DatabasePoolClaims -------------------------
(***************************************************************************)
(* What database_pool.hpp promises of acquire() and the code does not keep *)
(* in every interleaving.                                                  *)
(***************************************************************************)
EXTENDS DatabasePool

(* database_pool.hpp:172, acquire() blocks "until it succeeds or times     *)
(* out".  Nobody sleeps beside an idle connection without a notified       *)
(* thread on its way to it.                                                *)
NobodyOverlooked ==
  shut = "no" /\ idle # {} /\ Asleep # {} => Told # {}

(* acquire() makes a connection while the pool is below its limit.  Nobody *)
(* sleeps while the pool has lost connections to invalidity.               *)
RoomIsUsed ==
  [][\A t \in Clients : held[t] # NoDb /\ held'[t] = NoDb /\ shut = "no" /\ Asleep # {}
       => Told' # {}]_vars
=============================================================================
