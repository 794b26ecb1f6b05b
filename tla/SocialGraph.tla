---------------------------- MODULE SocialGraph ----------------------------
(***************************************************************************)
(* What the friend requests of chat_app promise: friendship is a symmetric *)
(* relation that only an accepted request brings about and either side may *)
(* end.  The promise is made until void: after that anything may happen.   *)
(***************************************************************************)
CONSTANT People

VARIABLES asked,    \* the pairs <<a, b>> where a waits for b's answer
          friends,  \* the sets {a, b} of two friends
          void      \* the promise no longer holds

Init == asked = {} /\ friends = {} /\ void = FALSE

Ask(a, b) ==
  /\ {a, b} \notin friends
  /\ asked' = asked \cup {<<a, b>>}
  /\ UNCHANGED friends

Accept(b, a) ==
  /\ <<a, b>> \in asked
  /\ asked' = asked \ {<<a, b>>}
  /\ friends' = friends \cup {{a, b}}

Reject(b, a) ==
  /\ <<a, b>> \in asked
  /\ asked' = asked \ {<<a, b>>}
  /\ UNCHANGED friends

Part(a, b) ==
  /\ friends' = friends \ {{a, b}}
  /\ asked' = asked \ {<<a, b>>, <<b, a>>}

Next ==
  \/ void'
  \/ /\ void' = void
     /\ \E a, b \in People : a # b /\ (Ask(a, b) \/ Accept(b, a) \/ Reject(b, a) \/ Part(a, b))

Spec == Init /\ [][Next]_<<asked, friends, void>>
=============================================================================
