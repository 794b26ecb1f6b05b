------------------------- MODULE DatabasePoolProofs -------------------------
(***************************************************************************)
(* Proofs about DatabasePool, for any clients and limits: the accounting   *)
(* of connections is inductive, sleepers are told, and the pool implements *)
(* Leases.                                                                 *)
(***************************************************************************)
EXTENDS DatabasePool, FiniteSetTheorems, TLAPS

DbInv == TypeOK /\ Accounted /\ WithinMax

USE DbPoolAssumption

-----------------------------------------------------------------------------
(* Lending and giving back one connection, as set operations.              *)
LEMMA HeldGrows ==
  ASSUME TypeOK, NEW t \in Clients, NEW c \in DbConns, held[t] = NoDb,
         held' = [held EXCEPT ![t] = c]
  PROVE  Held' = Held \cup {c}
  BY DEF TypeOK, Held

LEMMA HeldShrinks ==
  ASSUME TypeOK, Accounted, NEW t \in Clients, held[t] # NoDb,
         held' = [held EXCEPT ![t] = NoDb]
  PROVE  Held' = Held \ {held[t]}
<1>1. \A s \in Clients : held'[s] = IF s = t THEN NoDb ELSE held[s]  BY DEF TypeOK
<1>2. \A s \in Clients : s # t => held[s] # held[t]  BY DEF Accounted
<1> QED  BY <1>1, <1>2 DEF Held

(* A connection nobody has goes to a thread that has none.                 *)
LEMMA Lends ==
  ASSUME TypeOK, Accounted, shut = "no", NEW t \in Clients, held[t] = NoDb,
         NEW c \in DbConns \ Held, held' = [held EXCEPT ![t] = c],
         all' \in SUBSET DbConns, idle' \in SUBSET all', c \notin idle',
         all' = idle' \cup Held \cup {c}, idle' \cap Held = {}, shut' = shut
  PROVE  Accounted' /\ held' \in [Clients -> DbConns \cup {NoDb}]
<1>1. Held' = Held \cup {c}  BY HeldGrows
<1>2. held' \in [Clients -> DbConns \cup {NoDb}]  BY DEF TypeOK
<1>3. \A s \in Clients : held'[s] = IF s = t THEN c ELSE held[s]  BY DEF TypeOK
<1>4. \A s \in Clients : held[s] # c  BY DEF Held
<1>5. \A r, s \in Clients : held'[r] = held'[s] /\ held'[r] # NoDb => r = s
  BY <1>3, <1>4 DEF Accounted
<1> QED  BY <1>1, <1>2, <1>5 DEF Accounted

(* A thread gives its connection back, or the pool no longer counts it.    *)
LEMMA GivesBack ==
  ASSUME TypeOK, Accounted, NEW t \in Clients, held[t] # NoDb,
         held' = [held EXCEPT ![t] = NoDb], shut' = shut,
         \/ all' = all /\ idle' = idle \cup {held[t]}
         \/ all' = all \ {held[t]} /\ idle' = idle
         \/ shut # "no" /\ UNCHANGED <<all, idle>>
  PROVE  Accounted' /\ held' \in [Clients -> DbConns \cup {NoDb}]
<1>1. Held' = Held \ {held[t]} /\ held[t] \in Held  BY HeldShrinks DEF Held
<1>2. held' \in [Clients -> DbConns \cup {NoDb}]  BY DEF TypeOK
<1>3. \A s \in Clients : held'[s] = IF s = t THEN NoDb ELSE held[s]  BY DEF TypeOK
<1>4. \A r, s \in Clients : held'[r] = held'[s] /\ held'[r] # NoDb => r = s
  BY <1>3 DEF Accounted
<1> QED  BY <1>1, <1>2, <1>4 DEF Accounted

-----------------------------------------------------------------------------
(* The three outcomes of a round of acquire().                             *)
LEMMA TakeIdleStep ==
  ASSUME DbInv, shut = "no", shut' = shut, UNCHANGED <<health, missed>>,
         NEW t \in Clients, held[t] = NoDb,
         NEW D \in SUBSET idle, NEW c \in idle, TakeIdle(t, D, c)
  PROVE  DbInv'
<1> USE DEF DbInv
<1>1. c \in DbConns \ Held /\ c \notin idle' /\ idle' \in SUBSET all'
  BY DEF TypeOK, TakeIdle, Accounted
<1>2. all' = idle' \cup Held \cup {c} /\ idle' \cap Held = {}
  BY DEF TypeOK, TakeIdle, Accounted
<1>3. all' \in SUBSET all  BY DEF TakeIdle
<1>4. IsFiniteSet(all') /\ Cardinality(all') <= Cardinality(all)
  BY <1>3, FS_Subset DEF TypeOK
<1>5. Accounted' /\ held' \in [Clients -> DbConns \cup {NoDb}]
  BY <1>1, <1>2, <1>3, Lends DEF TypeOK, TakeIdle
<1>6. TypeOK'  BY <1>1, <1>3, <1>4, <1>5 DEF TypeOK, TakeIdle
<1>7. WithinMax'
  BY <1>3, <1>4, FS_CardinalityType DEF WithinMax, TypeOK
<1> QED  BY <1>5, <1>6, <1>7

LEMMA CreateStep ==
  ASSUME DbInv, shut = "no", shut' = shut, UNCHANGED <<health, missed>>,
         NEW t \in Clients, held[t] = NoDb, NEW c \in DbConns, Create(t, c)
  PROVE  DbInv'
<1> USE DEF DbInv
<1>1. c \in DbConns \ Held /\ c \notin all /\ all \ idle \in SUBSET all
  BY DEF Create, Fresh
<1>2. all' = idle' \cup Held \cup {c} /\ idle' \cap Held = {} /\ idle' \in SUBSET all'
  BY DEF TypeOK, Create, Accounted
<1>3. IsFiniteSet(all \ idle)  BY <1>1, FS_Subset DEF TypeOK
<1>4. IsFiniteSet(all') /\ Cardinality(all') = Cardinality(all \ idle) + 1
  BY <1>1, <1>3, FS_AddElement DEF Create
<1>5. all' \in SUBSET DbConns  BY DEF TypeOK, Create
<1>6. Accounted' /\ held' \in [Clients -> DbConns \cup {NoDb}]
  BY <1>1, <1>2, <1>5, Lends DEF Create
<1>7. TypeOK'  BY <1>2, <1>4, <1>5, <1>6 DEF TypeOK, Create
<1>8. WithinMax'
  BY <1>3, <1>4, FS_CardinalityType DEF WithinMax, Create
<1> QED  BY <1>6, <1>7, <1>8

(* The pool only loses idle connections, and nobody's hands change.        *)
LEMMA DropsIdle ==
  ASSUME DbInv, UNCHANGED held, NEW D \in SUBSET idle, all' = all \ D, idle' = idle \ D,
         wait' \in [Clients -> {"no", "asleep", "told"}],
         health' \in {"none", "running", "exited"},
         shut' \in {"no", "flagged", "notified", "done"}, missed' \in BOOLEAN,
         shut' = "no" => shut = "no"
  PROVE  DbInv'
<1> USE DEF DbInv
<1>1. all' \in SUBSET all /\ idle' \in SUBSET all'  BY DEF TypeOK
<1>2. IsFiniteSet(all') /\ Cardinality(all') <= Cardinality(all)
  BY <1>1, FS_Subset DEF TypeOK
<1>3. TypeOK'  BY <1>1, <1>2 DEF TypeOK
<1>4. Accounted'  BY <1>1 DEF TypeOK, Accounted, Held
<1>5. WithinMax'
  BY <1>1, <1>2, FS_CardinalityType DEF WithinMax, TypeOK
<1> QED  BY <1>3, <1>4, <1>5

LEMMA RoundStep ==
  ASSUME DbInv, shut = "no", NEW t \in Clients, held[t] = NoDb, Round(t)
  PROVE  DbInv'
<1>1. shut' = shut /\ UNCHANGED <<health, missed>>  BY DEF Round
<1>2. CASE \E D \in SUBSET idle, c \in idle : TakeIdle(t, D, c)
  BY <1>1, <1>2, TakeIdleStep
<1>3. CASE \E c \in DbConns : Create(t, c)  BY <1>1, <1>3, CreateStep
<1>4. CASE FallAsleep(t)
  <2>1. all' = all \ idle /\ idle' = idle \ idle /\ UNCHANGED held  BY <1>4 DEF FallAsleep
  <2>2. wait' \in [Clients -> {"no", "asleep", "told"}]
    BY <1>4 DEF FallAsleep, DbInv, TypeOK
  <2> QED  BY <1>1, <2>1, <2>2, DropsIdle DEF DbInv, TypeOK
<1> QED  BY <1>2, <1>3, <1>4 DEF Round

(* A thread that waits has no connection yet.                              *)
WaitersEmpty == \A t \in Clients : wait[t] # "no" => held[t] = NoDb

LEMMA WaitersStep == TypeOK /\ WaitersEmpty /\ [Next]_vars => WaitersEmpty'
<1> SUFFICES ASSUME TypeOK, WaitersEmpty, [Next]_vars PROVE WaitersEmpty'
  OBVIOUS
<1> USE DEF TypeOK, WaitersEmpty
<1>1. ASSUME NEW t \in Clients, Round(t), held[t] = NoDb PROVE WaitersEmpty'
  BY <1>1 DEF Round, TakeIdle, Create, FallAsleep
<1>2. ASSUME NEW t \in Clients, ClientStep(t) PROVE WaitersEmpty'
  <2>1. CASE Acquire(t)  BY <2>1, <1>1 DEF Acquire, Idler
  <2>2. CASE Resume(t)  BY <2>2, <1>1 DEF Resume
  <2>3. CASE ResumeShut(t) \/ Late(t) \/ Timeout(t)
    BY <2>3 DEF ResumeShut, Late, Timeout, GiveUp
  <2>4. CASE TryAcquire(t) \/ TryAcquireFails(t)
    BY <2>4 DEF TryAcquire, TryAcquireFails, TakeIdle, Idler
  <2>5. CASE ReleaseValid(t)  BY <2>5 DEF ReleaseValid, NotifyOne, Asleep
  <2>6. CASE ReleaseInvalid(t) \/ ReleaseShut(t)  BY <2>6 DEF ReleaseInvalid, ReleaseShut
  <2> QED  BY <1>2, <2>1, <2>2, <2>3, <2>4, <2>5, <2>6 DEF ClientStep
<1>3. CASE \E S \in SUBSET DbConns : PoolInit(S)  BY <1>3 DEF PoolInit
<1>4. CASE \E R \in SUBSET idle, N \in SUBSET DbConns : Cleanup(R, N)  BY <1>4 DEF Cleanup
<1>5. CASE HealthExit \/ Shutdown \/ ShutdownClear
  BY <1>5 DEF HealthExit, Shutdown, ShutdownClear
<1>6. CASE ShutdownNotify  BY <1>6 DEF ShutdownNotify, Asleep
<1>7. CASE UNCHANGED vars  BY <1>7 DEF vars
<1> QED  BY <1>2, <1>3, <1>4, <1>5, <1>6, <1>7 DEF Next

-----------------------------------------------------------------------------
LEMMA ReleaseStep ==
  ASSUME DbInv, NEW t \in Clients,
         ReleaseValid(t) \/ ReleaseInvalid(t) \/ ReleaseShut(t)
  PROVE  DbInv'
<1> USE DEF DbInv
<1>1. held[t] # NoDb /\ held' = [held EXCEPT ![t] = NoDb] /\ shut' = shut
  BY DEF ReleaseValid, ReleaseInvalid, ReleaseShut
<1>2. CASE ReleaseValid(t)
  <2>1. all' = all /\ idle' = idle \cup {held[t]} /\ held[t] \in all
    BY <1>1, <1>2 DEF ReleaseValid, Accounted, Held
  <2>2. Accounted' /\ held' \in [Clients -> DbConns \cup {NoDb}]
    BY <1>1, <2>1, GivesBack
  <2>3. wait' \in [Clients -> {"no", "asleep", "told"}]
    BY <1>2 DEF ReleaseValid, NotifyOne, TypeOK
  <2>4. TypeOK'  BY <1>2, <2>1, <2>2, <2>3 DEF TypeOK, ReleaseValid
  <2> QED  BY <2>1, <2>2, <2>4 DEF WithinMax
<1>3. CASE ReleaseInvalid(t)
  <2>1. all' = all \ {held[t]} /\ idle' = idle  BY <1>3 DEF ReleaseInvalid
  <2>2. Accounted' /\ held' \in [Clients -> DbConns \cup {NoDb}]
    BY <1>1, <2>1, GivesBack
  <2>3. held[t] \notin idle  BY <1>1 DEF Accounted, Held
  <2>4. all' \in SUBSET all  BY <2>1
  <2>5. IsFiniteSet(all') /\ Cardinality(all') <= Cardinality(all)
    BY <2>4, FS_Subset DEF TypeOK
  <2>6. TypeOK'  BY <1>3, <2>1, <2>2, <2>3, <2>5 DEF TypeOK, ReleaseInvalid
  <2>7. WithinMax'
    BY <2>5, FS_CardinalityType DEF TypeOK, WithinMax
  <2> QED  BY <2>2, <2>6, <2>7
<1>4. CASE ReleaseShut(t)
  <2>1. UNCHANGED <<all, idle>> /\ shut # "no"  BY <1>4 DEF ReleaseShut
  <2>2. Accounted' /\ held' \in [Clients -> DbConns \cup {NoDb}]
    BY <1>1, <2>1, GivesBack
  <2> QED  BY <1>4, <2>1, <2>2 DEF TypeOK, ReleaseShut, WithinMax
<1> QED  BY <1>2, <1>3, <1>4

LEMMA CleanupStep ==
  ASSUME DbInv, NEW R \in SUBSET idle, NEW N \in SUBSET DbConns, Cleanup(R, N)
  PROVE  DbInv'
<1> USE DEF DbInv
<1>1. all \ R \in SUBSET all /\ idle \ R \in SUBSET all  BY DEF TypeOK
<1>2. IsFiniteSet(all \ R) /\ Cardinality(all \ R) <= Cardinality(all)
  BY <1>1, FS_Subset DEF TypeOK
<1>3. IsFiniteSet(all')  BY <1>2, FS_Union DEF Cleanup
<1>4. TypeOK'  BY <1>3 DEF TypeOK, Cleanup
<1>5. Accounted'  BY DEF Accounted, Cleanup, Held, Fresh, TypeOK
<1>6. CASE N = {}
  <2>1. all' = all \ R  BY <1>6 DEF Cleanup
  <2>2. Cardinality(all) \in Nat /\ Cardinality(all \ R) \in Nat
    BY <1>2, FS_CardinalityType DEF TypeOK
  <2> QED  BY <1>2, <1>4, <1>5, <2>1, <2>2 DEF WithinMax
<1>7. CASE N # {}
  <2>1. Cardinality(all') <= Min  BY <1>7 DEF Cleanup
  <2>2. Cardinality(all') \in Nat  BY <1>3, FS_CardinalityType
  <2> QED  BY <1>4, <1>5, <2>1, <2>2 DEF WithinMax
<1> QED  BY <1>4, <1>5, <1>6, <1>7

LEMMA PoolInitStep ==
  ASSUME DbInv, NEW S \in SUBSET DbConns, PoolInit(S)
  PROVE  DbInv'
<1>1. Held = {} /\ Held' = {}  BY DEF PoolInit, Idler, Held
<1>2. TypeOK'  BY DEF DbInv, TypeOK, PoolInit
<1>3. Accounted'  BY <1>1 DEF DbInv, Accounted, PoolInit
<1>4. WithinMax'  BY FS_CardinalityType DEF PoolInit, WithinMax
<1> QED  BY <1>2, <1>3, <1>4 DEF DbInv

LEMMA DbInit == Init => DbInv
<1> SUFFICES ASSUME Init PROVE DbInv
  OBVIOUS
<1>1. TypeOK  BY FS_EmptySet DEF Init, TypeOK
<1>2. Accounted  BY DEF Init, Accounted, Held
<1>3. WithinMax  BY FS_EmptySet DEF Init, WithinMax
<1> QED  BY <1>1, <1>2, <1>3 DEF DbInv

LEMMA DbStep == DbInv /\ WaitersEmpty /\ [Next]_vars => DbInv'
<1> SUFFICES ASSUME DbInv, WaitersEmpty, [Next]_vars PROVE DbInv'
  OBVIOUS
<1>1. ASSUME NEW t \in Clients, ClientStep(t) PROVE DbInv'
  <2>1. CASE Acquire(t)  BY <2>1, RoundStep DEF Acquire, Idler
  <2>2. CASE Resume(t)
    BY <2>2, RoundStep DEF Resume, WaitersEmpty
  <2>3. CASE ResumeShut(t) \/ Late(t) \/ Timeout(t)
    <3>1. UNCHANGED <<all, idle, held, health, shut>>
      BY <2>3 DEF ResumeShut, Late, Timeout, GiveUp
    <3>2. wait' \in [Clients -> {"no", "asleep", "told"}] /\ missed' \in BOOLEAN
      BY <2>3 DEF ResumeShut, Late, Timeout, GiveUp, DbInv, TypeOK
    <3>3. all' = all \ {} /\ idle' = idle \ {} /\ {} \in SUBSET idle  BY <3>1
    <3> QED  BY <3>1, <3>2, <3>3, DropsIdle DEF DbInv, TypeOK
  <2>4. CASE TryAcquire(t)
    <3>1. PICK c \in idle : TakeIdle(t, {}, c)  BY <2>4 DEF TryAcquire
    <3> QED  BY <2>4, <3>1, TakeIdleStep DEF TryAcquire, Idler
  <2>5. CASE TryAcquireFails(t)
    <3>1. PICK c \in idle : idle' = idle \ {c} /\ all' = all \ {c}
      BY <2>5 DEF TryAcquireFails
    <3>2. {c} \in SUBSET idle  BY <3>1
    <3> QED  BY <2>5, <3>1, <3>2, DropsIdle DEF TryAcquireFails, DbInv, TypeOK
  <2>6. CASE ReleaseValid(t) \/ ReleaseInvalid(t) \/ ReleaseShut(t)  BY <2>6, ReleaseStep
  <2> QED  BY <1>1, <2>1, <2>2, <2>3, <2>4, <2>5, <2>6 DEF ClientStep
<1>2. CASE \E S \in SUBSET DbConns : PoolInit(S)  BY <1>2, PoolInitStep
<1>3. CASE \E R \in SUBSET idle, N \in SUBSET DbConns : Cleanup(R, N)
  BY <1>3, CleanupStep
<1>4. CASE HealthExit \/ Shutdown \/ ShutdownNotify
  <2>1. UNCHANGED <<all, idle, held, missed>>
    BY <1>4 DEF HealthExit, Shutdown, ShutdownNotify
  <2>2. /\ wait' \in [Clients -> {"no", "asleep", "told"}]
        /\ health' \in {"none", "running", "exited"}
        /\ shut' \in {"no", "flagged", "notified", "done"}
        /\ shut' = "no" => shut = "no"
    BY <1>4 DEF HealthExit, Shutdown, ShutdownNotify, DbInv, TypeOK
  <2>3. all' = all \ {} /\ idle' = idle \ {} /\ {} \in SUBSET idle  BY <2>1
  <2> QED  BY <2>1, <2>2, <2>3, DropsIdle DEF DbInv, TypeOK
<1>5. CASE ShutdownClear
  <2>1. TypeOK'  BY <1>5, FS_EmptySet DEF ShutdownClear, DbInv, TypeOK
  <2>2. Accounted'  BY <1>5 DEF ShutdownClear, DbInv, Accounted, Held
  <2>3. WithinMax'  BY <1>5, FS_EmptySet DEF ShutdownClear, WithinMax
  <2> QED  BY <2>1, <2>2, <2>3 DEF DbInv
<1>6. CASE UNCHANGED vars
  BY <1>6 DEF vars, DbInv, TypeOK, Accounted, WithinMax, Held
<1> QED  BY <1>1, <1>2, <1>3, <1>4, <1>5, <1>6 DEF Next

(* The accounting of connections holds whatever threads, limits and        *)
(* failures: acquire, release, cleanup_idle_connections, shutdown.         *)
THEOREM DbPoolInvariance == Spec => [](DbInv /\ WaitersEmpty)
<1>1. Init => DbInv /\ WaitersEmpty
  BY DbInit DEF Init, WaitersEmpty
<1>2. DbInv /\ WaitersEmpty /\ [Next]_vars => DbInv' /\ WaitersEmpty'
  BY DbStep, WaitersStep DEF DbInv
<1> QED  BY <1>1, <1>2, PTL DEF Spec

(* The instance's cardinality is the usual one.                            *)
LEMMA SameCardinality == \A S : Lending!Cardinality(S) = Cardinality(S)
  BY Zenon DEF Lending!Cardinality, Cardinality, Lending!IsFiniteSet, IsFiniteSet

(* A thread that gets a connection takes what no one has, below the limit. *)
LEMMA LendsBelow ==
  ASSUME DbInv, shut = "no", NEW t \in Clients, held[t] = NoDb, Round(t)
  PROVE  UNCHANGED held \/ \E c \in DbConns : Lending!Lend(t, c)
<1> USE DEF DbInv
<1>1. CASE \E D \in SUBSET idle, c \in idle : TakeIdle(t, D, c)
  <2>1. PICK D \in SUBSET idle, c \in idle : TakeIdle(t, D, c)  BY <1>1
  <2>2. c \in DbConns /\ c \in all /\ c \notin Held /\ Held \in SUBSET (all \ {c})
    BY DEF TypeOK, Accounted
  <2>3. IsFiniteSet(all \ {c}) /\ Cardinality(all \ {c}) = Cardinality(all) - 1
    BY <2>2, FS_RemoveElement DEF TypeOK
  <2>4. IsFiniteSet(Held) /\ Cardinality(Held) <= Cardinality(all \ {c})
    BY <2>2, <2>3, FS_Subset
  <2>5. Cardinality(Held) < Max
    BY <2>3, <2>4, FS_CardinalityType DEF WithinMax, TypeOK
  <2>6. held' = [held EXCEPT ![t] = c]  BY <2>1 DEF TakeIdle
  <2>7. Lending!Out = Held  BY DEF Lending!Out, Held
  <2>8. Lending!Lend(t, c)  BY <2>2, <2>5, <2>6, <2>7, SameCardinality DEF Lending!Lend
  <2> QED  BY <2>2, <2>8
<1>2. CASE \E c \in DbConns : Create(t, c)
  <2>1. PICK c \in DbConns : Create(t, c)  BY <1>2
  <2>2. c \notin Held /\ all \ idle = Held
    BY <2>1 DEF Create, Fresh, Accounted, TypeOK
  <2>3. Cardinality(Held) < Max /\ held' = [held EXCEPT ![t] = c]
    BY <2>1, <2>2 DEF Create
  <2>4. Lending!Out = Held  BY DEF Lending!Out, Held
  <2>5. Lending!Lend(t, c)  BY <2>1, <2>2, <2>3, <2>4, SameCardinality DEF Lending!Lend
  <2> QED  BY <2>5
<1>3. CASE FallAsleep(t)  BY <1>3 DEF FallAsleep
<1> QED  BY <1>1, <1>2, <1>3 DEF Round

(* The pool implements Leases: connections are lent to one thread at a     *)
(* time, at most max_connections of them, across timeouts, invalid         *)
(* connections, cleanup and shutdown.                                      *)
THEOREM PoolLends == Spec => ImplementsLeases
<1>1. Init => Lending!Init  BY DEF Init, Lending!Init
<1>2. DbInv /\ WaitersEmpty /\ [Next]_vars => [Lending!Next]_held
  <2> SUFFICES ASSUME DbInv, WaitersEmpty, [Next]_vars, held' # held PROVE Lending!Next
    OBVIOUS
  <2>1. ASSUME NEW t \in Clients, ClientStep(t) PROVE Lending!Next
    <3>1. CASE Acquire(t)
      BY <3>1, LendsBelow DEF Acquire, Idler, Lending!Next
    <3>2. CASE Resume(t)
      BY <3>2, LendsBelow DEF Resume, WaitersEmpty, Lending!Next
    <3>3. CASE TryAcquire(t)
      <4>1. Round(t)  BY <3>3 DEF TryAcquire, Round
      <4> QED  BY <3>3, <4>1, LendsBelow DEF TryAcquire, Idler, Lending!Next
    <3>4. CASE ReleaseValid(t) \/ ReleaseInvalid(t) \/ ReleaseShut(t)
      BY <3>4 DEF ReleaseValid, ReleaseInvalid, ReleaseShut, Lending!Next, Lending!Return
    <3> QED
      BY <2>1, <3>1, <3>2, <3>3, <3>4
      DEF ClientStep, ResumeShut, Late, Timeout, GiveUp, TryAcquireFails
  <2> QED
    BY <2>1 DEF Next, vars, PoolInit, Cleanup, HealthExit, Shutdown, ShutdownNotify,
                ShutdownClear
<1> QED  BY <1>1, <1>2, DbPoolInvariance, PTL DEF Spec, ImplementsLeases, Lending!Spec

(* What Leases promises of one step: a borrower more takes what is not     *)
(* out, and one less leaves the others their own.                          *)
LEMMA ExclusiveStep ==
  ASSUME TypeOK, IsFiniteSet(Held), Lending!Exclusive, [Lending!Next]_held
  PROVE  IsFiniteSet(Held') /\ Lending!Exclusive'
<1>1. Lending!Out = Held /\ Lending!Out' = Held'  BY DEF Lending!Out, Held
<1>2. Cardinality(Held) <= Max /\ Cardinality(Held) \in Nat
  BY <1>1, SameCardinality, FS_CardinalityType DEF Lending!Exclusive
<1>3. SUFFICES /\ \A s, t \in Clients : held'[s] = held'[t] /\ held'[s] # NoDb => s = t
               /\ IsFiniteSet(Held') /\ Cardinality(Held') <= Max
  BY <1>1, SameCardinality DEF Lending!Exclusive
<1>4. \A s, t \in Clients : held[s] = held[t] /\ held[s] # NoDb => s = t
  BY DEF Lending!Exclusive
<1>5. ASSUME NEW t \in Clients, Lending!Return(t)
      PROVE  /\ \A s, u \in Clients : held'[s] = held'[u] /\ held'[s] # NoDb => s = u
             /\ IsFiniteSet(Held') /\ Cardinality(Held') <= Max
  <2>1. held' = [held EXCEPT ![t] = NoDb]  BY <1>5 DEF Lending!Return
  <2>2. Held' \in SUBSET Held  BY <2>1 DEF Held, TypeOK
  <2>3. IsFiniteSet(Held') /\ Cardinality(Held') <= Cardinality(Held)  BY <2>2, FS_Subset
  <2>4. Cardinality(Held') \in Nat  BY <2>3, FS_CardinalityType
  <2> QED  BY <1>2, <1>4, <2>1, <2>3, <2>4, DbPoolAssumption DEF TypeOK
<1>6. ASSUME NEW t \in Clients, NEW c \in DbConns, Lending!Lend(t, c)
      PROVE  /\ \A s, u \in Clients : held'[s] = held'[u] /\ held'[s] # NoDb => s = u
             /\ IsFiniteSet(Held') /\ Cardinality(Held') <= Max
  <2>1. /\ held[t] = NoDb /\ c \notin Held /\ held' = [held EXCEPT ![t] = c]
        /\ Cardinality(Held) < Max
    BY <1>1, <1>6, SameCardinality DEF Lending!Lend
  <2>2. Held' = Held \cup {c}  BY <2>1, HeldGrows
  <2>3. IsFiniteSet(Held') /\ Cardinality(Held') = Cardinality(Held) + 1
    BY <2>1, <2>2, FS_AddElement
  <2>4. \A s \in Clients : held'[s] = IF s = t THEN c ELSE held[s]  BY <2>1 DEF TypeOK
  <2>5. \A s \in Clients : held[s] # c
    BY <2>1, DbPoolAssumption DEF Held
  <2> QED  BY <1>2, <1>4, <2>1, <2>3, <2>4, <2>5, DbPoolAssumption
<1>7. CASE UNCHANGED held  BY <1>2, <1>4, <1>7 DEF Held
<1> QED  BY <1>5, <1>6, <1>7 DEF Lending!Next

(* Type correctness.                                                       *)
THEOREM DbPoolTypes == Spec => []TypeOK
  BY DbPoolInvariance, PTL DEF DbInv

(* Every connection counted is idle or held by one thread.                 *)
THEOREM NothingLeaks == Spec => []Accounted
  BY DbPoolInvariance, PTL DEF DbInv

(* max_connections is kept.                                                *)
THEOREM LimitKept == Spec => []WithinMax
  BY DbPoolInvariance, PTL DEF DbInv

(* No connection is in the hands of two threads and at most               *)
(* max_connections are in anybody's, shutdown() or not: it empties the     *)
(* pool, which then counts none of those still out.                        *)
THEOREM LentOnce == Spec => []Lending!Exclusive
<1>1. Init => IsFiniteSet(Held) /\ Lending!Exclusive
  <2> SUFFICES ASSUME Init PROVE IsFiniteSet(Held) /\ Lending!Exclusive
    OBVIOUS
  <2>1. Held = {} /\ Lending!Out = {}  BY DEF Init, Held, Lending!Out
  <2>2. IsFiniteSet(Held) /\ Cardinality(Lending!Out) <= Max
    BY <2>1, FS_EmptySet, DbPoolAssumption
  <2> QED  BY <2>2, SameCardinality DEF Init, Lending!Exclusive
<1>2. TypeOK /\ IsFiniteSet(Held) /\ Lending!Exclusive /\ [Lending!Next]_held
      => (IsFiniteSet(Held) /\ Lending!Exclusive)'
  BY ExclusiveStep
<1> QED
  BY <1>1, <1>2, DbPoolTypes, PoolLends, PTL DEF Spec, ImplementsLeases, Lending!Spec

-----------------------------------------------------------------------------
(* One step of acquire() on behalf of a thread that is awake.              *)
LEMMA ToldRound ==
  ASSUME TypeOK, EnoughTold, shut = "no", NEW t \in Clients, wait[t] # "asleep", Round(t)
  PROVE  EnoughTold'
<1>1. IsFiniteSet(Told) /\ IsFiniteSet(idle)
  BY FS_Subset DEF Told, TypeOK, DbPoolAssumption
<1>2. CASE \E D \in SUBSET idle, c \in idle : TakeIdle(t, D, c)
  <2>1. PICK D \in SUBSET idle, c \in idle : TakeIdle(t, D, c)  BY <1>2
  <2>2. Asleep' = Asleep /\ Told' = Told \ {t}
    BY <2>1 DEF TakeIdle, Asleep, Told, TypeOK
  <2>3. idle' \in SUBSET (idle \ {c}) /\ idle \ {c} \in SUBSET idle  BY <2>1 DEF TakeIdle
  <2>4. /\ IsFiniteSet(idle \ {c}) /\ Cardinality(idle \ {c}) = Cardinality(idle) - 1
    BY <1>1, FS_RemoveElement
  <2>5. IsFiniteSet(idle') /\ Cardinality(idle') <= Cardinality(idle \ {c})
    BY <2>3, <2>4, FS_Subset
  <2>6. IsFiniteSet(Told') /\ Cardinality(Told') >= Cardinality(Told) - 1
    <3>1. /\ IsFiniteSet(Told \ {t})
          /\ Cardinality(Told \ {t}) =
               IF t \in Told THEN Cardinality(Told) - 1 ELSE Cardinality(Told)
      BY <1>1, FS_RemoveElement
    <3>2. Cardinality(Told) \in Nat  BY <1>1, FS_CardinalityType
    <3> QED  BY <2>2, <3>1, <3>2
  <2> QED
    BY <1>1, <2>2, <2>4, <2>5, <2>6, FS_CardinalityType DEF EnoughTold, Round
<1>3. CASE \E c \in DbConns : Create(t, c)
  <2>1. idle' = {}  BY <1>3 DEF Create
  <2>2. IsFiniteSet(Told')  BY FS_Subset DEF Told, DbPoolAssumption
  <2> QED  BY <2>1, <2>2, FS_EmptySet, FS_CardinalityType DEF EnoughTold, Round
<1>4. CASE FallAsleep(t)
  <2>1. idle' = {}  BY <1>4 DEF FallAsleep
  <2>2. IsFiniteSet(Told')  BY FS_Subset DEF Told, DbPoolAssumption
  <2> QED  BY <2>1, <2>2, FS_EmptySet, FS_CardinalityType DEF EnoughTold, Round
<1> QED  BY <1>2, <1>3, <1>4 DEF Round

(* Every step keeps it.                                                    *)
LEMMA ToldStep == TypeOK /\ EnoughTold /\ [Next]_vars => EnoughTold'
<1> SUFFICES ASSUME TypeOK, EnoughTold, [Next]_vars PROVE EnoughTold'
  OBVIOUS
<1>1. IsFiniteSet(Told) /\ IsFiniteSet(idle)
  BY FS_Subset DEF Told, TypeOK, DbPoolAssumption
<1>2. Cardinality(Told) \in Nat /\ Cardinality(idle) \in Nat  BY <1>1, FS_CardinalityType
<1>3. ASSUME idle' \in SUBSET idle, Asleep' \in SUBSET Asleep, Told' = Told,
             shut' = shut, ~missed' => ~missed
      PROVE  EnoughTold'
  <2>1. IsFiniteSet(idle') /\ Cardinality(idle') <= Cardinality(idle)
    BY <1>1, <1>3, FS_Subset
  <2> QED  BY <1>2, <1>3, <2>1, FS_CardinalityType DEF EnoughTold
<1>4. ASSUME NEW t \in Clients, ClientStep(t) PROVE EnoughTold'
  <2>1. CASE Acquire(t)  BY <2>1, ToldRound DEF Acquire, Idler
  <2>2. CASE Resume(t)  BY <2>2, ToldRound DEF Resume
  <2>3. CASE ResumeShut(t) \/ Late(t)
    <3>1. Asleep' = Asleep /\ shut' = shut /\ (shut' # "no" \/ missed')
      BY <2>3 DEF ResumeShut, Late, GiveUp, Asleep, TypeOK
    <3> QED  BY <3>1 DEF EnoughTold
  <2>4. CASE Timeout(t)
    <3>1. Asleep' \in SUBSET Asleep /\ Told' = Told
      BY <2>4 DEF Timeout, GiveUp, Asleep, Told, TypeOK
    <3> QED  BY <1>3, <2>4, <3>1 DEF Timeout, GiveUp
  <2>5. CASE TryAcquire(t)
    <3>1. Round(t)  BY <2>5 DEF TryAcquire, Round
    <3> QED  BY <2>5, <3>1, ToldRound DEF TryAcquire, Idler
  <2>6. CASE TryAcquireFails(t)
    BY <1>3, <2>6 DEF TryAcquireFails, Asleep, Told
  <2>7. CASE ReleaseInvalid(t) \/ ReleaseShut(t)
    BY <1>3, <2>7 DEF ReleaseInvalid, ReleaseShut, Asleep, Told
  <2>8. CASE ReleaseValid(t)
    <3>1. CASE Asleep = {}
      BY <2>8, <3>1 DEF ReleaseValid, NotifyOne, Asleep, EnoughTold
    <3>2. CASE Asleep # {}
      <4>1. PICK w \in Asleep : wait' = [wait EXCEPT ![w] = "told"]
        BY <2>8, <3>2 DEF ReleaseValid, NotifyOne
      <4>2. Told' = Told \cup {w} /\ w \notin Told
        BY <4>1 DEF Told, Asleep, TypeOK
      <4>3. Cardinality(Told') = Cardinality(Told) + 1  BY <1>1, <4>2, FS_AddElement
      <4>4. idle' = idle \cup {held[t]}  BY <2>8 DEF ReleaseValid
      <4>5. Cardinality(idle') \in Nat /\ Cardinality(idle') <= Cardinality(idle) + 1
        <5>1. Cardinality(idle \cup {held[t]}) =
                IF held[t] \in idle THEN Cardinality(idle) ELSE Cardinality(idle) + 1
          BY <1>1, FS_AddElement
        <5> QED  BY <1>2, <4>4, <5>1
      <4> QED
        BY <1>2, <2>8, <3>2, <4>3, <4>5 DEF ReleaseValid, EnoughTold
    <3> QED  BY <3>1, <3>2
  <2> QED
    BY <1>4, <2>1, <2>2, <2>3, <2>4, <2>5, <2>6, <2>7, <2>8 DEF ClientStep
<1>5. CASE \E S \in SUBSET DbConns : PoolInit(S)
  BY <1>5 DEF PoolInit, Idler, Asleep, EnoughTold
<1>6. CASE \E R \in SUBSET idle, N \in SUBSET DbConns : Cleanup(R, N)
  <2>1. PICK R \in SUBSET idle, N \in SUBSET DbConns : Cleanup(R, N)  BY <1>6
  <2>2. CASE N = {}  BY <1>3, <2>1, <2>2 DEF Cleanup, Asleep, Told
  <2>3. CASE N # {}  BY <2>1, <2>3 DEF Cleanup, EnoughTold
  <2> QED  BY <2>2, <2>3
<1>7. CASE HealthExit
  BY <1>3, <1>7 DEF HealthExit, Asleep, Told
<1>8. CASE Shutdown \/ ShutdownNotify \/ ShutdownClear
  BY <1>8 DEF Shutdown, ShutdownNotify, ShutdownClear, EnoughTold, Asleep
<1>9. CASE UNCHANGED vars  BY <1>3, <1>9 DEF vars, Asleep, Told
<1> QED  BY <1>4, <1>5, <1>6, <1>7, <1>8, <1>9 DEF Next

(* No thread sleeps in acquire() beside more idle connections than         *)
(* notified threads, unless a notification was lost or not sent; and none  *)
(* sleeps once shutdown() has notified.                                    *)
THEOREM SleepersTold == Spec => []EnoughTold
<1>1. Init => EnoughTold  BY DEF Init, EnoughTold, Asleep
<1>2. TypeOK /\ EnoughTold /\ [Next]_vars => EnoughTold'  BY ToldStep
<1> QED  BY <1>1, <1>2, DbPoolTypes, PTL DEF Spec
=============================================================================
