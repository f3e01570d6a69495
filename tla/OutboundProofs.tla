------------------------- MODULE OutboundProofs --------------------------
(***************************************************************************)
(* What leaves the server, for every number of calls, models, limits and   *)
(* retries: the limiter, the gate and the registry behind the router; and  *)
(* the searches of the research tools.                                     *)
(***************************************************************************)
EXTENDS LlmRouter, Research, SequenceTheorems, FiniteSetTheorems, WellFoundedInduction,
        TLAPS

----------------------------------------------------------------------------
(* The gate *)

\* Every release of a tier is at or before its last one, which is not ahead
\* of the clock: what makes the next release an interval later than them all.
PacedInv ==
  /\ now \in Nat
  /\ lastCall \in [Tiers -> Nat \cup {Never}]
  /\ releasedAt \in [Calls -> Nat \cup {Never}]
  /\ \A t \in Tiers : lastCall[t] <= now
  /\ \A c \in Calls : releasedAt[c] <= lastCall[TierOf[c]]
  /\ Spaced

\* What a step does to the gate.
Paces == \/ UNCHANGED <<now, lastCall, releasedAt>>
         \/ now' = now + 1 /\ UNCHANGED <<lastCall, releasedAt>>
         \/ \E c \in Calls : Due(TierOf[c]) /\ Release(c) /\ now' = now

LEMMA StepPaces == [Next]_vars => Paces
  <1> SUFFICES ASSUME [Next]_vars PROVE Paces
    OBVIOUS
  <1>1. ASSUME NEW c \in Calls, Begin(c) PROVE Paces
    BY <1>1 DEF Begin, Straight, Open, Paces
  <1>2. ASSUME NEW c \in Calls, Proceed(c) PROVE Paces
    BY <1>2 DEF Proceed, TurnComes, Paces
  <1>3. ASSUME NEW c \in Calls, Refused(c) \/ Search(c) \/ Wait(c) \/ Cancel(c)
        PROVE  UNCHANGED <<now, lastCall, releasedAt>>
    BY <1>3 DEF Refused, Search, Wait, Cancel, Queue, LeaveLine
  <1>4. ASSUME NEW c \in Calls,
               \/ SearchEnds(c) \/ Answer(c) \/ ProviderFails(c)
               \/ Trace(c) \/ Ends(c) \/ Chunk(c)
        PROVE  UNCHANGED <<now, lastCall, releasedAt>>
    BY <1>4 DEF SearchEnds, Answer, ProviderFails, Trace, Ends, StreamEnds,
                StreamBreaks, Chunk, gateVars
  <1>5. CASE Tick
    BY <1>5 DEF Tick, Paces, gateVars
  <1>6. ASSUME NEW m \in Models, CatalogChanges(m), UNCHANGED <<now, gateVars, callVars>>
        PROVE  UNCHANGED <<now, lastCall, releasedAt>>
    BY <1>6 DEF gateVars
  <1>7. CASE UNCHANGED vars
    BY <1>7 DEF vars, gateVars, Paces
  <1> QED
    BY <1>1, <1>2, <1>3, <1>4, <1>5, <1>6, <1>7 DEF Next, Run, AllEnded, Paces

LEMMA PacedInit == Init => PacedInv
  BY TierAssumption, WindowAssumption, IntervalAssumption
  DEF Init, GateInit, PacedInv, Spaced, Never

LEMMA PacedStep == PacedInv /\ [Next]_vars => PacedInv'
  <1> SUFFICES ASSUME PacedInv, Paces PROVE PacedInv'
    BY StepPaces
  <1> USE TierAssumption, WindowAssumption, IntervalAssumption
  <1>0. /\ Never \in Int /\ Never < 0
        /\ \A t \in Tiers : lastCall[t] \in Int
        /\ \A c \in Calls : releasedAt[c] \in Int /\ TierOf[c] \in Tiers
    BY DEF PacedInv, Never
  <1>1. CASE UNCHANGED <<now, lastCall, releasedAt>>
    BY <1>1 DEF PacedInv, Spaced
  <1>2. CASE now' = now + 1 /\ UNCHANGED <<lastCall, releasedAt>>
    BY <1>0, <1>2 DEF PacedInv, Spaced
  <1>3. ASSUME NEW c \in Calls, Due(TierOf[c]), Release(c), now' = now
        PROVE  PacedInv'
    <2> DEFINE t == TierOf[c]
    <2>1. /\ lastCall' = [lastCall EXCEPT ![t] = now]
          /\ releasedAt' = [releasedAt EXCEPT ![c] = now]
          /\ lastCall[t] + Interval <= now
          /\ t \in Tiers
      BY <1>0, <1>3 DEF Release, Due, PacedInv
    <2>2. /\ now' \in Nat
          /\ lastCall' \in [Tiers -> Nat \cup {Never}]
          /\ releasedAt' \in [Calls -> Nat \cup {Never}]
      BY <1>3, <2>1 DEF PacedInv
    <2>3. \A u \in Tiers : lastCall'[u] <= now'
      BY <1>0, <1>3, <2>1 DEF PacedInv
    <2>4. \A d \in Calls : releasedAt'[d] <= lastCall'[TierOf[d]]
      <3> SUFFICES ASSUME NEW d \in Calls
                   PROVE  releasedAt'[d] <= lastCall'[TierOf[d]]
        OBVIOUS
      <3>1. CASE TierOf[d] = t
        BY <1>0, <2>1, <3>1 DEF PacedInv
      <3>2. CASE TierOf[d] # t
        BY <1>0, <2>1, <3>2 DEF PacedInv
      <3> QED BY <3>1, <3>2
    <2>5. Spaced'
      <3> SUFFICES ASSUME NEW d \in Calls, NEW e \in Calls, d # e,
                          TierOf[d] = TierOf[e],
                          releasedAt'[d] # Never, releasedAt'[e] # Never,
                          releasedAt'[d] <= releasedAt'[e]
                   PROVE  releasedAt'[d] + Interval <= releasedAt'[e]
        BY DEF Spaced, Never
      <3>1. CASE d # c /\ e # c
        BY <2>1, <3>1 DEF PacedInv, Spaced
      <3>2. CASE e = c
        BY <1>0, <2>1, <3>2 DEF PacedInv
      <3>3. CASE d = c
        BY <1>0, <2>1, <3>3 DEF PacedInv
      <3> QED BY <3>1, <3>2, <3>3
    <2> QED BY <2>2, <2>3, <2>4, <2>5 DEF PacedInv, Never
  <1> QED
    BY <1>1, <1>2, <1>3 DEF Paces

\* llm_debounce.py:45-50: whatever the tasks, the cancellations and the
\* errors, the gate lets two calls of one tier through an interval apart.
THEOREM GateSpaces == Spec => []Spaced
  <1>1. PacedInv => Spaced
    BY DEF PacedInv
  <1> QED
    BY <1>1, PacedInit, PacedStep, PTL DEF Spec

----------------------------------------------------------------------------
(* The limiter *)

\* The calls admitted in the window that ends at t.
AdmittedUpTo(t) == {c \in Calls : t - Window < admittedAt[c] /\ admittedAt[c] <= t}

WindowsHeld ==
  \A t \in 0..now :
    IsFiniteSet(AdmittedUpTo(t)) /\ Cardinality(AdmittedUpTo(t)) <= Limit

\* Every call of the current window has its stamp, and there are at most
\* Limit stamps: what the count of stamps says of the windows to come.
QuotaInv ==
  /\ now \in Nat
  /\ quota \in SUBSET Calls
  /\ admittedAt \in [Calls -> Nat \cup {Never}]
  /\ IsFiniteSet(quota)
  /\ Cardinality(quota) <= Limit
  /\ \A c \in Calls : admittedAt[c] <= now
  /\ \A c \in Calls : admittedAt[c] > now - Window => c \in quota
  /\ WindowsHeld

\* What a step does to the limiter.
Limits == \/ UNCHANGED <<now, quota, admittedAt>>
          \/ now' = now + 1 /\ UNCHANGED <<quota, admittedAt>>
          \/ Refuse /\ now' = now
          \/ \E c \in Calls : Admit(c) /\ now' = now

LEMMA StepLimits == [Next]_vars => Limits
  <1> SUFFICES ASSUME [Next]_vars PROVE Limits
    OBVIOUS
  <1>1. ASSUME NEW c \in Calls, Refused(c) \/ Search(c) \/ Begin(c) \/ Wait(c)
        PROVE  Limits
    BY <1>1 DEF Refused, Search, Begin, Wait, Limits
  <1>2. ASSUME NEW c \in Calls, Proceed(c) \/ Cancel(c)
        PROVE  UNCHANGED <<now, quota, admittedAt>>
    BY <1>2 DEF Proceed, Cancel, LeaveLine
  <1>3. ASSUME NEW c \in Calls,
               \/ SearchEnds(c) \/ Answer(c) \/ ProviderFails(c)
               \/ Trace(c) \/ Ends(c) \/ Chunk(c)
        PROVE  UNCHANGED <<now, quota, admittedAt>>
    BY <1>3 DEF SearchEnds, Answer, ProviderFails, Trace, Ends, StreamEnds,
                StreamBreaks, Chunk, gateVars
  <1>4. CASE Tick
    BY <1>4 DEF Tick, Limits, gateVars
  <1>5. ASSUME NEW m \in Models, CatalogChanges(m), UNCHANGED <<now, gateVars, callVars>>
        PROVE  UNCHANGED <<now, quota, admittedAt>>
    BY <1>5 DEF gateVars
  <1>6. CASE UNCHANGED vars
    BY <1>6 DEF vars, gateVars, Limits
  <1> QED
    BY <1>1, <1>2, <1>3, <1>4, <1>5, <1>6 DEF Next, Run, AllEnded, Limits

LEMMA QuotaInit == Init => QuotaInv
  <1> SUFFICES ASSUME Init PROVE QuotaInv
    OBVIOUS
  <1> USE WindowAssumption, IntervalAssumption, LimitAssumption
  <1>1. now = 0 /\ quota = {} /\ admittedAt = [c \in Calls |-> Never]
    BY DEF Init, GateInit
  <1>2. IsFiniteSet({}) /\ Cardinality({}) = 0
    BY FS_EmptySet
  <1>3. \A t \in 0..now : AdmittedUpTo(t) = {}
    BY <1>1 DEF AdmittedUpTo, Never
  <1>4. WindowsHeld
    BY <1>2, <1>3 DEF WindowsHeld
  <1>5. \A c \in Calls : admittedAt[c] <= now /\ ~(admittedAt[c] > now - Window)
    BY <1>1 DEF Never
  <1> QED
    BY <1>1, <1>2, <1>4, <1>5 DEF QuotaInv

\* A window whose calls all have a stamp is not too full.
LEMMA StampedWindow ==
  ASSUME NEW Q, NEW W \in SUBSET Q, IsFiniteSet(Q), Cardinality(Q) <= Limit
  PROVE  IsFiniteSet(W) /\ Cardinality(W) <= Limit
  <1>1. IsFiniteSet(W) /\ Cardinality(W) <= Cardinality(Q)
    BY FS_Subset
  <1>2. Cardinality(W) \in Nat /\ Cardinality(Q) \in Nat
    BY <1>1, FS_CardinalityType
  <1> QED BY <1>1, <1>2, LimitAssumption

LEMMA QuotaStep == QuotaInv /\ [Next]_vars => QuotaInv'
  <1> SUFFICES ASSUME QuotaInv, Limits PROVE QuotaInv'
    BY StepLimits
  <1> USE WindowAssumption, IntervalAssumption, LimitAssumption
  <1>0. /\ Never \in Int /\ \A t \in Nat : Never <= t - Window
        /\ \A c \in Calls : admittedAt[c] \in Int
    BY DEF QuotaInv, Never
  <1>1. CASE UNCHANGED <<now, quota, admittedAt>>
    BY <1>1 DEF QuotaInv, WindowsHeld, AdmittedUpTo
  <1>2. CASE now' = now + 1 /\ UNCHANGED <<quota, admittedAt>>
    <2>1. \A c \in Calls : admittedAt[c] <= now + 1 /\ (admittedAt[c] > now + 1 - Window => c \in quota)
      BY <1>0 DEF QuotaInv
    <2>2. /\ IsFiniteSet(AdmittedUpTo(now + 1))
          /\ Cardinality(AdmittedUpTo(now + 1)) <= Limit
      <3>1. AdmittedUpTo(now + 1) \in SUBSET quota
        BY <1>0, <2>1 DEF AdmittedUpTo, QuotaInv
      <3> QED BY <3>1, StampedWindow DEF QuotaInv
    <2>3. \A t \in 0..(now + 1) : t \in 0..now \/ t = now + 1
      BY DEF QuotaInv
    <2>4. \A t \in 0..(now + 1) :
            IsFiniteSet(AdmittedUpTo(t)) /\ Cardinality(AdmittedUpTo(t)) <= Limit
      BY <2>2, <2>3 DEF QuotaInv, WindowsHeld
    <2>5. WindowsHeld'
      BY <1>2, <2>4 DEF WindowsHeld, AdmittedUpTo
    <2> QED BY <1>2, <2>1, <2>5 DEF QuotaInv, Never
  <1>3. Recent \in SUBSET quota /\ IsFiniteSet(Recent) /\ Cardinality(Recent) <= Limit
        /\ Cardinality(Recent) \in Nat
    <2>1. Recent \in SUBSET quota
      BY DEF Recent
    <2> QED BY <2>1, StampedWindow, FS_Subset, FS_CardinalityType DEF QuotaInv
  <1>4. \A c \in Calls : admittedAt[c] > now - Window => c \in Recent
    BY DEF QuotaInv, Recent
  <1>5. CASE Refuse /\ now' = now
    <2>1. quota' = Recent /\ admittedAt' = admittedAt /\ now' = now
      BY <1>5 DEF Refuse
    <2>2. WindowsHeld'
      BY <2>1 DEF QuotaInv, WindowsHeld, AdmittedUpTo
    <2>3. QuotaInv => quota \in SUBSET Calls
      BY DEF QuotaInv
    <2> QED BY <1>3, <1>4, <2>1, <2>2, <2>3 DEF QuotaInv, Never
  <1>6. ASSUME NEW c \in Calls, Admit(c), now' = now
        PROVE  QuotaInv'
    <2>1. /\ Cardinality(Recent) < Limit
          /\ quota' = Recent \cup {c}
          /\ admittedAt' = [admittedAt EXCEPT ![c] = now]
      BY <1>6 DEF Admit
    <2>2. IsFiniteSet(quota') /\ Cardinality(quota') <= Limit
      <3>1. /\ IsFiniteSet(Recent \cup {c})
            /\ \/ Cardinality(Recent \cup {c}) = Cardinality(Recent)
               \/ Cardinality(Recent \cup {c}) = Cardinality(Recent) + 1
        BY <1>3, FS_AddElement
      <3> QED BY <1>3, <2>1, <3>1
    <2>3. /\ quota' \in SUBSET Calls
          /\ admittedAt' \in [Calls -> Nat \cup {Never}]
          /\ \A d \in Calls : admittedAt'[d] <= now
          /\ \A d \in Calls : admittedAt'[d] > now - Window => d \in quota'
      <3>1. quota' \in SUBSET Calls /\ now \in Nat
        BY <1>3, <2>1 DEF QuotaInv
      <3>2. admittedAt' \in [Calls -> Nat \cup {Never}]
        BY <2>1 DEF QuotaInv
      <3>3. \A d \in Calls : d = c \/ admittedAt'[d] = admittedAt[d]
        BY <2>1 DEF QuotaInv
      <3>4. admittedAt'[c] = now /\ c \in quota'
        BY <2>1 DEF QuotaInv
      <3>5. \A d \in Calls : admittedAt'[d] <= now
        BY <3>1, <3>3, <3>4 DEF QuotaInv
      <3>6. \A d \in Calls : admittedAt'[d] > now - Window => d \in quota'
        BY <1>4, <2>1, <3>3, <3>4
      <3> QED BY <3>1, <3>2, <3>5, <3>6
    <2>4. ASSUME NEW t \in 0..now
          PROVE  /\ IsFiniteSet(AdmittedUpTo(t)')
                 /\ Cardinality(AdmittedUpTo(t)') <= Limit
      <3>1. CASE t = now
        <4>1. AdmittedUpTo(t)' \in SUBSET quota'
          BY <2>3, <3>1 DEF AdmittedUpTo
        <4> QED BY <2>2, <4>1, StampedWindow
      <3>2. CASE t # now
        <4>1. t < now /\ t \in Int
          BY <3>2 DEF QuotaInv
        <4>2. AdmittedUpTo(t)' \in SUBSET AdmittedUpTo(t)
          BY <2>1, <4>1 DEF AdmittedUpTo, QuotaInv
        <4>3. IsFiniteSet(AdmittedUpTo(t)) /\ Cardinality(AdmittedUpTo(t)) <= Limit
          BY DEF QuotaInv, WindowsHeld
        <4> QED BY <4>2, <4>3, StampedWindow
      <3> QED BY <3>1, <3>2
    <2>5. WindowsHeld'
      BY <1>6, <2>4 DEF WindowsHeld
    <2> QED BY <1>6, <2>2, <2>3, <2>5 DEF QuotaInv, Never
  <1> QED
    BY <1>1, <1>2, <1>5, <1>6 DEF Limits

\* external_rate_limiter.py:46-54: no window, wherever it begins, sees more
\* than Limit admissions, completions and searches together.
THEOREM LimiterHolds == Spec => []QuotaHeld
  <1>1. QuotaInv => QuotaHeld
    BY DEF QuotaInv, WindowsHeld, QuotaHeld, AdmittedUpTo
  <1> QED
    BY <1>1, QuotaInit, QuotaStep, PTL DEF Spec

----------------------------------------------------------------------------
(* The registry *)

Stops == {"new"} \cup AtWork \cup Ended

RouterShape ==
  /\ now \in Nat
  /\ pc \in [Calls -> Stops]
  /\ todo \in [Calls -> SUBSET Models]
  /\ registry \in [Models -> [tiers : SUBSET Tiers, until : Nat]]
  /\ resting \in [Models -> Nat]

\* A model the backend keeps listing is listed and recorded with its tiers,
\* and its record knows until when it rests: what no refresh forgets.
KeptInv ==
  /\ Kept \subseteq catalog /\ Kept \subseteq listed
  /\ \A m \in Kept : registry[m].tiers = Offered[m] /\ registry[m].until = resting[m]

RegistryInv == RouterShape /\ KeptInv

\* A list that was fetched, and the registry refreshed from it.
Refetched ==
  \E list \in {listed, catalog} : Fetched(list) /\ registry' = Refreshed(list)

\* What a step does to the registry.
Registers ==
  \/ UNCHANGED registryVars
  \/ UNCHANGED <<catalog, resting>> /\ Refetched
  \/ \E m \in Models : CatalogChanges(m)
  \/ \E m : Deactivate(m)

LEMMA RouteIs ==
  ASSUME NEW c \in Calls, Route(c)
  PROVE  LET t == TierOf[c] IN
         \/ /\ UNCHANGED <<listed, cachedAt, registry>>
            /\ Try(c, Pool(registry, t))
         \/ \E list \in {listed, catalog} :
              /\ Fetched(list) /\ registry' = Refreshed(list)
              /\ \/ Try(c, Pool(Refreshed(list), t))
                 \/ Preferred # NoModel /\ Try(c, {Preferred})
                 \/ Pool(Refreshed(list), t) = {} /\ Leaves(c, "noModels")
         \/ UNCHANGED <<listed, cachedAt, registry>> /\ Leaves(c, "failed")
BY DEF Route, TryPreferred

LEMMA StepRegisters == [Next]_vars => Registers /\ (now' = now \/ now' = now + 1)
<1> SUFFICES ASSUME [Next]_vars PROVE Registers /\ (now' = now \/ now' = now + 1)
  OBVIOUS
<1>1. ASSUME NEW c \in Calls, Begin(c) \/ Proceed(c)
      PROVE  Registers /\ now' = now
  <2>1. Route(c) /\ UNCHANGED <<now, catalog, resting>>
    BY <1>1 DEF Begin, Proceed
  <2>2. UNCHANGED <<listed, cachedAt, registry>> \/ Refetched
    BY <2>1, RouteIs DEF Refetched
  <2> QED
    BY <2>1, <2>2 DEF Registers, registryVars
<1>2. ASSUME NEW c \in Calls, ProviderFails(c)
      PROVE  Registers /\ now' = now
  BY <1>2 DEF ProviderFails, Registers
<1>3. ASSUME NEW c \in Calls,
             \/ Refused(c) \/ Search(c) \/ Wait(c) \/ Cancel(c) \/ SearchEnds(c)
             \/ Answer(c) \/ Trace(c) \/ Ends(c) \/ Chunk(c)
      PROVE  UNCHANGED <<now, registryVars>>
  BY <1>3 DEF Refused, Search, Wait, Cancel, SearchEnds, Answer, Trace, Ends,
              StreamEnds, StreamBreaks, Chunk
<1>4. CASE Tick
  BY <1>4 DEF Tick, Registers
<1>5. ASSUME NEW m \in Models, CatalogChanges(m), UNCHANGED <<now, gateVars, callVars>>
      PROVE  Registers /\ now' = now
  BY <1>5 DEF Registers
<1>6. CASE UNCHANGED vars
  BY <1>6 DEF vars, Registers
<1> QED
  BY <1>1, <1>2, <1>3, <1>4, <1>5, <1>6 DEF Next, Run, AllEnded, Registers

----------------------------------------------------------------------------
(* The steps of the calls *)

LEMMA StopsAre ==
  \A place \in {"new", "waiting", "calling", "streaming", "answered", "searching",
                "done", "failed", "refused", "noModels", "cancelled"} : place \in Stops
BY DEF Stops, AtWork, Ended

LEMMA GoesIs ==
  ASSUME RouterShape, NEW c \in Calls, NEW place \in Stops, Goes(c, place)
  PROVE  /\ pc' \in [Calls -> Stops] /\ pc'[c] = place
         /\ \A d \in Calls \ {c} : pc'[d] = pc[d]
BY DEF RouterShape, Goes

LEMMA TryIs ==
  ASSUME NEW c \in Calls, NEW pool \in SUBSET Models, Try(c, pool), RouterShape
  PROVE  /\ Goes(c, "calling")
         /\ todo' \in [Calls -> SUBSET Models]
         /\ todo'[c] \subseteq pool
<1> DEFINE tried == {m \in pool : Cardinality({k \in pool : Before(k, m)}) <= MaxFallbacks}
<1>1. todo' = [todo EXCEPT ![c] = tried] /\ tried \subseteq pool
  BY DEF Try
<1> HIDE DEF tried
<1> QED
  BY <1>1 DEF Try, RouterShape

LEMMA LeavesIs ==
  ASSUME NEW c \in Calls, NEW place, Leaves(c, place), RouterShape
  PROVE  /\ Goes(c, place)
         /\ todo' \in [Calls -> SUBSET Models]
BY DEF Leaves, RouterShape

LEMMA PoolIs ==
  ASSUME NEW recs, NEW t
  PROVE  /\ Pool(recs, t) \in SUBSET Models
         /\ \A m \in Pool(recs, t) : recs[m].until <= now
         /\ Pool(recs, t) = {} =>
              \A m \in Models : recs[m].tiers \cap {t, Medium} # {} => ~(recs[m].until <= now)
BY DEF Pool, ActiveIn

\* A step leaves the lists of models as they are, or is one of a call.
Moves(c) ==
  \/ Route(c) /\ pc[c] \in {"new", "waiting"}
  \/ \E place \in {"searching", "done", "failed", "waiting", "answered", "streaming",
                   "cancelled", "refused"} :
       /\ Goes(c, place)
       /\ todo' = todo \/ todo' = [todo EXCEPT ![c] = {}]
  \/ /\ pc[c] = "calling"
     /\ \E place \in {"failed", "calling"} : Goes(c, place)
     /\ todo' = [todo EXCEPT ![c] = @ \ {Current(c)}]

LEMMA StepMoves ==
  [Next]_vars => UNCHANGED <<pc, todo>> \/ \E c \in Calls : Moves(c)
<1> SUFFICES ASSUME [Next]_vars PROVE UNCHANGED <<pc, todo>> \/ \E c \in Calls : Moves(c)
  OBVIOUS
<1>1. ASSUME NEW c \in Calls, Begin(c) \/ Proceed(c) PROVE Moves(c)
  BY <1>1 DEF Begin, Proceed, Moves
<1>2. ASSUME NEW c \in Calls, ProviderFails(c) PROVE Moves(c)
  BY <1>2 DEF ProviderFails, NextModel, Moves
<1>3. ASSUME NEW c \in Calls, Refused(c) \/ Search(c) \/ Wait(c) \/ SearchEnds(c)
      PROVE  Moves(c)
  BY <1>3 DEF Refused, Search, Wait, SearchEnds, Moves
<1>4. ASSUME NEW c \in Calls, Answer(c) \/ Chunk(c) \/ StreamEnds(c)
      PROVE  Moves(c)
  BY <1>4 DEF Answer, Chunk, StreamEnds, Moves
<1>5. ASSUME NEW c \in Calls, Cancel(c) \/ Trace(c) \/ StreamBreaks(c)
      PROVE  Moves(c)
  BY <1>5 DEF Cancel, Trace, StreamBreaks, Leaves, Moves
<1>6. CASE Tick
  BY <1>6 DEF Tick, callVars
<1>7. ASSUME NEW m \in Models, CatalogChanges(m), UNCHANGED <<now, gateVars, callVars>>
      PROVE  UNCHANGED <<pc, todo>>
  BY <1>7 DEF callVars
<1>8. CASE UNCHANGED vars
  BY <1>8 DEF vars, callVars
<1> QED
  BY <1>1, <1>2, <1>3, <1>4, <1>5, <1>6, <1>7, <1>8 DEF Next, Run, Ends, AllEnded

LEMMA MovesShape ==
  ASSUME RouterShape, NEW c \in Calls, Moves(c)
  PROVE  pc' \in [Calls -> Stops] /\ todo' \in [Calls -> SUBSET Models]
<1>0. \A place \in Stops : Goes(c, place) => pc' \in [Calls -> Stops]
  BY GoesIs
<1>1a. todo \in [Calls -> SUBSET Models]
  BY DEF RouterShape
<1>1. CASE Route(c)
  <2> DEFINE t == TierOf[c]
  <2>1. ASSUME NEW pool \in SUBSET Models, Try(c, pool)
        PROVE  pc' \in [Calls -> Stops] /\ todo' \in [Calls -> SUBSET Models]
    BY <1>0, <2>1, TryIs, StopsAre
  <2>2. ASSUME NEW place \in {"noModels", "failed"}, Leaves(c, place)
        PROVE  pc' \in [Calls -> Stops] /\ todo' \in [Calls -> SUBSET Models]
    BY <1>0, <2>2, LeavesIs, StopsAre
  <2>3. Preferred # NoModel => {Preferred} \in SUBSET Models
    BY ModelAssumption
  <2> QED
    BY <1>1, <2>1, <2>2, <2>3, RouteIs, PoolIs
<1>2. CASE \E place \in {"searching", "done", "failed", "waiting", "answered", "streaming",
                         "cancelled", "refused"} :
             /\ Goes(c, place)
             /\ todo' = todo \/ todo' = [todo EXCEPT ![c] = {}]
  <2>1. pc' \in [Calls -> Stops]
    BY <1>0, <1>2, StopsAre
  <2>2. todo' \in [Calls -> SUBSET Models]
    BY <1>1a, <1>2
  <2> QED
    BY <2>1, <2>2
<1>3. CASE /\ pc[c] = "calling"
           /\ \E place \in {"failed", "calling"} : Goes(c, place)
           /\ todo' = [todo EXCEPT ![c] = @ \ {Current(c)}]
  <2>1. pc' \in [Calls -> Stops]
    BY <1>0, <1>3, StopsAre
  <2>2. todo' \in [Calls -> SUBSET Models]
    BY <1>1a, <1>3
  <2> QED
    BY <2>1, <2>2
<1> QED
  BY <1>1, <1>2, <1>3 DEF Moves

----------------------------------------------------------------------------
(* The invariant *)

LEMMA RegistryStarts == Init => RegistryInv
<1> SUFFICES ASSUME Init PROVE RegistryInv
  OBVIOUS
<1>1. RouterShape
  <2>1. now = 0 /\ pc = [c \in Calls |-> "new"] /\ todo = [c \in Calls |-> {}]
        /\ resting = [m \in Models |-> 0] /\ 0 \in Nat /\ "new" \in Stops
    BY StopsAre DEF Init, GateInit, RegistryInit
  <2>2. \A m \in Models : (IF m \in catalog THEN Offered[m] ELSE {}) \in SUBSET Tiers
    BY OfferedAssumption
  <2>3. registry \in [Models -> [tiers : SUBSET Tiers, until : Nat]]
    BY <2>1, <2>2 DEF Init, RegistryInit
  <2> QED
    BY <2>1, <2>3 DEF RouterShape
<1>2. KeptInv
  BY KeptAssumption DEF Init, RegistryInit, KeptInv
<1> QED
  BY <1>1, <1>2 DEF RegistryInv

LEMMA RegistersKeep ==
  ASSUME RegistryInv, Registers
  PROVE  /\ registry' \in [Models -> [tiers : SUBSET Tiers, until : Nat]]
         /\ resting' \in [Models -> Nat]
         /\ KeptInv'
<1> USE KeptAssumption, OfferedAssumption DEF RegistryInv, RouterShape, KeptInv
<1>1. CASE UNCHANGED registryVars
  BY <1>1 DEF registryVars
<1>2. CASE UNCHANGED <<catalog, resting>> /\ Refetched
  <2>1. PICK list \in {listed, catalog} : Fetched(list) /\ registry' = Refreshed(list)
    BY <1>2 DEF Refetched
  <2>2. Kept \subseteq list /\ Kept \subseteq listed'
    BY <2>1 DEF Fetched
  <2>3. registry' \in [Models -> [tiers : SUBSET Tiers, until : Nat]]
    BY <2>1 DEF Refreshed
  <2>4. \A m \in Kept : registry'[m] = [tiers |-> Offered[m], until |-> registry[m].until]
    BY <2>1, <2>2 DEF Refreshed
  <2> QED
    BY <1>2, <2>2, <2>3, <2>4
<1>3. ASSUME NEW m \in Models, CatalogChanges(m)
      PROVE  /\ registry' \in [Models -> [tiers : SUBSET Tiers, until : Nat]]
             /\ resting' \in [Models -> Nat] /\ KeptInv'
  BY <1>3 DEF CatalogChanges
<1>4. ASSUME NEW m, Deactivate(m)
      PROVE  /\ registry' \in [Models -> [tiers : SUBSET Tiers, until : Nat]]
             /\ resting' \in [Models -> Nat] /\ KeptInv'
  <2>0. now + Rest \in Nat
    BY RestAssumption
  <2>1. resting' = [resting EXCEPT ![m] = now + Rest] /\ UNCHANGED <<catalog, listed>>
    BY <1>4 DEF Deactivate
  <2>2. resting' \in [Models -> Nat]
    BY <2>0, <2>1
  <2>3. CASE m \notin Models
    <3>1. resting' = resting /\ (registry' = registry \/ registry' = [registry EXCEPT ![m].until = now + Rest])
      BY <1>4, <2>1, <2>3 DEF Deactivate
    <3>2. registry' = registry
      BY <2>3, <3>1
    <3> QED
      BY <2>1, <3>1, <3>2
  <2>4. CASE m \in Models /\ registry[m].tiers = {}
    <3>1. registry' = registry /\ m \notin Kept
      BY <1>4, <2>4 DEF Deactivate
    <3> QED
      BY <2>1, <2>2, <3>1
  <2>5. CASE m \in Models /\ registry[m].tiers # {}
    <3>1. registry' = [registry EXCEPT ![m].until = now + Rest]
      BY <1>4, <2>5 DEF Deactivate
    <3>2. registry' \in [Models -> [tiers : SUBSET Tiers, until : Nat]]
      BY <2>0, <2>5, <3>1
    <3>3. /\ registry'[m].tiers = registry[m].tiers /\ registry'[m].until = now + Rest
          /\ \A k \in Models \ {m} : registry'[k] = registry[k]
      BY <2>5, <3>1
    <3> QED
      BY <2>1, <2>2, <2>5, <3>2, <3>3
  <2> QED
    BY <2>3, <2>4, <2>5
<1> QED
  BY <1>1, <1>2, <1>3, <1>4 DEF Registers

LEMMA RegistrySteps == RegistryInv /\ [Next]_vars => RegistryInv'
<1> SUFFICES ASSUME RegistryInv, [Next]_vars PROVE RegistryInv'
  OBVIOUS
<1>1. Registers /\ now' \in Nat
  BY StepRegisters DEF RegistryInv, RouterShape
<1>2. pc' \in [Calls -> Stops] /\ todo' \in [Calls -> SUBSET Models]
  BY StepMoves, MovesShape DEF RegistryInv, RouterShape
<1> QED
  BY <1>1, <1>2, RegistersKeep DEF RegistryInv, RouterShape

----------------------------------------------------------------------------
(* What a call is given *)

\* Only a call that is routed goes from the gate to a model, and only it is
\* turned away.
LEMMA WhoIsRouted ==
  ASSUME RouterShape, [Next]_vars, NEW c \in Calls, pc'[c] # pc[c],
         \/ pc[c] \in {"new", "waiting"} /\ pc'[c] = "calling"
         \/ pc'[c] = "noModels"
  PROVE  Route(c)
<1>1. PICK d \in Calls : Moves(d)
  BY StepMoves
<1>2. c = d
  <2> SUFFICES ASSUME c # d PROVE FALSE
    OBVIOUS
  <2>1. ASSUME NEW place \in Stops, Goes(d, place) PROVE FALSE
    BY <2>1, GoesIs
  <2>2. CASE Route(d)
    <3>1. ASSUME NEW pool, Try(d, pool) PROVE FALSE
      BY <2>1, <3>1, StopsAre DEF Try
    <3>2. ASSUME NEW place \in Stops, Leaves(d, place) PROVE FALSE
      BY <2>1, <3>2 DEF Leaves
    <3> QED
      BY <2>2, <3>1, <3>2, RouteIs, StopsAre
  <2> QED
    BY <1>1, <2>1, <2>2, StopsAre DEF Moves
<1>3. ASSUME NEW place \in Stops, Goes(c, place) PROVE pc'[c] = place
  BY <1>3, GoesIs
<1> QED
  BY <1>1, <1>2, <1>3, StopsAre DEF Moves

LEMMA RestingStep ==
  ASSUME RegistryInv, [Next]_vars, NEW c \in Calls, NEW m \in Kept \ {Preferred},
         Routed(c), m \in todo'[c]
  PROVE  resting[m] <= now
<1> USE DEF RegistryInv
<1>1. Route(c)
  BY WhoIsRouted DEF Routed
<1>2. registry[m].until = resting[m] /\ m \in Models
  BY KeptAssumption DEF KeptInv
<1> DEFINE t == TierOf[c]
<1>3. CASE Try(c, Pool(registry, t))
  <2>1. m \in Pool(registry, t)
    BY <1>3, PoolIs, TryIs
  <2> QED
    BY <1>2, <2>1, PoolIs
<1>4. ASSUME NEW list \in {listed, catalog}, Try(c, Pool(Refreshed(list), t))
      PROVE  resting[m] <= now
  <2>1. m \in Pool(Refreshed(list), t)
    BY <1>4, PoolIs, TryIs
  <2>2. Refreshed(list)[m].until <= now
    BY <2>1, PoolIs
  <2>3. Refreshed(list)[m].until = registry[m].until
    BY <1>2 DEF Refreshed, KeptInv
  <2> QED
    BY <1>2, <2>2, <2>3
<1>5. CASE Preferred # NoModel /\ Try(c, {Preferred})
  BY <1>5, TryIs, ModelAssumption
<1>6. ASSUME NEW place \in {"noModels", "failed"}, Leaves(c, place) PROVE FALSE
  BY <1>6, LeavesIs, GoesIs, StopsAre DEF Routed
<1> QED
  BY <1>1, <1>3, <1>4, <1>5, <1>6, RouteIs

LEMMA TurnedAwayStep ==
  ASSUME RegistryInv, [Next]_vars, NEW c \in Calls, NEW m \in Kept,
         pc'[c] = "noModels", pc[c] # "noModels",
         Offered[m] \cap {TierOf[c], Medium} # {}
  PROVE  now < resting[m]
<1> USE DEF RegistryInv
<1>1. Route(c)
  BY WhoIsRouted
<1>2. registry[m].until = resting[m] /\ m \in Models /\ resting[m] \in Nat /\ now \in Nat
  BY KeptAssumption DEF KeptInv, RouterShape
<1> DEFINE t == TierOf[c]
<1>3. ASSUME NEW pool \in SUBSET Models, Try(c, pool) PROVE FALSE
  BY <1>3, TryIs, GoesIs, StopsAre
<1>4. CASE Leaves(c, "failed")
  BY <1>4, LeavesIs, GoesIs, StopsAre
<1>5. ASSUME NEW list \in {listed, catalog}, Pool(Refreshed(list), t) = {}
      PROVE  now < resting[m]
  <2>1. Refreshed(list)[m] = [tiers |-> Offered[m], until |-> registry[m].until]
    BY <1>2 DEF Refreshed, KeptInv
  <2>2. ~(Refreshed(list)[m].until <= now)
    BY <1>2, <1>5, <2>1, PoolIs
  <2> QED
    BY <1>2, <2>1, <2>2
<1>6. Preferred # NoModel => {Preferred} \in SUBSET Models
  BY ModelAssumption
<1> QED
  BY <1>1, <1>3, <1>4, <1>5, <1>6, RouteIs, PoolIs

\* llm_router.py:82-113, groq_model_registry.py:60-72: through errors,
\* refreshes and fallbacks, a model the backend keeps listing is no call's
\* candidate before its rest is over.
THEOREM ModelsRest == Spec => RestingModelsRest
<1>1. RegistryInv /\ [Next]_vars =>
        [\A c \in Calls, m \in Kept \ {Preferred} :
           Routed(c) /\ m \in todo'[c] => resting[m] <= now]_vars
  BY RestingStep
<1> QED
  BY <1>1, RegistryStarts, RegistrySteps, PTL DEF Spec, RestingModelsRest

\* llm_router.py:88-105: a call is turned away only while every model that
\* the backend keeps listing for its tier or for MEDIUM rests.
THEOREM NoneTurnedAwayEarly == Spec => TurnedAwayForGood
<1>1. RegistryInv /\ [Next]_vars =>
        [\A c \in Calls, m \in Kept :
           /\ pc'[c] = "noModels" /\ pc[c] # "noModels"
           /\ Offered[m] \cap {TierOf[c], Medium} # {}
           => now < resting[m]]_vars
  BY TurnedAwayStep
<1> QED
  BY <1>1, RegistryStarts, RegistrySteps, PTL DEF Spec, TurnedAwayForGood

----------------------------------------------------------------------------
(* The lines of the gate *)

\* A sequence of distinct calls.
Distinct(s) == \A i, j \in 1..Len(s) : s[i] = s[j] => i = j
In(s) == {s[i] : i \in 1..Len(s)}

LEMMA SequenceIs ==
  ASSUME NEW s \in Seq(Calls)
  PROVE  /\ IsInjective(s) <=> Distinct(s)
         /\ ToSet(s) = In(s)
BY DEF IsInjective, Distinct, ToSet, In

LEMMA AppendIs ==
  ASSUME NEW s \in Seq(Calls), Distinct(s), NEW c \in Calls \ In(s)
  PROVE  /\ Append(s, c) \in Seq(Calls) /\ Distinct(Append(s, c))
         /\ In(Append(s, c)) = In(s) \cup {c}
<1> DEFINE u == Append(s, c)
<1>1. /\ u \in Seq(Calls) /\ Len(s) \in Nat /\ Len(u) = Len(s) + 1
      /\ \A i \in 1..Len(s) : u[i] = s[i]
      /\ u[Len(s) + 1] = c
  OBVIOUS
<1> HIDE DEF u
<1>2. \A i \in 1..Len(u) : i \in 1..Len(s) \/ i = Len(s) + 1
  BY <1>1
<1>3. \A i \in 1..Len(s) : s[i] # c
  BY DEF In
<1>4. Distinct(u)
  BY <1>1, <1>2, <1>3 DEF Distinct
<1>5. In(u) \subseteq In(s) \cup {c}
  BY <1>1, <1>2 DEF In
<1>6. Len(s) + 1 \in 1..Len(u) /\ \A i \in 1..Len(s) : i \in 1..Len(u)
  BY <1>1
<1>7. In(s) \cup {c} \subseteq In(u)
  BY <1>1, <1>6 DEF In
<1> QED
  BY <1>1, <1>4, <1>5, <1>7 DEF u

\* What is left of a sequence without its i-th element.
Without(s, u, i) ==
  /\ u \in Seq(Calls) /\ Len(u) = Len(s) - 1
  /\ \A j \in 1..Len(u) : u[j] = IF j < i THEN s[j] ELSE s[j + 1]

LEMMA WithoutIs ==
  ASSUME NEW s \in Seq(Calls), Distinct(s), NEW i \in 1..Len(s), NEW u, Without(s, u, i)
  PROVE  Distinct(u) /\ In(u) = In(s) \ {s[i]}
<1>1. Len(s) \in Nat /\ Len(u) = Len(s) - 1 /\ Len(u) \in Nat
  BY DEF Without
<1> DEFINE at(j) == IF j < i THEN j ELSE j + 1
<1>2. \A j \in 1..Len(u) : at(j) \in 1..Len(s) /\ at(j) # i /\ u[j] = s[at(j)]
  BY <1>1 DEF Without
<1>3. \A j, k \in 1..Len(u) : at(j) = at(k) => j = k
  BY <1>1
<1>4. \A k \in 1..Len(s) : k # i => \E j \in 1..Len(u) : at(j) = k
  <2> SUFFICES ASSUME NEW k \in 1..Len(s), k # i PROVE \E j \in 1..Len(u) : at(j) = k
    OBVIOUS
  <2>1. CASE k < i
    <3>1. k \in 1..Len(u) /\ at(k) = k
      BY <1>1, <2>1
    <3> QED
      BY <3>1
  <2>2. CASE ~(k < i)
    <3>1. k - 1 \in 1..Len(u) /\ at(k - 1) = k
      BY <1>1, <2>2
    <3> QED
      BY <3>1
  <2> QED
    BY <2>1, <2>2
<1> HIDE DEF at
<1>5. Distinct(u)
  BY <1>2, <1>3 DEF Distinct
<1>6. In(u) \subseteq In(s) \ {s[i]}
  BY <1>2 DEF In, Distinct
<1>7. In(s) \ {s[i]} \subseteq In(u)
  <2> SUFFICES ASSUME NEW k \in 1..Len(s), s[k] # s[i] PROVE s[k] \in In(u)
    BY DEF In
  <2>1. PICK j \in 1..Len(u) : at(j) = k
    BY <1>4
  <2>2. u[j] = s[k]
    BY <1>2, <2>1
  <2> QED
    BY <2>2 DEF In
<1> QED
  BY <1>5, <1>6, <1>7

LEMMA TailIs ==
  ASSUME NEW s \in Seq(Calls), s # <<>>
  PROVE  Without(s, Tail(s), 1) /\ 1 \in 1..Len(s) /\ s[1] = Head(s)
<1>1. Len(s) \in Nat /\ Len(s) # 0
  BY EmptySeq
<1>2. Tail(s) \in Seq(Calls) /\ Len(Tail(s)) = Len(s) - 1
      /\ \A j \in 1..(Len(s) - 1) : Tail(s)[j] = s[j + 1]
  BY <1>1
<1>3. s[1] = Head(s)
  BY <1>1
<1> QED
  BY <1>1, <1>2, <1>3 DEF Without

LEMMA RemoveIs ==
  ASSUME NEW s \in Seq(Calls), Distinct(s), NEW c
  PROVE  \/ c \notin In(s) /\ RemoveFirst(s, c) = s
         \/ \E i \in 1..Len(s) : s[i] = c /\ Without(s, RemoveFirst(s, c), i)
<1>1. CASE c \notin In(s)
  <2>1. ~\E i \in 1..Len(s) : s[i] = c
    BY <1>1 DEF In
  <2> QED
    BY <1>1, <2>1 DEF RemoveFirst
<1>2. CASE c \in In(s)
  <2>1. PICK i \in 1..Len(s) : s[i] = c
    BY <1>2 DEF In
  <2>2. {j \in 1..Len(s) : s[j] = c} = {i}
    BY <2>1 DEF Distinct
  <2>3. Min({i}) = i
    <3>1. i \in {i} /\ \A y \in {i} : i <= y
      BY <2>1
    <3> QED
      BY <3>1 DEF Min
  <2>4. RemoveFirst(s, c) = RemoveAt(s, i)
    <3>1. SelectInSeq(s, LAMBDA v : v = c) = i
      BY <2>2, <2>3 DEF SelectInSeq
    <3> QED
      BY <2>1, <3>1 DEF RemoveFirst
  <2>5. Without(s, RemoveAt(s, i), i)
    <3> DEFINE a == SubSeq(s, 1, i - 1)
               b == SubSeq(s, i + 1, Len(s))
    <3>1. Len(s) \in Nat /\ i \in Nat /\ i >= 1 /\ i <= Len(s)
      BY <2>1
    <3>2. a \in Seq(Calls) /\ Len(a) = i - 1 /\ \A j \in 1..(i - 1) : a[j] = s[j]
      BY <3>1, SubSeqProperties
    <3>3. b \in Seq(Calls) /\ Len(b) = Len(s) - i /\ \A j \in 1..(Len(s) - i) : b[j] = s[i + j]
      BY <3>1, SubSeqProperties
    <3> HIDE DEF a, b
    <3>4a. /\ a \o b \in Seq(Calls) /\ Len(a \o b) = Len(a) + Len(b)
           /\ \A j \in 1..(Len(a) + Len(b)) :
                (a \o b)[j] = IF j <= Len(a) THEN a[j] ELSE b[j - Len(a)]
      BY <3>2, <3>3, ConcatProperties
    <3>4. /\ a \o b \in Seq(Calls) /\ Len(a \o b) = Len(s) - 1
          /\ \A j \in 1..(Len(s) - 1) : (a \o b)[j] = IF j <= i - 1 THEN a[j] ELSE b[j - (i - 1)]
      BY <3>1, <3>2, <3>3, <3>4a
    <3>5. ASSUME NEW j \in 1..(Len(s) - 1)
          PROVE  (a \o b)[j] = IF j < i THEN s[j] ELSE s[j + 1]
      <4>1. CASE j < i
        BY <3>1, <3>2, <3>4, <4>1
      <4>2. CASE ~(j < i)
        <5>1. j - (i - 1) \in 1..(Len(s) - i) /\ i + (j - (i - 1)) = j + 1 /\ ~(j <= i - 1)
          BY <3>1, <4>2
        <5>2. b[j - (i - 1)] = s[i + (j - (i - 1))]
          BY <3>3, <5>1
        <5> QED
          BY <3>4, <4>2, <5>1, <5>2
      <4> QED
        BY <4>1, <4>2
    <3>6. RemoveAt(s, i) = a \o b
      BY DEF RemoveAt, a, b
    <3> QED
      BY <3>1, <3>4, <3>5, <3>6 DEF Without
  <2> QED
    BY <2>1, <2>4, <2>5
<1> QED
  BY <1>1, <1>2

LinesInv ==
  /\ line \in [Tiers -> Seq(Calls)]
  /\ \A t \in Tiers :
       Distinct(line[t]) /\ In(line[t]) = {c \in Calls : pc[c] = "waiting" /\ TierOf[c] = t}

\* A call comes to a line, leaves it, or neither waits nor did.
Lines(c) ==
  LET t == TierOf[c] IN
  /\ \A d \in Calls \ {c} : pc'[d] = pc[d]
  /\ \/ pc[c] # "waiting" /\ pc'[c] # "waiting" /\ line' = line
     \/ pc[c] # "waiting" /\ pc'[c] = "waiting" /\ line' = [line EXCEPT ![t] = Append(@, c)]
     \/ /\ line[t] # <<>> /\ Head(line[t]) = c /\ pc'[c] # "waiting"
        /\ line' = [line EXCEPT ![t] = Tail(@)]
     \/ pc'[c] # "waiting" /\ line' = [line EXCEPT ![t] = RemoveFirst(@, c)]

LEMMA LinesKeep ==
  ASSUME LinesInv, NEW c \in Calls, Lines(c)
  PROVE  LinesInv'
<1> DEFINE t == TierOf[c]
           s == line[t]
<1>1. t \in Tiers /\ s \in Seq(Calls) /\ Distinct(s)
      /\ In(s) = {d \in Calls : pc[d] = "waiting" /\ TierOf[d] = t}
  BY TierAssumption DEF LinesInv
<1>2. \A d \in Calls \ {c} : pc'[d] = pc[d]
  BY DEF Lines
<1>3. c \in In(s) <=> pc[c] = "waiting"
  BY <1>1
<1>4. ASSUME NEW u \in Seq(Calls), line' = [line EXCEPT ![t] = u], Distinct(u),
             In(u) = IF pc'[c] = "waiting" THEN In(s) \cup {c} ELSE In(s) \ {c}
      PROVE  LinesInv'
  <2>1. line' \in [Tiers -> Seq(Calls)]
    BY <1>1, <1>4 DEF LinesInv
  <2>2. line'[t] = u /\ \A k \in Tiers \ {t} : line'[k] = line[k]
    BY <1>1, <1>4 DEF LinesInv
  <2>3. In(u) = {d \in Calls : pc'[d] = "waiting" /\ TierOf[d] = t}
    BY <1>1, <1>2, <1>4
  <2> HIDE DEF t, s
  <2>4. ASSUME NEW k \in Tiers
        PROVE  Distinct(line'[k]) /\ In(line'[k]) = {d \in Calls : pc'[d] = "waiting" /\ TierOf[d] = k}
    <3>1. CASE k = t
      BY <1>4, <2>2, <2>3, <3>1
    <3>2. CASE k # t
      <4>1. Distinct(line[k]) /\ In(line[k]) = {d \in Calls : pc[d] = "waiting" /\ TierOf[d] = k}
        BY DEF LinesInv
      <4>2. \A d \in Calls : TierOf[d] = k => pc'[d] = pc[d]
        BY <1>2, <3>2 DEF t
      <4> QED
        BY <2>2, <3>2, <4>1, <4>2
    <3> QED
      BY <3>1, <3>2
  <2>5. \A k \in Tiers : Distinct(line'[k])
          /\ In(line'[k]) = {d \in Calls : pc'[d] = "waiting" /\ TierOf[d] = k}
    BY <2>4
  <2> QED
    BY <2>1, <2>5 DEF LinesInv, In, Distinct
<1>5. CASE pc[c] # "waiting" /\ pc'[c] # "waiting" /\ line' = line
  <2>1. line' = [line EXCEPT ![t] = s] /\ In(s) = In(s) \ {c}
    BY <1>1, <1>3, <1>5 DEF LinesInv
  <2> QED
    BY <1>1, <1>4, <1>5, <2>1
<1>6. CASE pc[c] # "waiting" /\ pc'[c] = "waiting" /\ line' = [line EXCEPT ![t] = Append(@, c)]
  <2> DEFINE u == Append(s, c)
  <2>1. u \in Seq(Calls) /\ Distinct(u) /\ In(u) = In(s) \cup {c}
    BY <1>1, <1>3, <1>6, AppendIs
  <2>2. line' = [line EXCEPT ![t] = u]
    BY <1>6
  <2> HIDE DEF u
  <2> QED
    BY <1>4, <1>6, <2>1, <2>2
<1>7. ASSUME NEW i \in 1..Len(s), s[i] = c, NEW u, Without(s, u, i), pc'[c] # "waiting",
             line' = [line EXCEPT ![t] = u]
      PROVE  LinesInv'
  <2>1. Distinct(u) /\ In(u) = In(s) \ {c}
    <3> HIDE DEF s
    <3> QED
      BY <1>1, <1>7, WithoutIs
  <2>2. u \in Seq(Calls)
    BY <1>7 DEF Without
  <2> QED
    BY <1>4, <1>7, <2>1, <2>2
<1>8. CASE /\ s # <<>> /\ Head(s) = c /\ pc'[c] # "waiting"
           /\ line' = [line EXCEPT ![t] = Tail(@)]
  <2> DEFINE u == Tail(s)
  <2>1. Without(s, u, 1) /\ 1 \in 1..Len(s) /\ s[1] = c
    BY <1>1, <1>8, TailIs
  <2>2. line' = [line EXCEPT ![t] = u]
    BY <1>8
  <2> HIDE DEF u
  <2> QED
    BY <1>7, <1>8, <2>1, <2>2
<1>9. CASE pc'[c] # "waiting" /\ line' = [line EXCEPT ![t] = RemoveFirst(@, c)]
  <2> DEFINE u == RemoveFirst(s, c)
  <2>1. \/ c \notin In(s) /\ u = s
        \/ \E i \in 1..Len(s) : s[i] = c /\ Without(s, u, i)
    BY <1>1, RemoveIs
  <2>2. line' = [line EXCEPT ![t] = u]
    BY <1>9
  <2> HIDE DEF u
  <2>3. CASE c \notin In(s) /\ u = s
    BY <1>1, <1>4, <1>9, <2>2, <2>3
  <2>4. CASE \E i \in 1..Len(s) : s[i] = c /\ Without(s, u, i)
    BY <1>7, <1>9, <2>2, <2>4
  <2> QED
    BY <2>1, <2>3, <2>4
<1> QED
  BY <1>5, <1>6, <1>8, <1>9 DEF Lines

LEMMA RouteGoes ==
  ASSUME NEW c \in Calls, Route(c)
  PROVE  \E place \in {"calling", "noModels", "failed"} : Goes(c, place)
BY DEF Route, TryPreferred, Try, Leaves

LEMMA GoesOne ==
  ASSUME RouterShape, NEW c \in Calls, NEW place, Goes(c, place)
  PROVE  pc'[c] = place /\ \A d \in Calls \ {c} : pc'[d] = pc[d]
BY DEF RouterShape, Goes

LEMMA StepLines ==
  ASSUME RouterShape, LinesInv, [Next]_vars
  PROVE  UNCHANGED <<pc, line>> \/ \E c \in Calls : Lines(c)
<1>1. ASSUME NEW c \in Calls, Begin(c) PROVE Lines(c)
  <2>1. pc[c] = "new" /\ Route(c) /\ line' = line
    BY <1>1 DEF Begin, Straight
  <2>2. PICK place \in {"calling", "noModels", "failed"} : Goes(c, place)
    BY <2>1, RouteGoes
  <2>3. pc'[c] # "waiting" /\ \A d \in Calls \ {c} : pc'[d] = pc[d]
    BY <2>2, GoesOne
  <2> QED
    BY <2>1, <2>3 DEF Lines
<1>2. ASSUME NEW c \in Calls, Proceed(c) PROVE Lines(c)
  <2>1. /\ Route(c) /\ line[TierOf[c]] # <<>> /\ Head(line[TierOf[c]]) = c
        /\ line' = [line EXCEPT ![TierOf[c]] = Tail(@)]
    BY <1>2 DEF Proceed, TurnComes
  <2>2. PICK place \in {"calling", "noModels", "failed"} : Goes(c, place)
    BY <2>1, RouteGoes
  <2>3. pc'[c] # "waiting" /\ \A d \in Calls \ {c} : pc'[d] = pc[d]
    BY <2>2, GoesOne
  <2> QED
    BY <2>1, <2>3 DEF Lines
<1>3. ASSUME NEW c \in Calls, Wait(c) PROVE Lines(c)
  <2>1. pc[c] = "new" /\ Goes(c, "waiting") /\ line' = [line EXCEPT ![TierOf[c]] = Append(@, c)]
    BY <1>3 DEF Wait, Queue
  <2> QED
    BY <2>1, GoesOne DEF Lines
<1>4. ASSUME NEW c \in Calls, Cancel(c) PROVE Lines(c)
  <2>1. Goes(c, "cancelled") /\ line' = [line EXCEPT ![TierOf[c]] = RemoveFirst(@, c)]
    BY <1>4 DEF Cancel, Leaves, LeaveLine
  <2> QED
    BY <2>1, GoesOne DEF Lines
<1>5. ASSUME NEW c \in Calls,
             \/ Refused(c) \/ Search(c) \/ SearchEnds(c) \/ Answer(c) \/ Chunk(c)
             \/ StreamEnds(c) \/ StreamBreaks(c) \/ Trace(c)
      PROVE  Lines(c)
  <2>1. pc[c] # "waiting" /\ line' = line
    BY <1>5 DEF Refused, Search, SearchEnds, Answer, Chunk, StreamEnds, StreamBreaks, Trace, gateVars
  <2>2. \E place \in {"refused", "searching", "done", "failed", "answered", "streaming"} : Goes(c, place)
    BY <1>5 DEF Refused, Search, SearchEnds, Answer, Chunk, StreamEnds, StreamBreaks, Trace, Leaves
  <2>3. pc'[c] # "waiting" /\ \A d \in Calls \ {c} : pc'[d] = pc[d]
    BY <2>2, GoesOne
  <2> QED
    BY <2>1, <2>3 DEF Lines
<1>6. ASSUME NEW c \in Calls, ProviderFails(c) PROVE Lines(c)
  <2>1. pc[c] # "waiting" /\ line' = line /\ \E place \in {"failed", "calling"} : Goes(c, place)
    BY <1>6 DEF ProviderFails, NextModel, gateVars
  <2>2. pc'[c] # "waiting" /\ \A d \in Calls \ {c} : pc'[d] = pc[d]
    BY <2>1, GoesOne
  <2> QED
    BY <2>1, <2>2 DEF Lines
<1>7. CASE Tick
  BY <1>7 DEF Tick, callVars, gateVars
<1>8. ASSUME NEW m \in Models, CatalogChanges(m), UNCHANGED <<now, gateVars, callVars>>
      PROVE  UNCHANGED <<pc, line>>
  BY <1>8 DEF callVars, gateVars
<1>9. CASE UNCHANGED vars
  BY <1>9 DEF vars, callVars, gateVars
<1> QED
  BY <1>1, <1>2, <1>3, <1>4, <1>5, <1>6, <1>7, <1>8, <1>9 DEF Next, Run, Ends, AllEnded

LEMMA LinesStart == Init => LinesInv
<1> SUFFICES ASSUME Init PROVE LinesInv
  OBVIOUS
<1>1. line = [t \in Tiers |-> <<>>] /\ \A c \in Calls : pc[c] = "new"
  BY DEF Init, GateInit
<1>2. <<>> \in Seq(Calls) /\ Distinct(<<>>) /\ In(<<>>) = {}
  BY DEF Distinct, In
<1> QED
  BY <1>1, <1>2 DEF LinesInv

LEMMA LinesSteps == RegistryInv /\ LinesInv /\ [Next]_vars => LinesInv'
<1> SUFFICES ASSUME RegistryInv, LinesInv, [Next]_vars PROVE LinesInv'
  OBVIOUS
<1>1. CASE UNCHANGED <<pc, line>>
  BY <1>1 DEF LinesInv
<1>2. ASSUME NEW c \in Calls, Lines(c) PROVE LinesInv'
  BY <1>2, LinesKeep
<1> QED
  BY <1>1, <1>2, StepLines DEF RegistryInv

LEMMA LinesAlways == Spec => []LinesInv
<1>1. Spec => []RegistryInv
  BY RegistryStarts, RegistrySteps, PTL DEF Spec
<1> QED
  BY <1>1, LinesStart, LinesSteps, PTL DEF Spec

\* However calls come, sleep and are cancelled, the line of a tier is its
\* waiting calls, each once: no lock of the gate is held by a call that left.
THEOREM GateLinesHold == Spec => []LinesAreTheWaiting
<1>1. LinesInv => LinesAreTheWaiting
  <2> SUFFICES ASSUME LinesInv, NEW t \in Tiers
               PROVE  /\ IsInjective(line[t])
                      /\ ToSet(line[t]) = {c \in Calls : pc[c] = "waiting" /\ TierOf[c] = t}
    BY DEF LinesAreTheWaiting
  <2>1. line[t] \in Seq(Calls) /\ Distinct(line[t])
        /\ In(line[t]) = {c \in Calls : pc[c] = "waiting" /\ TierOf[c] = t}
    BY DEF LinesInv
  <2> QED
    BY <2>1, SequenceIs
<1> QED
  BY <1>1, LinesAlways, PTL

----------------------------------------------------------------------------
(* The model of a call *)

\* A set of numbers that is not empty has a least one.
LEMMA LeastOne ==
  ASSUME NEW S, S \subseteq Nat, NEW x \in S
  PROVE  \E n \in S : \A m \in S : n <= m
<1> DEFINE R == {ss \in Nat \X Nat : ss[1] < ss[2]}
<1>1. IsWellFoundedOn(R, Nat)
  BY NatLessThanWellFounded, Zenon DEF OpToRel
<1>2. \A a, b \in Nat : <<a, b>> \in R <=> a < b
  OBVIOUS
<1> HIDE DEF R
<1>3. PICK n \in S : \A m \in S : ~(<<m, n>> \in R)
  BY <1>1, WFMin
<1>4. \A m \in S : ~(m < n)
  BY <1>2, <1>3
<1> QED
  BY <1>4

\* Of some models there is one that none of them comes before.
LEMMA FirstOne ==
  ASSUME NEW S \in SUBSET Models, S # {}
  PROVE  \E m \in S : \A k \in S : ~Before(k, m)
<1>1. CASE Preferred \in S
  BY <1>1 DEF Before
<1>2. CASE Preferred \notin S
  <2> DEFINE P == {Position(m) : m \in S}
  <2>1. ASSUME NEW m \in Models PROVE Position(m) \in Nat
    <3>1. \E i \in 1..Len(ModelOrder) : ModelOrder[i] = m
      BY OrderAssumption DEF Models, ToSet
    <3> QED
      BY <3>1, OrderAssumption DEF Position
  <2>2. P \subseteq Nat /\ \E x : x \in P
    BY <2>1
  <2> HIDE DEF P
  <2>3. PICK n \in P : \A i \in P : n <= i
    BY <2>2, LeastOne
  <2>4. PICK m \in S : n = Position(m)
    BY <2>3 DEF P
  <2>5. ASSUME NEW k \in S PROVE ~Before(k, m)
    <3>1. Position(k) \in P /\ Position(k) \in Nat /\ Position(m) \in Nat
      BY <2>1 DEF P
    <3>2. Position(m) <= Position(k)
      BY <2>3, <2>4, <3>1
    <3> QED
      BY <1>2, <3>1, <3>2 DEF Before
  <2> QED
    BY <2>5
<1> QED
  BY <1>1, <1>2

LEMMA CurrentIs ==
  ASSUME NEW c \in Calls, todo[c] \in SUBSET Models, todo[c] # {}
  PROVE  Current(c) \in todo[c]
<1>1. \E m \in todo[c] : \A k \in todo[c] : ~Before(k, m)
  BY FirstOne
<1> QED
  BY <1>1 DEF Current

\* The candidates that are tried are some of the pool, if there are any.
LEMMA TriesSome ==
  ASSUME RouterShape, NEW c \in Calls, NEW pool \in SUBSET Models, pool # {}, Try(c, pool)
  PROVE  todo'[c] # {}
<1>1. PICK m \in pool : \A k \in pool : ~Before(k, m)
  BY FirstOne
<1>2. {k \in pool : Before(k, m)} = {}
  BY <1>1
<1>3. Cardinality({k \in pool : Before(k, m)}) = 0
  BY <1>2, FS_EmptySet
<1>4. todo'[c] = {k \in pool : Cardinality({l \in pool : Before(l, k)}) <= MaxFallbacks}
  BY DEF Try, RouterShape
<1>5. m \in todo'[c]
  BY <1>1, <1>3, <1>4, FallbackAssumption
<1> QED
  BY <1>5

\* Whoever calls a model or was answered by one has it in hand.
Calling == {"calling", "streaming", "answered"}
CallsHaveModels == \A c \in Calls : pc[c] \in Calling => todo[c] # {} /\ Current(c) \in todo[c]

TypedInv ==
  /\ catalog \in SUBSET Models /\ listed \in SUBSET Models /\ cachedAt \in Nat
  /\ lastUsed \in Models \cup {NoModel}
  /\ \A c \in Calls : pc[c] \in Calling => todo[c] # {}

\* What a step does to the list of a call.
KeepsModels(c) ==
  /\ \A d \in Calls \ {c} : pc'[d] = pc[d] /\ todo'[d] = todo[d]
  /\ pc'[c] \in Calling => todo'[c] # {}
  /\ lastUsed' = lastUsed \/ (pc[c] \in Calling /\ lastUsed' = Current(c))

LEMMA RouteKeeps ==
  ASSUME RouterShape, NEW c \in Calls, Route(c), lastUsed' = lastUsed
  PROVE  KeepsModels(c)
<1>1. \A d \in Calls \ {c} : pc'[d] = pc[d] /\ todo'[d] = todo[d]
  BY DEF Route, TryPreferred, Try, Leaves, Goes, RouterShape
<1>2. ASSUME NEW pool \in SUBSET Models, pool # {}, Try(c, pool) PROVE todo'[c] # {}
  BY <1>2, TriesSome
<1>3. ASSUME NEW place \in {"noModels", "failed"}, Leaves(c, place) PROVE pc'[c] \notin Calling
  BY <1>3 DEF Leaves, Goes, RouterShape, Calling
<1>4. \/ \E pool \in SUBSET Models : pool # {} /\ Try(c, pool)
      \/ \E place \in {"noModels", "failed"} : Leaves(c, place)
  <2>1. \A recs : Pool(recs, TierOf[c]) \in SUBSET Models
    BY PoolIs
  <2>2. Preferred # NoModel => {Preferred} \in SUBSET Models /\ {Preferred} # {}
    BY ModelAssumption
  <2> QED
    BY <2>1, <2>2 DEF Route, TryPreferred
<1> QED
  BY <1>1, <1>2, <1>3, <1>4 DEF KeepsModels

LEMMA StepKeeps ==
  ASSUME RouterShape, TypedInv, [Next]_vars
  PROVE  UNCHANGED callVars \/ \E c \in Calls : KeepsModels(c)
<1>1. ASSUME NEW c \in Calls, Begin(c) \/ Proceed(c) PROVE KeepsModels(c)
  BY <1>1, RouteKeeps DEF Begin, Proceed
<1>2. ASSUME NEW c \in Calls, Answer(c) \/ Chunk(c) PROVE KeepsModels(c)
  BY <1>2 DEF Answer, Chunk, Goes, KeepsModels, Calling, RouterShape, TypedInv
<1>3. ASSUME NEW c \in Calls, StreamEnds(c) PROVE KeepsModels(c)
  BY <1>3 DEF StreamEnds, Goes, KeepsModels, Calling, RouterShape, TypedInv
<1>4. ASSUME NEW c \in Calls, Refused(c) \/ Search(c) \/ Wait(c) \/ SearchEnds(c) PROVE KeepsModels(c)
  BY <1>4 DEF Refused, Search, Wait, SearchEnds, Goes, KeepsModels, Calling, RouterShape
<1>5. ASSUME NEW c \in Calls, StreamBreaks(c) \/ Trace(c) \/ Cancel(c) PROVE KeepsModels(c)
  BY <1>5 DEF StreamBreaks, Trace, Cancel, Leaves, Goes, KeepsModels, Calling, RouterShape
<1>6. ASSUME NEW c \in Calls, ProviderFails(c) PROVE KeepsModels(c)
  <2> DEFINE m == Current(c)
  <2>1. pc[c] = "calling" /\ lastUsed' = lastUsed
        /\ todo' = [todo EXCEPT ![c] = @ \ {m}]
        /\ pc' = [pc EXCEPT ![c] = IF todo[c] = {m} THEN "failed" ELSE "calling"]
    BY <1>6 DEF ProviderFails, NextModel, Goes
  <2>2. todo[c] # {} /\ todo[c] \in SUBSET Models
    BY <2>1 DEF TypedInv, RouterShape, Calling
  <2> HIDE DEF m
  <2>3. pc'[c] = (IF todo[c] = {m} THEN "failed" ELSE "calling") /\ todo'[c] = todo[c] \ {m}
        /\ \A d \in Calls \ {c} : pc'[d] = pc[d] /\ todo'[d] = todo[d]
    BY <2>1 DEF RouterShape
  <2>4. todo[c] # {m} => todo'[c] # {}
    BY <2>2, <2>3
  <2> QED
    BY <2>1, <2>3, <2>4 DEF KeepsModels, Calling
<1>7. CASE Tick
  BY <1>7 DEF Tick
<1>8. CASE UNCHANGED vars
  BY <1>8 DEF vars, callVars
<1>9. ASSUME NEW m \in Models, CatalogChanges(m), UNCHANGED <<now, gateVars, callVars>>
      PROVE  UNCHANGED callVars
  BY <1>9
<1> QED
  BY <1>1, <1>2, <1>3, <1>4, <1>5, <1>6, <1>7, <1>8, <1>9 DEF Next, Run, Ends, AllEnded

LEMMA ListsTyped ==
  ASSUME RouterShape, TypedInv, Registers
  PROVE  catalog' \in SUBSET Models /\ listed' \in SUBSET Models /\ cachedAt' \in Nat
<1>1. CASE UNCHANGED registryVars
  BY <1>1 DEF registryVars, TypedInv
<1>2. CASE UNCHANGED <<catalog, resting>> /\ Refetched
  BY <1>2 DEF Refetched, Fetched, TypedInv, RouterShape
<1>3. CASE \E m \in Models : CatalogChanges(m)
  BY <1>3 DEF CatalogChanges, TypedInv
<1>4. CASE \E m : Deactivate(m)
  BY <1>4 DEF Deactivate, TypedInv
<1> QED
  BY <1>1, <1>2, <1>3, <1>4 DEF Registers

LEMMA TypedSteps == RegistryInv /\ TypedInv /\ [Next]_vars => TypedInv'
<1> SUFFICES ASSUME RegistryInv, TypedInv, [Next]_vars PROVE TypedInv'
  OBVIOUS
<1>1. catalog' \in SUBSET Models /\ listed' \in SUBSET Models /\ cachedAt' \in Nat
  BY StepRegisters, ListsTyped DEF RegistryInv
<1>2. CASE UNCHANGED callVars
  BY <1>1, <1>2 DEF callVars, TypedInv
<1>3. ASSUME NEW c \in Calls, KeepsModels(c) PROVE TypedInv'
  <2>1. lastUsed' \in Models \cup {NoModel}
    <3>1. pc[c] \in Calling => Current(c) \in Models
      BY CurrentIs DEF TypedInv, RegistryInv, RouterShape
    <3> QED
      BY <1>3, <3>1 DEF KeepsModels, TypedInv
  <2>2. \A d \in Calls : pc'[d] \in Calling => todo'[d] # {}
    BY <1>3 DEF KeepsModels, TypedInv
  <2> QED
    BY <1>1, <2>1, <2>2 DEF TypedInv, Calling
<1> QED
  BY <1>2, <1>3, StepKeeps DEF RegistryInv

LEMMA TypedStarts == Init => TypedInv
BY DEF Init, RegistryInit, TypedInv, Calling

\* Type correctness of the gate, the registry and the calls; and whoever calls
\* a model, or reads which one answered, has one in hand: through fallbacks
\* and refreshes the list of a call under way does not run out.
THEOREM RouterTyped == Spec => [](TypeOK /\ CallsHaveModels)
<1>1. Spec => []RegistryInv
  BY RegistryStarts, RegistrySteps, PTL DEF Spec
<1>2. Spec => []TypedInv
  BY <1>1, TypedStarts, TypedSteps, PTL DEF Spec
<1>3. Spec => []PacedInv /\ []QuotaInv
  BY PacedInit, PacedStep, QuotaInit, QuotaStep, PTL DEF Spec
<1>4. PacedInv /\ QuotaInv /\ LinesInv /\ RegistryInv /\ TypedInv => TypeOK
  BY DEF PacedInv, QuotaInv, LinesInv, RegistryInv, RouterShape, TypedInv, TypeOK, GateTypeOK,
         RegistryTypeOK, Stops
<1>5. RegistryInv /\ TypedInv => CallsHaveModels
  BY CurrentIs DEF RegistryInv, RouterShape, TypedInv, CallsHaveModels
<1> QED
  BY <1>1, <1>2, <1>3, <1>4, <1>5, LinesAlways, PTL

----------------------------------------------------------------------------
(* The research tools: the inductive invariant *)

\* What the variables hold beyond the type invariant.
ResearchShape ==
  /\ ResearchTypeOK
  /\ tool = [c \in ToolCalls |-> tool[c]]
  /\ found = [c \in ToolCalls |-> found[c]]
  /\ \A c \in ToolCalls : found[c] = [p \in Needs[c] |-> found[c][p]]
  /\ told = [c \in ToolCalls |-> told[c]]
  /\ \A c \in ToolCalls : told[c] \in {Untold, [is |-> "error"]} \/ told[c].is = "answer"
  /\ \A t \in threads : t = [for |-> t.for, query |-> t.query, beside |-> t.beside]
  /\ \A a \in answers : a.answer.is = "answer"

\* The call a thread works for is searching for videos, and for what the
\* thread was given.
Waits(t) ==
  t.for \in ToolCalls =>
    /\ "videos" \in Needs[t.for]
    /\ stage[t.for] = "search" /\ tool[t.for]["videos"] = "busy"
    /\ t.query = QueryOf[t.for]

\* The inductive invariant: a call has one thread, is told once, and writes
\* when its searches have reported.
ResearchIInv ==
  /\ ResearchShape
  /\ \A t \in threads : Waits(t)
  /\ \A t, u \in threads : t.for = u.for /\ t.for \in ToolCalls => t = u
  /\ \A c \in ToolCalls : told[c] = Untold <=> stage[c] # "done"
  /\ \A c \in ToolCalls : stage[c] \in {"write", "return"} => Joins(c)

----------------------------------------------------------------------------
LEMMA NeedsKnown ==
  ASSUME NEW c \in ToolCalls
  PROVE  /\ Needs[c] \subseteq Providers
         /\ KindOf[c] # "article" => Needs[c] = {KindOf[c]}
BY ResearchAssumption DEF Needs, Providers

\* The thread of a call is handed to nobody, the others stay as they are.
LEMMA OrphanedThreads ==
  ASSUME NEW c \in ToolCalls, ResearchIInv, NEW t \in Orphaned(c)
  PROVE  /\ t = [for |-> t.for, query |-> t.query, beside |-> t.beside]
         /\ t.for # c /\ t.for \in ToolCalls \cup {Nobody}
         /\ t.for \in ToolCalls => t \in threads
         /\ \E u \in threads : t.query = u.query /\ t.beside = u.beside
<1>1. PICK u \in threads : t = IF u.for = c THEN [u EXCEPT !.for = Nobody] ELSE u
  BY DEF Orphaned
<1>2. u = [for |-> u.for, query |-> u.query, beside |-> u.beside] /\ u.for \in ToolCalls \cup {Nobody}
  BY DEF ResearchIInv, ResearchShape, ResearchTypeOK
<1>3. CASE u.for = c
  <2>1. t = [for |-> Nobody, query |-> u.query, beside |-> u.beside]
    BY <1>1, <1>2, <1>3
  <2> QED
    BY <2>1, ResearchAssumption
<1>4. CASE u.for # c
  BY <1>1, <1>2, <1>4
<1> QED
  BY <1>3, <1>4

LEMMA FailKeeps ==
  ASSUME NEW c \in ToolCalls, ResearchIInv, Fail(c)
  PROVE  ResearchIInv'
<1>1. /\ stage' = [stage EXCEPT ![c] = "done"] /\ told' = [told EXCEPT ![c] = [is |-> "error"]]
      /\ threads' = Orphaned(c)
      /\ UNCHANGED <<attempts, tool, again, found, mixed, kept, answers>>
  BY DEF Fail, Goto
<1>2. ResearchShape'
  BY <1>1, OrphanedThreads DEF ResearchIInv, ResearchShape, ResearchTypeOK
<1>3. \A t \in threads' : Waits(t)'
  BY <1>1, OrphanedThreads DEF ResearchIInv, ResearchShape, ResearchTypeOK, Waits
<1>4. \A t, u \in threads' : t.for = u.for /\ t.for \in ToolCalls => t = u
  BY <1>1, OrphanedThreads DEF ResearchIInv
<1>5. \A d \in ToolCalls : told'[d] = Untold <=> stage'[d] # "done"
  BY <1>1 DEF ResearchIInv, ResearchShape, ResearchTypeOK, Untold
<1>6. \A d \in ToolCalls : stage'[d] \in {"write", "return"} => Joins(d)'
  BY <1>1 DEF ResearchIInv, ResearchShape, ResearchTypeOK, Joins
<1> QED
  BY <1>2, <1>3, <1>4, <1>5, <1>6 DEF ResearchIInv

\* A call goes on to a node or to its end, and no search changes.
LEMMA OnwardKeeps ==
  ASSUME NEW c \in ToolCalls, ResearchIInv,
         NEW to \in {"plan", "search", "write", "return", "done"},
         stage' = [stage EXCEPT ![c] = to],
         attempts' \in [ToolCalls -> 0..NodeRetries],
         stage[c] # "search" \/ Joins(c),
         to \in {"write", "return"} => Joins(c),
         stage[c] # "done",
         \/ to # "done" /\ told' = told
         \/ /\ to = "done"
            /\ \E w : /\ told' = [told EXCEPT ![c] = w]
                      /\ w = [is |-> "error"] \/ w.is = "answer",
         \A a \in answers' : a.answer.is = "answer",
         UNCHANGED <<tool, found, threads>>
  PROVE  ResearchIInv'
<1>1. ResearchShape'
  <2>1. \A d \in ToolCalls : told'[d] \in {Untold, [is |-> "error"]} \/ told'[d].is = "answer"
    BY DEF ResearchIInv, ResearchShape
  <2>2. told' = [d \in ToolCalls |-> told'[d]]
    BY DEF ResearchIInv, ResearchShape
  <2> QED
    BY <2>1, <2>2 DEF ResearchIInv, ResearchShape, ResearchTypeOK
<1>2. \A t \in threads' : Waits(t)'
  BY DEF ResearchIInv, ResearchShape, ResearchTypeOK, Waits, Joins
<1>3. \A d \in ToolCalls : told'[d] = Untold <=> stage'[d] # "done"
  BY DEF ResearchIInv, ResearchShape, ResearchTypeOK, Untold
<1>4. \A d \in ToolCalls : stage'[d] \in {"write", "return"} => Joins(d)'
  BY DEF ResearchIInv, ResearchShape, ResearchTypeOK, Joins
<1> QED
  BY <1>1, <1>2, <1>3, <1>4 DEF ResearchIInv

\* The search of c with p is now at w; what it found may have changed; and
\* no thread works for it any longer.
NowAt(c, p, w) == tool' = [tool EXCEPT ![c][p] = w]
MayFind(c, p) == found' = found \/ \E q : found' = [found EXCEPT ![c][p] = q]
Unthreaded(c, p) ==
  \A t \in threads' :
    /\ t = [for |-> t.for, query |-> t.query, beside |-> t.beside]
    /\ t.for \in ToolCalls \cup {Nobody}
    /\ t.for \in ToolCalls => t \in threads
    /\ p = "videos" => t.for # c

\* A search that was under way is over, or is to be tried again.
LEMMA SearchOverKeeps ==
  ASSUME NEW c \in ToolCalls, ResearchIInv, NEW p \in Needs[c],
         stage[c] = "search", NEW w \in {"silent", "ok", "failed"}, 
         NowAt(c, p, w), MayFind(c, p), Unthreaded(c, p),
         UNCHANGED <<stage, attempts, answers, told>>
  PROVE  ResearchIInv'
<1> USE DEF NowAt, MayFind, Unthreaded
<1>1. /\ tool = [d \in ToolCalls |-> tool[d]]
      /\ \A d \in ToolCalls : tool[d] \in [Needs[d] -> {"silent", "busy", "ok", "failed"}]
      /\ found = [d \in ToolCalls |-> found[d]]
      /\ \A d \in ToolCalls : found[d] = [e \in Needs[d] |-> found[d][e]]
  BY DEF ResearchIInv, ResearchShape, ResearchTypeOK
<1>2. /\ tool' = [d \in ToolCalls |-> tool'[d]]
      /\ \A d \in ToolCalls : tool'[d] \in [Needs[d] -> {"silent", "busy", "ok", "failed"}]
      /\ \A d \in ToolCalls \ {c} : tool'[d] = tool[d]
      /\ \A e \in Needs[c] \ {p} : tool'[c][e] = tool[c][e]
  BY <1>1
<1>3. found' = [d \in ToolCalls |-> found'[d]] /\ \A d \in ToolCalls : found'[d] = [e \in Needs[d] |-> found'[d][e]]
  BY <1>1
<1>4. ResearchShape'
  BY <1>2, <1>3 DEF ResearchIInv, ResearchShape, ResearchTypeOK
<1>5. \A t \in threads' : Waits(t)'
  <2>1. SUFFICES ASSUME NEW t \in threads', t.for \in ToolCalls
                 PROVE  /\ "videos" \in Needs[t.for]
                        /\ stage[t.for] = "search" /\ tool'[t.for]["videos"] = "busy"
                        /\ t.query = QueryOf[t.for]
    BY DEF Waits
  <2>2. t \in threads /\ (t.for = c => p # "videos")
    BY <2>1
  <2>3. /\ "videos" \in Needs[t.for]
        /\ stage[t.for] = "search" /\ tool[t.for]["videos"] = "busy"
        /\ t.query = QueryOf[t.for]
    BY <2>1, <2>2 DEF ResearchIInv, Waits
  <2> QED
    BY <1>2, <2>1, <2>2, <2>3
<1>6. \A t, u \in threads' : t.for = u.for /\ t.for \in ToolCalls => t = u
  BY DEF ResearchIInv
<1>7. \A d \in ToolCalls : stage'[d] \in {"write", "return"} => Joins(d)'
  BY <1>2 DEF ResearchIInv, Joins
<1>8. \A d \in ToolCalls : told'[d] = Untold <=> stage'[d] # "done"
  BY DEF ResearchIInv
<1> QED
  BY <1>4, <1>5, <1>6, <1>7, <1>8 DEF ResearchIInv

\* A search goes out, with a thread of its own if it is for videos.
LEMMA GoesOutKeeps ==
  ASSUME NEW c \in ToolCalls, ResearchIInv, NEW p \in Needs[c],
         stage[c] = "search", tool[c][p] = "silent", NowAt(c, p, "busy"),
         IF p = "web" THEN UNCHANGED threads ELSE threads' = WithThread(c),
         UNCHANGED <<stage, attempts, found, answers, told>>
  PROVE  ResearchIInv'
<1>1. /\ tool = [d \in ToolCalls |-> tool[d]]
      /\ \A d \in ToolCalls : tool[d] \in [Needs[d] -> {"silent", "busy", "ok", "failed"}]
  BY DEF ResearchIInv, ResearchShape, ResearchTypeOK
<1>2. /\ tool' = [d \in ToolCalls |-> tool'[d]]
      /\ \A d \in ToolCalls : tool'[d] \in [Needs[d] -> {"silent", "busy", "ok", "failed"}]
      /\ \A d \in ToolCalls \ {c} : tool'[d] = tool[d]
      /\ \A e \in Needs[c] \ {p} : tool'[c][e] = tool[c][e]
      /\ tool'[c][p] = "busy"
  BY <1>1 DEF NowAt
<1>3. \A t \in threads : t.for \in ToolCalls =>
        (t.for # c \/ p = "web") /\ tool'[t.for]["videos"] = "busy" /\ Waits(t)
  BY <1>2, NeedsKnown DEF ResearchIInv, Waits, Providers
<1>4. \A t \in threads' :
        \/ \E u \in threads : t = u \/ t = [u EXCEPT !.beside = @ \cup {QueryOf[c]}]
        \/ p = "videos" /\ t = [for |-> c, query |-> QueryOf[c], beside |-> {u.query : u \in threads}]
  <2>1. CASE p = "web"
    BY <2>1
  <2>2. CASE p = "videos"
    BY <2>2 DEF WithThread
  <2> QED
    BY <2>1, <2>2, NeedsKnown DEF Providers
<1>5. \A u \in threads :
        /\ u = [for |-> u.for, query |-> u.query, beside |-> u.beside]
        /\ u.for \in ToolCalls \cup {Nobody}
        /\ \A b : [u EXCEPT !.beside = b] = [for |-> u.for, query |-> u.query, beside |-> b]
  BY DEF ResearchIInv, ResearchShape, ResearchTypeOK
<1>6. ASSUME NEW t \in threads'
      PROVE  /\ t = [for |-> t.for, query |-> t.query, beside |-> t.beside]
             /\ t.for \in ToolCalls \cup {Nobody}
             /\ Waits(t)'
             /\ \/ \E u \in threads : u.for = t.for
                \/ p = "videos" /\ t.for = c
  <2>1. CASE \E u \in threads : t = u \/ t = [u EXCEPT !.beside = @ \cup {QueryOf[c]}]
    <3>1. PICK u \in threads : t = u \/ t = [u EXCEPT !.beside = @ \cup {QueryOf[c]}]
      BY <2>1
    <3>2. /\ t = [for |-> t.for, query |-> t.query, beside |-> t.beside]
          /\ t.for = u.for /\ t.query = u.query /\ t.for \in ToolCalls \cup {Nobody}
      BY <1>5, <3>1
    <3> QED
      BY <1>3, <3>2 DEF Waits
  <2>2. CASE p = "videos" /\ t = [for |-> c, query |-> QueryOf[c], beside |-> {u.query : u \in threads}]
    BY <1>2, <2>2 DEF Waits
  <2> QED
    BY <1>4, <2>1, <2>2
<1>7. ResearchShape'
  BY <1>2, <1>6 DEF ResearchIInv, ResearchShape, ResearchTypeOK
<1>8. ASSUME NEW t \in threads', NEW u \in threads', t.for = u.for, t.for \in ToolCalls
      PROVE  t = u
  <2>1. CASE p = "web"
    BY <1>8, <2>1 DEF ResearchIInv
  <2>2. CASE p = "videos" /\ t.for = c
    BY <1>3, <1>4, <1>5, <1>8, <2>2
  <2>3. CASE p = "videos" /\ t.for # c
    <3>1. threads' = WithThread(c)
      BY <2>3
    <3>2. PICK x \in threads : t = [x EXCEPT !.beside = @ \cup {QueryOf[c]}]
      BY <2>3, <3>1 DEF WithThread
    <3>3. PICK y \in threads : u = [y EXCEPT !.beside = @ \cup {QueryOf[c]}]
      BY <1>8, <2>3, <3>1 DEF WithThread
    <3>4. x.for = t.for /\ y.for = u.for
      BY <1>5, <3>2, <3>3
    <3>5. x = y
      BY <1>8, <3>4 DEF ResearchIInv
    <3> QED
      BY <3>2, <3>3, <3>5
  <2> QED
    BY <2>1, <2>2, <2>3, NeedsKnown DEF Providers
<1>9. \A d \in ToolCalls : stage'[d] \in {"write", "return"} => Joins(d)'
  BY <1>2 DEF ResearchIInv, Joins
<1>10. \A d \in ToolCalls : told'[d] = Untold <=> stage'[d] # "done"
  BY DEF ResearchIInv
<1> QED
  BY <1>6, <1>7, <1>8, <1>9, <1>10 DEF ResearchIInv

LEMMA SearchKeeps ==
  ASSUME NEW c \in ToolCalls, NEW p \in Needs[c], ResearchIInv,
         SearchProvider(c, p) \/ SearchFails(c, p) \/ NodeRaises(c, p)
  PROVE  ResearchIInv'
<1>1. \A t \in threads :
        /\ t = [for |-> t.for, query |-> t.query, beside |-> t.beside]
        /\ t.for \in ToolCalls \cup {Nobody}
  BY DEF ResearchIInv, ResearchShape, ResearchTypeOK
<1>2. CASE SearchProvider(c, p)
  <2>1. CASE KeptFor(p, QueryOf[c]) # {}
    <3>1. PICK q : Finds(c, p, q)
      BY <1>2, <2>1 DEF SearchProvider
    <3>2. \A t \in threads : t.for # c \/ p # "videos"
      BY <1>2 DEF SearchProvider, ResearchIInv, Waits
    <3>3. /\ tool' = [tool EXCEPT ![c][p] = "ok"] /\ found' = [found EXCEPT ![c][p] = q]
          /\ stage[c] = "search" /\ UNCHANGED <<threads, stage, attempts, answers, told>>
      BY <1>2, <2>1, <3>1 DEF SearchProvider, Finds
    <3>4. NowAt(c, p, "ok") /\ MayFind(c, p) /\ Unthreaded(c, p)
      BY <1>1, <3>2, <3>3 DEF NowAt, MayFind, Unthreaded
    <3> QED
      BY <3>3, <3>4, SearchOverKeeps
  <2>2. CASE KeptFor(p, QueryOf[c]) = {}
    <3>1. /\ stage[c] = "search" /\ tool[c][p] = "silent" /\ NowAt(c, p, "busy")
          /\ IF p = "web" THEN UNCHANGED threads ELSE threads' = WithThread(c)
          /\ UNCHANGED <<stage, attempts, found, answers, told>>
      BY <1>2, <2>2 DEF SearchProvider, NowAt
    <3> QED
      BY <3>1, GoesOutKeeps
  <2> QED
    BY <2>1, <2>2
<1>3. ASSUME Fail(c) PROVE ResearchIInv'
  BY <1>3, FailKeeps
<1>4. CASE SearchFails(c, p)
  <2>1. CASE KindOf[c] = "article"
    <3>1. /\ tool' = [tool EXCEPT ![c][p] = "failed"]
          /\ threads' = threads \ Waiting(c, p) /\ stage[c] = "search"
          /\ UNCHANGED <<stage, attempts, found, answers, told>>
      BY <1>4, <2>1 DEF SearchFails
    <3>2. \A t \in threads' : t \in threads /\ (p = "videos" => t.for # c)
      BY <3>1 DEF Waiting
    <3>3. UNCHANGED <<stage, attempts, answers, told>> /\ UNCHANGED found
      BY <3>1
    <3>4. NowAt(c, p, "failed") /\ MayFind(c, p) /\ Unthreaded(c, p)
      BY <1>1, <3>1, <3>2, <3>3 DEF NowAt, MayFind, Unthreaded
    <3> QED
      BY <3>1, <3>3, <3>4, SearchOverKeeps
  <2> QED
    BY <1>3, <1>4, <2>1 DEF SearchFails
<1>5. CASE NodeRaises(c, p)
  <2>1. CASE /\ tool' = [tool EXCEPT ![c][p] = "silent"]
             /\ threads' = IF p = "videos" THEN Orphaned(c) ELSE threads
             /\ UNCHANGED <<stage, attempts, found, mixed, kept, answers, told>>
    <3>1. \A t \in threads' :
            /\ t = [for |-> t.for, query |-> t.query, beside |-> t.beside]
            /\ t.for \in ToolCalls \cup {Nobody}
            /\ t.for \in ToolCalls => t \in threads
            /\ p = "videos" => t.for # c
      BY <1>1, <2>1, OrphanedThreads
    <3>2. stage[c] = "search" /\ UNCHANGED <<stage, attempts, answers, told>> /\ UNCHANGED found
      BY <1>5, <2>1 DEF NodeRaises
    <3>3. NowAt(c, p, "silent") /\ MayFind(c, p) /\ Unthreaded(c, p)
      BY <2>1, <3>1, <3>2 DEF NowAt, MayFind, Unthreaded
    <3> QED
      BY <3>2, <3>3, SearchOverKeeps
  <2> QED
    BY <1>3, <1>5, <2>1 DEF NodeRaises
<1> QED
  BY <1>2, <1>4, <1>5

LEMMA CallKeeps ==
  ASSUME NEW c \in ToolCalls, ResearchIInv,
         \/ Replay(c) \/ StartArticle(c) \/ StartSearch(c) \/ ModelAnswers(c)
         \/ ModelFails(c) \/ ToolReturns(c) \/ AnswerCaller(c) \/ TimesOut(c) \/ Leave(c)
  PROVE  ResearchIInv'
<1>1. /\ attempts \in [ToolCalls -> 0..NodeRetries] /\ NodeRetries \in Nat
      /\ \A a \in answers : a.answer.is = "answer"
      /\ stage[c] \in {"write", "return"} => Joins(c)
  BY ResearchAssumption DEF ResearchIInv, ResearchShape, ResearchTypeOK
<1>2. CASE Replay(c)
  <2>1. PICK a \in answers : told' = [told EXCEPT ![c] = a.answer]
    BY <1>2 DEF Replay
  <2> QED
    BY <1>1, <1>2, <2>1, OnwardKeeps DEF Replay, Goto
<1>3. CASE StartArticle(c)
  BY <1>1, <1>3, OnwardKeeps DEF StartArticle, Goto
<1>4. CASE StartSearch(c)
  BY <1>1, <1>4, OnwardKeeps DEF StartSearch, Goto
<1>5. CASE ModelAnswers(c)
  <2>1. /\ \/ stage[c] = "plan" /\ Goto(c, "search")
           \/ stage[c] = "search" /\ Joins(c) /\ Goto(c, "write")
           \/ stage[c] = "write" /\ Goto(c, "return")
        /\ attempts' \in [ToolCalls -> 0..NodeRetries]
        /\ UNCHANGED <<tool, again, found, threads, mixed, kept, answers, told>>
    BY <1>1, <1>5 DEF ModelAnswers
  <2> QED
    BY <1>1, <2>1, OnwardKeeps DEF Goto
<1>6. CASE ModelFails(c)
  <2>1. CASE attempts' \in [ToolCalls -> 0..NodeRetries]
             /\ UNCHANGED <<stage, tool, again, found, threads, mixed, kept, answers, told>>
    BY <2>1 DEF ResearchIInv, ResearchShape, ResearchTypeOK, Waits, Joins
  <2>2. attempts[c] < NodeRetries => [attempts EXCEPT ![c] = @ + 1] \in [ToolCalls -> 0..NodeRetries]
    BY <1>1
  <2> QED
    BY <1>6, <2>1, <2>2, FailKeeps DEF ModelFails
<1>7. CASE ToolReturns(c)
  BY <1>1, <1>7, OnwardKeeps DEF ToolReturns, Goto
<1>8. CASE AnswerCaller(c)
  <2>1. \E w : /\ told' = [told EXCEPT ![c] = w]
               /\ w = [is |-> "error"] \/ w.is = "answer"
    <3> DEFINE answer == [is |-> "answer", records |-> tool[c], found |-> found[c]]
    <3>1. answer.is = "answer"
      OBVIOUS
    <3> QED
      BY <1>8, <3>1 DEF AnswerCaller
  <2>2. \A a \in answers' : a.answer.is = "answer"
    BY <1>1, <1>8 DEF AnswerCaller
  <2> QED
    BY <1>1, <1>8, <2>1, <2>2, OnwardKeeps DEF AnswerCaller, Goto
<1>9. CASE TimesOut(c) \/ Leave(c)
  BY <1>9, FailKeeps DEF TimesOut, Leave
<1> QED
  BY <1>2, <1>3, <1>4, <1>5, <1>6, <1>7, <1>8, <1>9

LEMMA ReturnsKeep ==
  ASSUME ResearchIInv,
         \/ \E c \in ToolCalls : WebReturns(c)
         \/ \E t \in threads : \E q \in {t.query} \cup t.beside : ThreadReturns(t, q)
         \/ Expire
  PROVE  ResearchIInv'
<1>1. \A t \in threads :
        /\ t = [for |-> t.for, query |-> t.query, beside |-> t.beside]
        /\ t.for \in ToolCalls \cup {Nobody}
  BY DEF ResearchIInv, ResearchShape, ResearchTypeOK
<1>2. CASE \E c \in ToolCalls : WebReturns(c)
  <2>1. PICK c \in ToolCalls : WebReturns(c)
    BY <1>2
  <2>2. /\ NowAt(c, "web", "ok") /\ MayFind(c, "web") /\ Unthreaded(c, "web")
        /\ "web" \in Needs[c] /\ stage[c] = "search"
        /\ UNCHANGED <<stage, attempts, answers, told>>
    BY <1>1, <2>1 DEF WebReturns, Finds, NowAt, MayFind, Unthreaded
  <2> QED
    BY <2>2, SearchOverKeeps
<1>3. ASSUME NEW t \in threads, NEW q, ThreadReturns(t, q) PROVE ResearchIInv'
  <2>1. CASE t.for = Nobody
    BY <1>3, <2>1 DEF ThreadReturns, ResearchIInv, ResearchShape, ResearchTypeOK, Waits, Joins
  <2>2. CASE t.for # Nobody
    <3>1. t.for \in ToolCalls /\ "videos" \in Needs[t.for] /\ stage[t.for] = "search"
      BY <1>1, <2>2 DEF ResearchIInv, Waits
    <3>2. \A u \in threads' : u \in threads /\ u.for # t.for
      BY <1>3, <3>1 DEF ThreadReturns, ResearchIInv
    <3>3. /\ NowAt(t.for, "videos", "ok") /\ MayFind(t.for, "videos")
          /\ Unthreaded(t.for, "videos") /\ UNCHANGED <<stage, attempts, answers, told>>
      BY <1>1, <1>3, <2>2, <3>2 DEF ThreadReturns, Finds, NowAt, MayFind, Unthreaded
    <3> QED
      BY <3>1, <3>3, SearchOverKeeps
  <2> QED
    BY <2>1, <2>2
<1>4. CASE Expire
  BY <1>4 DEF Expire, ResearchIInv, ResearchShape, ResearchTypeOK, Waits, Joins
<1> QED
  BY <1>2, <1>3, <1>4

LEMMA ResearchStarts == ResearchInit => ResearchIInv
<1> SUFFICES ASSUME ResearchInit PROVE ResearchIInv
  OBVIOUS
<1>1. ResearchShape
  BY ResearchAssumption DEF ResearchInit, ResearchShape, ResearchTypeOK, Untold
<1> QED
  BY <1>1 DEF ResearchInit, ResearchIInv

LEMMA ResearchSteps ==
  ASSUME ResearchIInv, [ResearchNext]_researchVars
  PROVE  ResearchIInv'
<1>1. CASE UNCHANGED researchVars
  BY <1>1 DEF researchVars, ResearchIInv, ResearchShape, ResearchTypeOK, Waits, Joins
<1> QED
  BY <1>1, SearchKeeps, CallKeeps, ReturnsKeep DEF ResearchNext

LEMMA ResearchIInvAlways == ResearchSpec => []ResearchIInv
BY ResearchStarts, ResearchSteps, PTL DEF ResearchSpec

\* Type correctness of the calls, their searches and the threads.
THEOREM ResearchTypes == ResearchSpec => []ResearchTypeOK
<1>1. ResearchIInv => ResearchTypeOK
  BY DEF ResearchIInv, ResearchShape
<1> QED
  BY <1>1, ResearchIInvAlways, PTL

----------------------------------------------------------------------------
(* Results are own *)

\* A record says what was found for the query of c, or for one it may have
\* been mixed up with.
TrueFor(records, results, c) ==
  \A p \in Needs[c] :
    IF records[p] = "ok" THEN MayPassFor(p, QueryOf[c], results[p]) ELSE results[p] = None

\* What a thread may read was on the wire beside its own search.
BesideMixed == \A t \in threads : \A q \in t.beside : <<t.query, q>> \in mixed

KeptAreOwn == \A k \in kept : MayPassFor(k.provider, k.query, k.found)

FoundAreOwn == \A c \in ToolCalls : TrueFor(tool[c], found[c], c)

AnswersAreOwn ==
  \A a \in answers : \A c \in ToolCalls :
    a.of = RequestOf[c] => TrueFor(a.answer.records, a.answer.found, c)

ToldAreOwn ==
  \A c \in ToolCalls : told[c].is = "answer" => TrueFor(told[c].records, told[c].found, c)

OwnInv == BesideMixed /\ KeptAreOwn /\ FoundAreOwn /\ AnswersAreOwn /\ ToldAreOwn

\* Queries that were on the wire at once stay so: what may pass for a result
\* still does after a step.
LEMMA StaysTrue ==
  ASSUME mixed \subseteq mixed', NEW c \in ToolCalls, NEW records, NEW results,
         TrueFor(records, results, c)
  PROVE  \A p \in Needs[c] :
           IF records[p] = "ok"
           THEN results[p] = QueryOf[c] \/ (p = "videos" /\ <<QueryOf[c], results[p]>> \in mixed')
           ELSE results[p] = None
BY DEF TrueFor, MayPassFor

\* One request, one query and one set of providers.
LEMMA SameRequest ==
  ASSUME NEW c \in ToolCalls, NEW d \in ToolCalls, RequestOf[c] = RequestOf[d],
         NEW records, NEW results, TrueFor(records, results, c)
  PROVE  TrueFor(records, results, d)
<1>1. KindOf[c] = KindOf[d] /\ QueryOf[c] = QueryOf[d]
  BY DEF RequestOf
<1>2. Needs[c] = Needs[d]
  BY <1>1 DEF Needs
<1> QED
  BY <1>1, <1>2 DEF TrueFor

LEMMA FailOwn ==
  ASSUME NEW c \in ToolCalls, ResearchIInv, OwnInv, Fail(c)
  PROVE  OwnInv'
<1>1. /\ told' = [told EXCEPT ![c] = [is |-> "error"]] /\ threads' = Orphaned(c)
      /\ UNCHANGED <<tool, found, mixed, kept, answers>>
  BY DEF Fail
<1>2. BesideMixed'
  BY <1>1, OrphanedThreads DEF OwnInv, BesideMixed
<1>3. ToldAreOwn'
  BY <1>1 DEF OwnInv, ToldAreOwn, TrueFor, MayPassFor, ResearchIInv, ResearchShape
<1> QED
  BY <1>1, <1>2, <1>3 DEF OwnInv, KeptAreOwn, FoundAreOwn, AnswersAreOwn, TrueFor, MayPassFor

LEMMA AnswerOwn ==
  ASSUME NEW c \in ToolCalls, ResearchIInv, OwnInv, AnswerCaller(c)
  PROVE  OwnInv'
<1> DEFINE answer == [is |-> "answer", records |-> tool[c], found |-> found[c]]
<1>1. /\ answers' \in {answers, answers \cup {[of |-> RequestOf[c], answer |-> answer]}}
      /\ told' \in {[told EXCEPT ![c] = answer], [told EXCEPT ![c] = [is |-> "error"]]}
      /\ UNCHANGED <<tool, found, threads, mixed, kept>>
  BY DEF AnswerCaller
<1>3. answer.records = tool[c] /\ answer.found = found[c] /\ TrueFor(tool[c], found[c], c)
  BY DEF OwnInv, FoundAreOwn
<1> HIDE DEF answer
<1>4. AnswersAreOwn'
  <2>1. SUFFICES ASSUME NEW a \in answers', NEW d \in ToolCalls, a.of = RequestOf[d]
                 PROVE  TrueFor(a.answer.records, a.answer.found, d)
    BY <1>1 DEF AnswersAreOwn, TrueFor, MayPassFor
  <2>2. CASE a \in answers
    BY <2>1, <2>2 DEF OwnInv, AnswersAreOwn
  <2>3. CASE a = [of |-> RequestOf[c], answer |-> answer]
    BY <1>3, <2>1, <2>3, SameRequest
  <2> QED
    BY <1>1, <2>2, <2>3
<1>5. ToldAreOwn'
  <2>1. SUFFICES ASSUME NEW d \in ToolCalls, told'[d].is = "answer"
                 PROVE  TrueFor(told'[d].records, told'[d].found, d)
    BY <1>1 DEF ToldAreOwn, TrueFor, MayPassFor
  <2>2. told'[d] = told[d] \/ (d = c /\ told'[d] \in {answer, [is |-> "error"]})
    BY <1>1 DEF ResearchIInv, ResearchShape
  <2> QED
    BY <1>3, <2>1, <2>2 DEF OwnInv, ToldAreOwn
<1> QED
  BY <1>1, <1>4, <1>5 DEF OwnInv, BesideMixed, KeptAreOwn, FoundAreOwn, TrueFor, MayPassFor

\* What was kept, answered and told stays true while the queries that were on
\* the wire at once can only become more.
LEMMA UntouchedOwn ==
  ASSUME OwnInv, mixed \subseteq mixed', UNCHANGED told, NEW S, kept' = S, S \subseteq kept,
         NEW R, answers' = R, R \subseteq answers
  PROVE  KeptAreOwn' /\ AnswersAreOwn' /\ ToldAreOwn'
<1>1. KeptAreOwn'
  BY DEF OwnInv, KeptAreOwn, MayPassFor
<1>2. AnswersAreOwn'
  <2>1. SUFFICES ASSUME NEW a \in answers', NEW c \in ToolCalls, a.of = RequestOf[c],
                        NEW p \in Needs[c]
                 PROVE  IF a.answer.records[p] = "ok"
                        THEN \/ a.answer.found[p] = QueryOf[c]
                             \/ p = "videos" /\ <<QueryOf[c], a.answer.found[p]>> \in mixed'
                        ELSE a.answer.found[p] = None
    BY DEF AnswersAreOwn, TrueFor, MayPassFor
  <2>2. TrueFor(a.answer.records, a.answer.found, c)
    BY <2>1 DEF OwnInv, AnswersAreOwn
  <2> QED
    BY <2>2, StaysTrue
<1>3. ToldAreOwn'
  <2>1. SUFFICES ASSUME NEW c \in ToolCalls, told[c].is = "answer", NEW p \in Needs[c]
                 PROVE  IF told[c].records[p] = "ok"
                        THEN \/ told[c].found[p] = QueryOf[c]
                             \/ p = "videos" /\ <<QueryOf[c], told[c].found[p]>> \in mixed'
                        ELSE told[c].found[p] = None
    BY DEF ToldAreOwn, TrueFor, MayPassFor
  <2>2. TrueFor(told[c].records, told[c].found, c)
    BY <2>1 DEF OwnInv, ToldAreOwn
  <2> QED
    BY <2>2, StaysTrue
<1> QED
  BY <1>1, <1>2, <1>3

\* A search of c with p is recorded as w, and if that is "ok", with results
\* that may pass for its own.
LEMMA RecordOwn ==
  ASSUME NEW c \in ToolCalls, NEW p \in Needs[c], ResearchIInv, OwnInv,
         mixed \subseteq mixed',
         NEW w, tool' = [tool EXCEPT ![c][p] = w],
         IF w = "ok"
         THEN \E r : MayPassFor(p, QueryOf[c], r) /\ found' = [found EXCEPT ![c][p] = r]
         ELSE UNCHANGED found /\ tool[c][p] # "ok"
  PROVE  FoundAreOwn'
<1>1. SUFFICES ASSUME NEW d \in ToolCalls, NEW e \in Needs[d]
               PROVE  IF tool'[d][e] = "ok"
                      THEN \/ found'[d][e] = QueryOf[d]
                           \/ e = "videos" /\ <<QueryOf[d], found'[d][e]>> \in mixed'
                      ELSE found'[d][e] = None
  BY DEF FoundAreOwn, TrueFor, MayPassFor
<1>2. TrueFor(tool[d], found[d], d)
  BY DEF OwnInv, FoundAreOwn
<1>3. IF tool[d][e] = "ok"
      THEN \/ found[d][e] = QueryOf[d]
           \/ e = "videos" /\ <<QueryOf[d], found[d][e]>> \in mixed'
      ELSE found[d][e] = None
  BY <1>2, StaysTrue
<1>4. CASE d = c /\ e = p
  <2>1. tool'[c][p] = w
    BY DEF ResearchIInv, ResearchShape, ResearchTypeOK
  <2>2. CASE w = "ok"
    <3>1. PICK r : MayPassFor(p, QueryOf[c], r) /\ found' = [found EXCEPT ![c][p] = r]
      BY <2>2
    <3>2. found'[c][p] = r
      BY <3>1 DEF ResearchIInv, ResearchShape
    <3> QED
      BY <1>4, <2>1, <2>2, <3>1, <3>2 DEF MayPassFor
  <2>3. CASE w # "ok"
    <3>1. UNCHANGED found /\ tool[c][p] # "ok"
      BY <2>3
    <3>2. found[c][p] = None
      BY <1>3, <1>4, <3>1
    <3> QED
      BY <1>4, <2>1, <2>3, <3>1, <3>2
  <2> QED
    BY <2>2, <2>3
<1>5. CASE d # c \/ e # p
  <2>1. tool'[d][e] = tool[d][e]
    BY <1>5 DEF ResearchIInv, ResearchShape, ResearchTypeOK
  <2>2. PICK r : found' \in {found, [found EXCEPT ![c][p] = r]}
    OBVIOUS
  <2>3. found'[d][e] = found[d][e]
    BY <1>5, <2>2 DEF ResearchIInv, ResearchShape
  <2> QED
    BY <1>3, <2>1, <2>3
<1> QED
  BY <1>4, <1>5

\* A search of c with p begins or ends: what the adapters hold may pass for
\* its own, and a thread joins those on the wire.
LEMMA SearchOwn ==
  ASSUME NEW c \in ToolCalls, NEW p \in Needs[c], ResearchIInv, OwnInv,
         SearchProvider(c, p) \/ SearchFails(c, p) \/ NodeRaises(c, p)
  PROVE  OwnInv'
<1>1. CASE Fail(c)
  BY <1>1, FailOwn
<1>2. CASE SearchProvider(c, p)
  <2>1. mixed \subseteq mixed' /\ UNCHANGED <<kept, answers, told>>
    BY <1>2 DEF SearchProvider
  <2>2. BesideMixed'
    <3>1. CASE UNCHANGED threads
      BY <2>1, <3>1 DEF OwnInv, BesideMixed
    <3>2. CASE threads' = WithThread(c) /\ mixed' = mixed \cup Beside(c)
      <4>1. \A t \in threads : <<QueryOf[c], t.query>> \in Beside(c)
                                 /\ <<t.query, QueryOf[c]>> \in Beside(c)
        BY DEF Beside
      <4>2. SUFFICES ASSUME NEW u \in WithThread(c), NEW q \in u.beside
                     PROVE  <<u.query, q>> \in mixed \cup Beside(c)
        BY <3>2 DEF BesideMixed
      <4>3. CASE u = [for |-> c, query |-> QueryOf[c], beside |-> {t.query : t \in threads}]
        BY <4>1, <4>2, <4>3
      <4>4. CASE \E t \in threads : u = [t EXCEPT !.beside = @ \cup {QueryOf[c]}]
        <5>1. PICK t \in threads : u = [t EXCEPT !.beside = @ \cup {QueryOf[c]}]
          BY <4>4
        <5>2. u.query = t.query /\ u.beside = t.beside \cup {QueryOf[c]}
          BY <5>1 DEF ResearchIInv, ResearchShape
        <5> QED
          BY <4>1, <4>2, <5>2 DEF OwnInv, BesideMixed
      <4> QED
        BY <4>2, <4>3, <4>4 DEF WithThread
    <3> QED
      BY <1>2, <3>1, <3>2 DEF SearchProvider
  <2>3. FoundAreOwn'
    <3>1. CASE KeptFor(p, QueryOf[c]) # {}
      <4>1. PICK k \in KeptFor(p, QueryOf[c]) : Finds(c, p, k.found)
        BY <1>2, <3>1 DEF SearchProvider
      <4>2. MayPassFor(p, QueryOf[c], k.found)
        BY DEF OwnInv, KeptAreOwn, KeptFor
      <4> QED
        BY <2>1, <4>1, <4>2, RecordOwn DEF Finds
    <3>2. CASE KeptFor(p, QueryOf[c]) = {}
      BY <1>2, <2>1, <3>2, RecordOwn DEF SearchProvider
    <3> QED
      BY <3>1, <3>2
  <2> QED
    BY <2>1, <2>2, <2>3, UntouchedOwn DEF OwnInv
<1>3. CASE (SearchFails(c, p) \/ NodeRaises(c, p)) /\ ~Fail(c)
  <2>1. UNCHANGED <<found, mixed, kept, answers, told>> /\ tool[c][p] # "ok"
    BY <1>3 DEF SearchFails, NodeRaises
  <2>2. \E w \in {"failed", "silent"} : tool' = [tool EXCEPT ![c][p] = w]
    BY <1>3 DEF SearchFails, NodeRaises
  <2>3. FoundAreOwn'
    BY <2>1, <2>2, RecordOwn
  <2>4. BesideMixed'
    <3>1. threads' \subseteq threads \/ threads' = Orphaned(c)
      BY <1>3 DEF SearchFails, NodeRaises
    <3> QED
      BY <2>1, <3>1, OrphanedThreads DEF OwnInv, BesideMixed
  <2> QED
    BY <2>1, <2>3, <2>4, UntouchedOwn DEF OwnInv
<1> QED
  BY <1>1, <1>2, <1>3

\* What a search finds is kept under what it asked for.
LEMMA FindsOwn ==
  ASSUME NEW c \in ToolCalls, NEW p \in Needs[c], NEW q, ResearchIInv, OwnInv,
         UNCHANGED mixed, MayPassFor(p, QueryOf[c], q),
         Finds(c, p, q), Keeps(p, QueryOf[c], q)
  PROVE  KeptAreOwn' /\ FoundAreOwn'
<1>1. KeptAreOwn'
  <2>1. SUFFICES ASSUME NEW k \in kept'
                 PROVE  \/ k.found = k.query
                        \/ k.provider = "videos" /\ <<k.query, k.found>> \in mixed
    BY DEF KeptAreOwn, MayPassFor
  <2>2. CASE k \in kept
    BY <2>2 DEF OwnInv, KeptAreOwn, MayPassFor
  <2>3. CASE k = [provider |-> p, query |-> QueryOf[c], found |-> q]
    BY <2>3 DEF MayPassFor
  <2> QED
    BY <2>2, <2>3 DEF Keeps
<1>2. FoundAreOwn'
  BY RecordOwn DEF Finds
<1> QED
  BY <1>1, <1>2

LEMMA ReturnsOwn ==
  ASSUME ResearchIInv, OwnInv,
         \/ \E c \in ToolCalls : WebReturns(c)
         \/ \E t \in threads : \E q \in {t.query} \cup t.beside : ThreadReturns(t, q)
         \/ Expire
  PROVE  OwnInv'
<1>1. /\ UNCHANGED <<mixed, told>> /\ answers' \subseteq answers
      /\ threads' \subseteq threads
  BY DEF WebReturns, ThreadReturns, Expire
<1>2. BesideMixed' /\ AnswersAreOwn' /\ ToldAreOwn'
  BY <1>1 DEF OwnInv, BesideMixed, AnswersAreOwn, ToldAreOwn, TrueFor, MayPassFor
<1>3. ASSUME NEW c \in ToolCalls, WebReturns(c) PROVE KeptAreOwn' /\ FoundAreOwn'
  BY <1>1, <1>3, FindsOwn DEF WebReturns, MayPassFor
<1>4. ASSUME NEW t \in threads, NEW q \in {t.query} \cup t.beside, ThreadReturns(t, q)
      PROVE  KeptAreOwn' /\ FoundAreOwn'
  <2>1. MayPassFor("videos", t.query, q)
    BY DEF OwnInv, BesideMixed, MayPassFor
  <2>2. CASE t.for = Nobody
    BY <1>1, <1>4, <2>2 DEF ThreadReturns, OwnInv, KeptAreOwn, FoundAreOwn, TrueFor, MayPassFor
  <2>3. CASE t.for # Nobody
    <3>1. t.for \in ToolCalls /\ "videos" \in Needs[t.for] /\ t.query = QueryOf[t.for]
      BY <2>3 DEF ResearchIInv, ResearchShape, ResearchTypeOK, Waits
    <3> QED
      BY <1>1, <1>4, <2>1, <2>3, <3>1, FindsOwn DEF ThreadReturns
  <2> QED
    BY <2>2, <2>3
<1>5. CASE Expire
  <2>1. kept' \subseteq kept /\ UNCHANGED <<tool, found>>
    BY <1>5 DEF Expire
  <2> QED
    BY <1>1, <1>2, <2>1 DEF OwnInv, KeptAreOwn, FoundAreOwn, TrueFor, MayPassFor
<1> QED
  BY <1>2, <1>3, <1>4, <1>5 DEF OwnInv

LEMMA CallOwn ==
  ASSUME NEW c \in ToolCalls, ResearchIInv, OwnInv,
         \/ Replay(c) \/ StartArticle(c) \/ StartSearch(c) \/ ModelAnswers(c)
         \/ ModelFails(c) \/ ToolReturns(c) \/ AnswerCaller(c) \/ TimesOut(c) \/ Leave(c)
  PROVE  OwnInv'
<1>1. CASE Replay(c)
  <2>1. PICK a \in answers : a.of = RequestOf[c] /\ told' = [told EXCEPT ![c] = a.answer]
    BY <1>1 DEF Replay
  <2>2. UNCHANGED <<tool, found, threads, mixed, kept, answers>>
    BY <1>1 DEF Replay
  <2>3. SUFFICES ToldAreOwn'
    BY <2>2 DEF OwnInv, BesideMixed, KeptAreOwn, FoundAreOwn, AnswersAreOwn, TrueFor, MayPassFor
  <2>4. SUFFICES ASSUME NEW d \in ToolCalls, told'[d].is = "answer"
                 PROVE  TrueFor(told'[d].records, told'[d].found, d)
    BY <2>2 DEF ToldAreOwn, TrueFor, MayPassFor
  <2>5. told'[d] = IF d = c THEN a.answer ELSE told[d]
    BY <2>1 DEF ResearchIInv, ResearchShape
  <2> QED
    BY <2>1, <2>4, <2>5 DEF OwnInv, ToldAreOwn, AnswersAreOwn
<1>2. ASSUME UNCHANGED <<tool, found, threads, mixed, kept, answers, told>> PROVE OwnInv'
  BY <1>2 DEF OwnInv, BesideMixed, KeptAreOwn, FoundAreOwn, AnswersAreOwn, ToldAreOwn, TrueFor,
              MayPassFor
<1>3. CASE StartArticle(c) \/ StartSearch(c) \/ ModelAnswers(c) \/ ToolReturns(c)
  BY <1>2, <1>3 DEF StartArticle, StartSearch, ModelAnswers, ToolReturns
<1>4. CASE ModelFails(c) \/ TimesOut(c) \/ Leave(c)
  BY <1>2, <1>4, FailOwn DEF ModelFails, TimesOut, Leave
<1>5. CASE AnswerCaller(c)
  BY <1>5, AnswerOwn
<1> QED
  BY <1>1, <1>3, <1>4, <1>5

\* A call is told what was found for its own query, or what a video search for
\* it read while a search for another was on the connection: through both
\* caches, and however many threads outlived the calls that started them.
THEOREM ToldResultsAreOwn == ResearchSpec => []ResultsAreOwn
<1>1. ResearchInit => OwnInv
  BY DEF ResearchInit, OwnInv, BesideMixed, KeptAreOwn, FoundAreOwn, AnswersAreOwn, ToldAreOwn,
         TrueFor, Untold
<1>2. ASSUME ResearchIInv, OwnInv, [ResearchNext]_researchVars PROVE OwnInv'
  <2>1. CASE UNCHANGED researchVars
    BY <1>2, <2>1 DEF researchVars, OwnInv, BesideMixed, KeptAreOwn, FoundAreOwn, AnswersAreOwn,
                      ToldAreOwn, TrueFor, MayPassFor
  <2> QED
    BY <1>2, <2>1, SearchOwn, CallOwn, ReturnsOwn DEF ResearchNext
<1>3. OwnInv => ResultsAreOwn
  BY DEF OwnInv, ToldAreOwn, TrueFor, ResultsAreOwn
<1> QED
  BY <1>1, <1>2, <1>3, ResearchIInvAlways, PTL DEF ResearchSpec

----------------------------------------------------------------------------
(* ResearchPromise *)

\* What ResearchPromise sees of a state is made of these three variables.
LEMMA PromiseStutters ==
  ASSUME UNCHANGED <<tool, answers, told>>
  PROVE  UNCHANGED <<Reported, Made, Outlines>>
BY DEF Reported, Made, Outlines

LEMMA ToolStep ==
  ASSUME ResearchIInv, NEW c \in ToolCalls, NEW p \in Needs[c],
         NEW w \in {"silent", "busy", "ok", "failed"}, NowAt(c, p, w)
  PROVE  Reported' = [Reported EXCEPT ![c][p] = ReportOf(w)]
<1>1. /\ tool = [d \in ToolCalls |-> tool[d]]
      /\ \A d \in ToolCalls : tool[d] \in [Needs[d] -> {"silent", "busy", "ok", "failed"}]
  BY DEF ResearchIInv, ResearchShape, ResearchTypeOK
<1>2. /\ \A d \in ToolCalls \ {c} : tool'[d] = tool[d]
      /\ \A e \in Needs[c] \ {p} : tool'[c][e] = tool[c][e]
      /\ tool'[c][p] = w
  BY <1>1 DEF NowAt
<1>3. \A d \in ToolCalls \ {c} :
        [e \in Needs[d] |-> ReportOf(tool'[d][e])] = [e \in Needs[d] |-> ReportOf(tool[d][e])]
  BY <1>2
<1>4. [e \in Needs[c] |-> ReportOf(tool'[c][e])] =
        [[e \in Needs[c] |-> ReportOf(tool[c][e])] EXCEPT ![p] = ReportOf(w)]
  BY <1>2
<1>5. Reported' = [d \in ToolCalls |-> [e \in Needs[d] |-> ReportOf(tool'[d][e])]]
  BY DEF Reported
<1>6. Reported = [d \in ToolCalls |-> [e \in Needs[d] |-> ReportOf(tool[d][e])]]
  BY DEF Reported
<1>7. [Reported EXCEPT ![c][p] = ReportOf(w)] =
        [d \in ToolCalls |-> IF d = c THEN [Reported[c] EXCEPT ![p] = ReportOf(w)] ELSE Reported[d]]
  BY <1>6
<1>8. /\ Reported[c] = [e \in Needs[c] |-> ReportOf(tool[c][e])]
      /\ \A d \in ToolCalls : Reported[d] = [e \in Needs[d] |-> ReportOf(tool[d][e])]
  BY <1>6
<1> QED
  BY <1>3, <1>4, <1>5, <1>7, <1>8

LEMMA ToldStep ==
  ASSUME ResearchIInv, NEW c \in ToolCalls, NEW w, told' = [told EXCEPT ![c] = w]
  PROVE  Outlines' = [Outlines EXCEPT ![c] = Outline(w)]
BY DEF Outlines, ResearchIInv, ResearchShape

LEMMA OutlineIs ==
  ASSUME ResearchIInv, NEW c \in ToolCalls
  PROVE  /\ stage[c] # "done" => Outlines[c] = Untold
         /\ Outline([is |-> "error"]) = [is |-> "error"]
         /\ \A p \in Needs[c] : Reported[c][p] = ReportOf(tool[c][p])
         /\ Reported[c] = [p \in Needs[c] |-> ReportOf(tool[c][p])]
<1>1. stage[c] # "done" => told[c] = Untold
  BY DEF ResearchIInv
<1>2. Outline(Untold) = Untold /\ Outline([is |-> "error"]) = [is |-> "error"]
  BY DEF Outline, Untold
<1> QED
  BY <1>1, <1>2 DEF Outlines, Reported

LEMMA FailPromise ==
  ASSUME ResearchIInv, NEW c \in ToolCalls, stage[c] # "done", Fail(c)
  PROVE  Promise!Next
<1>1. told' = [told EXCEPT ![c] = [is |-> "error"]] /\ UNCHANGED <<tool, answers>>
  BY DEF Fail
<1>2. UNCHANGED <<Reported, Made>>
  BY <1>1 DEF Reported, Made
<1>3. Outlines' = [Outlines EXCEPT ![c] = [is |-> "error"]]
  BY <1>1, ToldStep, OutlineIs
<1>4. Promise!Fail(c)
  BY <1>2, <1>3, OutlineIs DEF Promise!Fail, Promise!Untold, Untold
<1> QED
  BY <1>4 DEF Promise!Next

\* A search that has not reported reports.
LEMMA ReportPromise ==
  ASSUME ResearchIInv, NEW c \in ToolCalls, NEW p \in Needs[c], NEW w \in {"ok", "failed"},
         NowAt(c, p, w), tool[c][p] \notin {"ok", "failed"}, stage[c] # "done",
         UNCHANGED <<answers, told>>
  PROVE  Promise!Next
<1>1. UNCHANGED <<Made, Outlines>>
  BY DEF Made, Outlines
<1>2. Reported[c][p] = "silent" /\ Reported' = [Reported EXCEPT ![c][p] = w]
  <2>1. ReportOf(w) = w /\ ReportOf(tool[c][p]) = "silent" /\ w \in {"silent", "busy", "ok", "failed"}
    BY DEF ReportOf
  <2>2. Reported' = [Reported EXCEPT ![c][p] = ReportOf(w)]
    BY <2>1, ToolStep
  <2> QED
    BY <2>1, <2>2, OutlineIs
<1>3. Promise!Report(c)
  BY <1>1, <1>2, OutlineIs DEF Promise!Report, Promise!Untold, Promise!Silent, Untold
<1> QED
  BY <1>3 DEF Promise!Next

\* A search begins, or will be tried again: nothing is reported.
LEMMA SilentPromise ==
  ASSUME ResearchIInv, NEW c \in ToolCalls, NEW p \in Needs[c], NEW w \in {"silent", "busy"},
         NowAt(c, p, w), tool[c][p] \in {"silent", "busy"}, UNCHANGED <<answers, told>>
  PROVE  UNCHANGED <<Reported, Made, Outlines>>
<1>1. UNCHANGED <<Made, Outlines>>
  BY DEF Made, Outlines
<1>2. Reported' = [Reported EXCEPT ![c][p] = "silent"] /\ Reported[c][p] = "silent"
  <2>1. ReportOf(w) = "silent" /\ ReportOf(tool[c][p]) = "silent" /\ w \in {"silent", "busy", "ok", "failed"}
    BY DEF ReportOf
  <2>2. Reported' = [Reported EXCEPT ![c][p] = ReportOf(w)]
    BY <2>1, ToolStep
  <2> QED
    BY <2>1, <2>2, OutlineIs
<1>3. /\ Reported = [d \in ToolCalls |-> Reported[d]]
      /\ Reported[c] = [e \in Needs[c] |-> Reported[c][e]]
  BY DEF Reported
<1>4. [Reported[c] EXCEPT ![p] = "silent"] = Reported[c]
  BY <1>2, <1>3
<1>5. [Reported EXCEPT ![c] = Reported[c]] = Reported
  BY <1>3
<1> QED
  BY <1>1, <1>2, <1>4, <1>5

LEMMA SearchPromise ==
  ASSUME ResearchIInv, NEW c \in ToolCalls, NEW p \in Needs[c],
         SearchProvider(c, p) \/ SearchFails(c, p) \/ NodeRaises(c, p)
  PROVE  [Promise!Next]_(Promise!promiseVars)
<1> USE DEF Promise!promiseVars
<1>1. CASE Fail(c)
  <2>1. stage[c] # "done"
    BY DEF SearchProvider, SearchFails, NodeRaises
  <2> QED
    BY <1>1, <2>1, FailPromise
<1>2. CASE SearchProvider(c, p)
  <2>1. stage[c] # "done" /\ tool[c][p] = "silent" /\ UNCHANGED <<answers, told>>
    BY <1>2 DEF SearchProvider
  <2>2. NowAt(c, p, "ok") \/ NowAt(c, p, "busy")
    BY <1>2 DEF SearchProvider, Finds, NowAt
  <2> QED
    BY <2>1, <2>2, ReportPromise, SilentPromise
<1>3. CASE SearchFails(c, p) /\ ~Fail(c)
  <2>1. /\ stage[c] # "done" /\ tool[c][p] = "busy" /\ NowAt(c, p, "failed")
        /\ UNCHANGED <<answers, told>>
    BY <1>3 DEF SearchFails, NowAt
  <2> QED
    BY <2>1, ReportPromise
<1>4. CASE NodeRaises(c, p) /\ ~Fail(c)
  <2>1. tool[c][p] = "busy" /\ NowAt(c, p, "silent") /\ UNCHANGED <<answers, told>>
    BY <1>4 DEF NodeRaises, NowAt
  <2> QED
    BY <2>1, SilentPromise
<1> QED
  BY <1>1, <1>2, <1>3, <1>4

\* A call that returns has heard from every search, and its answer is made of
\* what they said.
LEMMA AnswerPromise ==
  ASSUME ResearchIInv, NEW c \in ToolCalls, AnswerCaller(c)
  PROVE  Promise!Next
<1> DEFINE answer == [is |-> "answer", records |-> tool[c], found |-> found[c]]
<1>1. /\ stage[c] = "return" /\ UNCHANGED tool
      /\ answers' \in {answers, answers \cup {[of |-> RequestOf[c], answer |-> answer]}}
      /\ told' \in {[told EXCEPT ![c] = answer], [told EXCEPT ![c] = [is |-> "error"]]}
  BY DEF AnswerCaller
<1>2. Joins(c) /\ tool[c] \in [Needs[c] -> {"silent", "busy", "ok", "failed"}]
  BY <1>1 DEF ResearchIInv, ResearchShape, ResearchTypeOK
<1>3. Reported[c] = tool[c] /\ \A p \in Needs[c] : Reported[c][p] # "silent"
  <2>1. \A p \in Needs[c] : ReportOf(tool[c][p]) = tool[c][p] /\ tool[c][p] # "silent"
    BY <1>2 DEF Joins, ReportOf
  <2>2. [p \in Needs[c] |-> ReportOf(tool[c][p])] = tool[c]
    BY <1>2, <2>1
  <2> QED
    BY <2>1, <2>2, OutlineIs
<1>4. answer.records = tool[c] /\ answer.is = "answer"
  OBVIOUS
<1> HIDE DEF answer
<1>5. Outline(answer) = [is |-> "answer", records |-> Reported[c]]
  BY <1>3, <1>4 DEF Outline
<1>6. UNCHANGED Reported
  BY <1>1 DEF Reported
<1>7. Made' \in {Made, Made \cup {[of |-> RequestOf[c], records |-> Reported[c]]}}
  <2>1. CASE answers' = answers
    BY <2>1 DEF Made
  <2>2. CASE answers' = answers \cup {[of |-> RequestOf[c], answer |-> answer]}
    BY <1>3, <1>4, <2>2 DEF Made
  <2> QED
    BY <1>1, <2>1, <2>2
<1>8. \/ Outlines' = [Outlines EXCEPT ![c] = [is |-> "answer", records |-> Reported[c]]]
      \/ Outlines' = [Outlines EXCEPT ![c] = [is |-> "error"]]
  <2>1. CASE told' = [told EXCEPT ![c] = answer]
    BY <1>5, <2>1, ToldStep
  <2>2. CASE told' = [told EXCEPT ![c] = [is |-> "error"]]
    BY <2>2, ToldStep, OutlineIs
  <2> QED
    BY <1>1, <2>1, <2>2
<1>9. Promise!Make(c)
  BY <1>1, <1>3, <1>6, <1>7, <1>8, OutlineIs
     DEF Promise!Make, Promise!Answers, Promise!Untold, Promise!Silent, Untold
<1> QED
  BY <1>9 DEF Promise!Next

LEMMA ReplayPromise ==
  ASSUME ResearchIInv, NEW c \in ToolCalls, Replay(c)
  PROVE  Promise!Next
<1>1. PICK a \in answers : a.of = RequestOf[c] /\ told' = [told EXCEPT ![c] = a.answer]
  BY DEF Replay
<1>2. stage[c] # "done" /\ UNCHANGED <<tool, answers>>
  BY DEF Replay
<1>3. Outline(a.answer) = [is |-> "answer", records |-> a.answer.records]
  BY DEF ResearchIInv, ResearchShape, Outline
<1> DEFINE b == [of |-> a.of, records |-> a.answer.records]
<1>4. b \in Made /\ b.of = RequestOf[c] /\ b.records = a.answer.records
  BY <1>1 DEF Made
<1> HIDE DEF b
<1>5. UNCHANGED <<Reported, Made>>
  BY <1>2 DEF Reported, Made
<1>6. Outlines' = [Outlines EXCEPT ![c] = [is |-> "answer", records |-> b.records]]
  BY <1>1, <1>3, <1>4, ToldStep
<1>7. Promise!Repeat(c)
  BY <1>2, <1>4, <1>5, <1>6, OutlineIs DEF Promise!Repeat, Promise!Answers, Promise!Untold, Untold
<1> QED
  BY <1>7 DEF Promise!Next

LEMMA CallPromise ==
  ASSUME ResearchIInv, NEW c \in ToolCalls,
         \/ Replay(c) \/ StartArticle(c) \/ StartSearch(c) \/ ModelAnswers(c)
         \/ ModelFails(c) \/ ToolReturns(c) \/ AnswerCaller(c) \/ TimesOut(c) \/ Leave(c)
  PROVE  [Promise!Next]_(Promise!promiseVars)
<1>1. CASE UNCHANGED <<tool, answers, told>>
  BY <1>1, PromiseStutters DEF Promise!promiseVars
<1>2. CASE Fail(c) /\ stage[c] # "done"
  BY <1>2, FailPromise
<1>3. CASE Replay(c)
  BY <1>3, ReplayPromise
<1>4. CASE AnswerCaller(c)
  BY <1>4, AnswerPromise
<1>5. CASE StartArticle(c) \/ StartSearch(c) \/ ModelAnswers(c) \/ ToolReturns(c)
  BY <1>1, <1>5 DEF StartArticle, StartSearch, ModelAnswers, ToolReturns
<1>6. CASE ModelFails(c) \/ TimesOut(c) \/ Leave(c)
  BY <1>1, <1>2, <1>6 DEF ModelFails, TimesOut, Leave
<1> QED
  BY <1>3, <1>4, <1>5, <1>6

LEMMA ReturnsPromise ==
  ASSUME ResearchIInv,
         \/ \E c \in ToolCalls : WebReturns(c)
         \/ \E t \in threads : \E q \in {t.query} \cup t.beside : ThreadReturns(t, q)
         \/ Expire
  PROVE  [Promise!Next]_(Promise!promiseVars)
<1>1. ASSUME NEW c \in ToolCalls, WebReturns(c) PROVE Promise!Next
  <2>1. /\ stage[c] # "done" /\ "web" \in Needs[c] /\ tool[c]["web"] = "busy"
        /\ NowAt(c, "web", "ok") /\ UNCHANGED <<answers, told>>
    BY <1>1 DEF WebReturns, Finds, NowAt
  <2> QED
    BY <2>1, ReportPromise
<1>2. ASSUME NEW t \in threads, NEW q, ThreadReturns(t, q)
      PROVE  [Promise!Next]_(Promise!promiseVars)
  <2>1. CASE t.for = Nobody
    BY <1>2, <2>1, PromiseStutters DEF ThreadReturns, Promise!promiseVars
  <2>2. CASE t.for # Nobody
    <3>1. /\ t.for \in ToolCalls /\ "videos" \in Needs[t.for] /\ stage[t.for] # "done"
          /\ tool[t.for]["videos"] = "busy"
      BY <2>2 DEF ResearchIInv, ResearchShape, ResearchTypeOK, Waits
    <3>2. NowAt(t.for, "videos", "ok") /\ UNCHANGED <<answers, told>>
      BY <1>2, <2>2 DEF ThreadReturns, Finds, NowAt
    <3> QED
      BY <3>1, <3>2, ReportPromise
  <2> QED
    BY <2>1, <2>2
<1>3. CASE Expire
  <2>1. UNCHANGED <<tool, told>> /\ \A a \in answers' : a \in answers
    BY <1>3 DEF Expire
  <2>2. UNCHANGED <<Reported, Outlines>> /\ Made' \in SUBSET Made
    BY <2>1 DEF Reported, Outlines, Made
  <2>3. Promise!Forget
    BY <2>2 DEF Promise!Forget
  <2> QED
    BY <2>3 DEF Promise!Next
<1> QED
  BY <1>1, <1>2, <1>3

\* Every behaviour is one of ResearchPromise: an article is made from what
\* both searches have reported, one that failed is told to have failed, and
\* an answer is told to no other request.
THEOREM ResearchKeepsPromise == ResearchSpec => ImplementsResearchPromise
<1>1. ResearchInit => Promise!Init
  <2> SUFFICES ASSUME ResearchInit PROVE Promise!Init
    OBVIOUS
  <2>1. Reported = [c \in ToolCalls |-> [p \in Needs[c] |-> "silent"]]
    BY DEF ResearchInit, Reported, ReportOf
  <2>2. Made = {}
    BY DEF ResearchInit, Made
  <2>3. Outlines = [c \in ToolCalls |-> Untold]
    BY DEF ResearchInit, Outlines, Outline, Untold
  <2> QED
    BY <2>1, <2>2, <2>3 DEF Promise!Init, Promise!Silent, Promise!Untold, Untold
<1>2. ASSUME ResearchIInv, [ResearchNext]_researchVars PROVE [Promise!Next]_(Promise!promiseVars)
  <2>1. CASE UNCHANGED researchVars
    BY <2>1, PromiseStutters DEF researchVars, Promise!promiseVars
  <2> QED
    BY <1>2, <2>1, SearchPromise, CallPromise, ReturnsPromise DEF ResearchNext
<1> QED
  BY <1>1, <1>2, ResearchIInvAlways, PTL DEF ResearchSpec, ImplementsResearchPromise, Promise!Spec
===========================================================================
