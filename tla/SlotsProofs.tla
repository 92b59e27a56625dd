----------------------------- MODULE SlotsProofs -----------------------------
(***************************************************************************)
(* Proofs about Slots, for any number of workers, tasks and tenants and    *)
(* any limits: the counters stay within their limits, no tenant has more   *)
(* calls under way than its counter says, and the channel's counter falls  *)
(* behind only through a calibration.                                      *)
(***************************************************************************)
EXTENDS Slots, FiniteSetTheorems, TLAPS

(* The counters cover the calls that are under way.                         *)
Covered == \A n \in Tenants : Cardinality(HoldingFor(n)) <= ten[n]

Inv == TypeOK /\ Covered

(* Sets of workers can be counted.                                          *)
LEMMA Counting ==
    ASSUME NEW S, S \subseteq Workers
    PROVE  IsFiniteSet(S) /\ Cardinality(S) \in Nat
  BY SetsAssumption, FS_Subset, FS_CardinalityType

(* A worker joins a set it is not in, or leaves one it is in.               *)
LEMMA Joins ==
    ASSUME NEW S, S \subseteq Workers, NEW w \in Workers, w \notin S
    PROVE  Cardinality(S \cup {w}) = Cardinality(S) + 1
  BY Counting, FS_AddElement

LEMMA Leaves ==
    ASSUME NEW S, S \subseteq Workers, NEW w \in S
    PROVE  Cardinality(S \ {w}) = Cardinality(S) - 1
  BY Counting, FS_RemoveElement

LEMMA Fewer ==
    ASSUME NEW S, S \subseteq Workers, NEW T, T \subseteq S
    PROVE  Cardinality(T) <= Cardinality(S)
  BY Counting, FS_Subset

LEMMA NoneHolding == Cardinality({}) = 0
  BY FS_EmptySet

-----------------------------------------------------------------------------
(* What the steps of a worker do to the sets of those that hold a slot.     *)

LEMMA AcquireHolds ==
    ASSUME TypeOK, NEW w \in Workers, Acquire(w)
    PROVE  /\ w \notin Holding /\ Holding' = Holding \cup {w}
           /\ \A n \in Tenants :
                 HoldingFor(n)' = IF n = TenantOf[job[w]]
                                  THEN HoldingFor(n) \cup {w}
                                  ELSE HoldingFor(n)
  BY DEF TypeOK, Acquire, Goto, Holding, HoldingFor

LEMMA CallEndsHolds ==
    ASSUME TypeOK, NEW w \in Workers, CallEnds(w)
    PROVE  /\ Holding' = Holding
           /\ \A n \in Tenants : HoldingFor(n)' = HoldingFor(n)
  BY DEF TypeOK, CallEnds, Goto, Holding, HoldingFor

LEMMA ReleaseHolds ==
    ASSUME TypeOK, NEW w \in Workers, Release(w)
    PROVE  /\ w \in Holding /\ Holding' = Holding \ {w}
           /\ \A n \in Tenants :
                 HoldingFor(n)' = IF n = TenantOf[job[w]]
                                  THEN HoldingFor(n) \ {w}
                                  ELSE HoldingFor(n)
  BY DEF TypeOK, Release, Idles, Holding, HoldingFor

(* Nobody takes a slot in any other step.                                   *)
LEMMA OthersHold ==
    ASSUME TypeOK, NEW w \in Workers,
           \/ Denied(w) \/ Crash(w) \/ \E t \in Tasks : Load(w, t)
    PROVE  /\ Holding' \subseteq Holding
           /\ \A n \in Tenants : HoldingFor(n)' \subseteq HoldingFor(n)
  BY DEF TypeOK, Denied, Crash, Load, Idles, Holding, HoldingFor

-----------------------------------------------------------------------------
LEMMA InitInv == Init => Inv
<1> SUFFICES ASSUME Init PROVE Inv
  OBVIOUS
<1>1. TypeOK
  BY LimitsAssumption DEF Init, TypeOK
<1>2. \A n \in Tenants : HoldingFor(n) = {}
  BY DEF Init, HoldingFor, Holding
<1>3. Covered
  BY <1>1, <1>2, NoneHolding DEF Init, Covered, TypeOK
<1> QED
  BY <1>1, <1>3 DEF Inv

(* Types are kept: ACQUIRE_LUA looks at the limits, RELEASE_LUA and         *)
(* CALIBRATE_LUA only lower.                                                *)
LEMMA TypeStep == TypeOK /\ [Next]_vars => TypeOK'
<1> SUFFICES ASSUME TypeOK, [Next]_vars PROVE TypeOK'
  OBVIOUS
<1> USE LimitsAssumption, NamesAssumption, SetsAssumption DEF TypeOK
<1>1. ASSUME NEW t \in Tasks, TaskAccepted(t) \/ TaskEnds(t) PROVE TypeOK'
  BY <1>1 DEF TaskAccepted, TaskEnds, counters
<1>2. ASSUME NEW w \in Workers, Works(w) \/ Crash(w) PROVE TypeOK'
  <2>1. CASE Acquire(w)
    BY <2>1 DEF Acquire, Full, Goto
  <2>2. CASE Denied(w) \/ Crash(w)
    BY <2>2 DEF Denied, Crash, Idles, counters
  <2>3. CASE CallEnds(w)
    BY <2>3 DEF CallEnds, Goto, counters
  <2>4. CASE Release(w)
    BY <2>4 DEF Release, Less, Idles
  <2> QED
    BY <1>2, <2>1, <2>2, <2>3, <2>4 DEF Works
<1>3. ASSUME NEW w \in Workers, NEW t \in Tasks, Load(w, t) PROVE TypeOK'
  BY <1>3 DEF Load, counters
<1>4. CASE CountActive
  <2>1. Cardinality(active) \in Nat
    BY FS_Subset, FS_CardinalityType
  <2> QED
    BY <1>4, <2>1 DEF CountActive, counters
<1>5. CASE Calibrate
  BY <1>5 DEF Calibrate
<1>6. CASE ChannelExpires
  BY <1>6 DEF ChannelExpires
<1>7. ASSUME NEW n \in Tenants, TenantExpires(n) PROVE TypeOK'
  BY <1>7 DEF TenantExpires
<1>8. CASE UNCHANGED vars
  BY <1>8 DEF vars
<1> QED
  BY <1>1, <1>2, <1>3, <1>4, <1>5, <1>6, <1>7, <1>8 DEF Next

(* A step that leaves a tenant's counter alone and lets nobody in.          *)
LEMMA StillCovered ==
    ASSUME Inv, UNCHANGED ten,
           \A n \in Tenants : HoldingFor(n)' \subseteq HoldingFor(n)
    PROVE  Covered'
<1> SUFFICES ASSUME NEW n \in Tenants
             PROVE  Cardinality(HoldingFor(n)') <= ten[n]
  BY DEF Covered
<1>1. HoldingFor(n) \subseteq Workers /\ HoldingFor(n)' \subseteq Workers
  BY DEF HoldingFor, Holding
<1>2. Cardinality(HoldingFor(n)') <= Cardinality(HoldingFor(n))
  BY <1>1, Fewer
<1> QED
  BY <1>1, <1>2, Counting DEF Inv, Covered, TypeOK

LEMMA CoveredStep == Inv /\ [Next]_vars => Covered'
<1> SUFFICES ASSUME Inv, [Next]_vars PROVE Covered'
  OBVIOUS
<1> USE DEF Inv
<1>0. \A n \in Tenants : HoldingFor(n) \subseteq Workers
  BY DEF HoldingFor, Holding
<1>1. ASSUME NEW t \in Tasks, TaskAccepted(t) \/ TaskEnds(t) PROVE Covered'
  BY <1>1, StillCovered
     DEF TaskAccepted, TaskEnds, counters, HoldingFor, Holding
<1>2. ASSUME NEW w \in Workers, Works(w) \/ Crash(w) PROVE Covered'
  <2>1. CASE Acquire(w)
    <3> SUFFICES ASSUME NEW n \in Tenants
                 PROVE  Cardinality(HoldingFor(n)') <= ten'[n]
      BY DEF Covered
    <3>1. CASE n = TenantOf[job[w]]
      <4>1. /\ HoldingFor(n)' = HoldingFor(n) \cup {w}
            /\ w \notin HoldingFor(n) /\ ten'[n] = ten[n] + 1
        BY <2>1, <3>1, AcquireHolds DEF Acquire, TypeOK, HoldingFor
      <4>2. Cardinality(HoldingFor(n)') = Cardinality(HoldingFor(n)) + 1
        BY <4>1, <1>0, Joins
      <4> QED
        BY <4>1, <4>2, <1>0, Counting DEF Covered, TypeOK
    <3>2. CASE n # TenantOf[job[w]]
      <4>1. HoldingFor(n)' = HoldingFor(n) /\ ten'[n] = ten[n]
        BY <2>1, <3>2, AcquireHolds DEF Acquire, TypeOK
      <4> QED
        BY <4>1 DEF Covered
    <3> QED
      BY <3>1, <3>2
  <2>2. CASE Denied(w) \/ Crash(w)
    BY <2>2, OthersHold, StillCovered DEF Denied, Crash, counters
  <2>3. CASE CallEnds(w)
    BY <2>3, CallEndsHolds, StillCovered DEF CallEnds, counters
  <2>4. CASE Release(w)
    <3> SUFFICES ASSUME NEW n \in Tenants
                 PROVE  Cardinality(HoldingFor(n)') <= ten'[n]
      BY DEF Covered
    <3>1. CASE n = TenantOf[job[w]]
      <4>1. /\ HoldingFor(n)' = HoldingFor(n) \ {w}
            /\ w \in HoldingFor(n) /\ ten'[n] = Less(ten[n])
        BY <2>4, <3>1, ReleaseHolds DEF Release, TypeOK, HoldingFor
      <4>2. Cardinality(HoldingFor(n)') = Cardinality(HoldingFor(n)) - 1
        BY <4>1, <1>0, Leaves
      <4> QED
        BY <4>1, <4>2, <1>0, Counting DEF Covered, TypeOK, Less
    <3>2. CASE n # TenantOf[job[w]]
      <4>1. HoldingFor(n)' = HoldingFor(n) /\ ten'[n] = ten[n]
        BY <2>4, <3>2, ReleaseHolds DEF Release, TypeOK
      <4> QED
        BY <4>1 DEF Covered
    <3> QED
      BY <3>1, <3>2
  <2> QED
    BY <1>2, <2>1, <2>2, <2>3, <2>4 DEF Works
<1>3. ASSUME NEW w \in Workers, NEW t \in Tasks, Load(w, t) PROVE Covered'
  BY <1>3, OthersHold, StillCovered DEF Load, counters
<1>4. CASE CountActive \/ Calibrate \/ ChannelExpires \/ UNCHANGED vars
  BY <1>4, StillCovered
     DEF CountActive, Calibrate, ChannelExpires, vars, counters, HoldingFor,
         Holding
<1>5. ASSUME NEW m \in Tenants, TenantExpires(m) PROVE Covered'
  <2> SUFFICES ASSUME NEW n \in Tenants
               PROVE  Cardinality(HoldingFor(n)') <= ten'[n]
    BY DEF Covered
  <2>1. HoldingFor(n)' = HoldingFor(n)
    BY <1>5 DEF TenantExpires, HoldingFor, Holding
  <2>2. CASE n = m
    BY <1>5, <2>1, <2>2, NoneHolding DEF TenantExpires, TypeOK
  <2>3. CASE n # m
    BY <1>5, <2>1, <2>3 DEF TenantExpires, TypeOK, Covered
  <2> QED
    BY <2>2, <2>3
<1> QED
  BY <1>1, <1>2, <1>3, <1>4, <1>5 DEF Next

LEMMA Invariance == Spec => []Inv
<1>1. Inv /\ [Next]_vars => Inv'
  BY TypeStep, CoveredStep DEF Inv
<1> QED
  BY InitInv, <1>1, PTL DEF Spec

-----------------------------------------------------------------------------
(* Both counters of concurrency.py stay between zero and their limits.      *)
THEOREM TypeCorrect == Spec => []TypeOK
<1>1. Inv => TypeOK
  BY DEF Inv
<1> QED
  BY <1>1, Invariance, PTL

(* No tenant ever has more calls under way than its counter says, and so    *)
(* none has more than its limit, for any number of workers that are denied, *)
(* crash, or handle one message twice.                                      *)
THEOREM TenantsBounded == Spec => []TenantBounded
<1>1. Inv => TenantBounded
  BY DEF Inv, Covered, TypeOK, TenantBounded
<1> QED
  BY <1>1, Invariance, PTL

(* Only a calibration lets the channel's counter fall below the calls under *)
(* way.                                                                     *)
THEOREM UndercountExplained == Spec => UndercountIsCalibration
<1> DEFINE Step == Cardinality(Holding) <= chan =>
                      \/ Cardinality(Holding') <= chan'
                      \/ count # NoCount /\ chan' = count /\ count' = NoCount
<1>1. TypeOK /\ [Next]_vars => [Step]_vars
  <2> SUFFICES ASSUME TypeOK, Next, Cardinality(Holding) <= chan
               PROVE  \/ Cardinality(Holding') <= chan'
                      \/ count # NoCount /\ chan' = count /\ count' = NoCount
    OBVIOUS
  <2>0. /\ Holding \subseteq Workers /\ Holding' \subseteq Workers
        /\ Cardinality(Holding) \in Nat /\ Cardinality(Holding') \in Nat
        /\ chan \in Nat
    BY Counting, LimitsAssumption DEF Holding, TypeOK
  <2>1. ASSUME Holding' \subseteq Holding, chan' = chan
        PROVE  Cardinality(Holding') <= chan'
    BY <2>0, <2>1, Fewer
  <2>2. ASSUME NEW t \in Tasks, TaskAccepted(t) \/ TaskEnds(t)
        PROVE  Cardinality(Holding') <= chan'
    BY <2>2, <2>1 DEF TaskAccepted, TaskEnds, counters, Holding
  <2>3. ASSUME NEW w \in Workers, Works(w) \/ Crash(w)
        PROVE  Cardinality(Holding') <= chan'
    <3>1. CASE Acquire(w)
      <4>1. w \notin Holding /\ Holding' = Holding \cup {w} /\ chan' = chan + 1
        BY <3>1, AcquireHolds DEF Acquire
      <4>2. Cardinality(Holding \cup {w}) = Cardinality(Holding) + 1
        BY <2>0, <4>1, Joins
      <4> QED
        BY <2>0, <4>1, <4>2
    <3>2. CASE Denied(w) \/ Crash(w)
      BY <3>2, <2>1, OthersHold DEF Denied, Crash, counters
    <3>3. CASE CallEnds(w)
      BY <3>3, <2>1, CallEndsHolds DEF CallEnds, counters
    <3>4. CASE Release(w)
      <4>1. w \in Holding /\ Holding' = Holding \ {w} /\ chan' = Less(chan)
        BY <3>4, ReleaseHolds DEF Release
      <4>2. Cardinality(Holding \ {w}) = Cardinality(Holding) - 1
        BY <2>0, <4>1, Leaves
      <4> QED
        BY <2>0, <4>1, <4>2 DEF Less
    <3> QED
      BY <2>3, <3>1, <3>2, <3>3, <3>4 DEF Works
  <2>4. ASSUME NEW w \in Workers, NEW t \in Tasks, Load(w, t)
        PROVE  Cardinality(Holding') <= chan'
    BY <2>4, <2>1, OthersHold DEF Load, counters
  <2>5. ASSUME CountActive \/ \E n \in Tenants : TenantExpires(n)
        PROVE  Cardinality(Holding') <= chan'
    BY <2>5, <2>1 DEF CountActive, TenantExpires, counters, Holding
  <2>6. CASE Calibrate
    <3>1. CASE chan > count
      BY <2>6, <3>1 DEF Calibrate
    <3>2. CASE ~(chan > count)
      BY <2>6, <3>2, <2>1 DEF Calibrate, Holding
    <3> QED
      BY <3>1, <3>2
  <2>7. CASE ChannelExpires
    <3>1. Holding' = {} /\ chan' = 0
      BY <2>7 DEF ChannelExpires, Holding
    <3> QED
      BY <3>1, NoneHolding
  <2> QED
    BY <2>2, <2>3, <2>4, <2>5, <2>6, <2>7 DEF Next
<1> QED
  BY <1>1, TypeCorrect, PTL DEF Spec, UndercountIsCalibration

=============================================================================
