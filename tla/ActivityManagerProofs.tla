------------------------ MODULE ActivityManagerProofs ------------------------
(***************************************************************************)
(* Theorems about ActivityManager, for any set of tasks.                   *)
(*                                                                         *)
(* The argument: the quantities the network can be left with form a ladder *)
(* of eleven doubles.  Taking 0.1 goes down one rung and giving it back    *)
(* goes up one, exactly, so that what is available is a function of how    *)
(* many transmissions hold a grant (Ladder) and of whether somebody has    *)
(* the resource for itself.                                                *)
(***************************************************************************)
EXTENDS ActivityManager, FiniteSetTheorems, TLAPS

\* What n transmissions leave of the network.
Rung(n) == Double(10 - n, IF n <= 7 THEN n - 2 ELSE 5)

\* Taking 0.1 from a rung gives the next one, to the last bit.
LEMMA RungDown ==
  \A n \in 0..9 : Minus(Rung(n), Tenth) = Rung(n + 1)
<1> SUFFICES ASSUME NEW n \in 0..9
             PROVE Minus(Rung(n), Tenth) = Rung(n + 1)
  OBVIOUS
<1>1. n \in {0, 1, 2, 3, 4, 5, 6, 7, 8, 9}
  OBVIOUS
<1> QED
  BY <1>1 DEF Rung, Minus, Rounded, Residue, Spacing, AtLeast, Double, Tenth, One

\* Giving 0.1 back to a rung gives the previous one, to the last bit.
LEMMA RungUp ==
  \A n \in 1..10 : Plus(Rung(n), Tenth) = Rung(n - 1)
<1> SUFFICES ASSUME NEW n \in 1..10
             PROVE Plus(Rung(n), Tenth) = Rung(n - 1)
  OBVIOUS
<1>1. n \in {1, 2, 3, 4, 5, 6, 7, 8, 9, 10}
  OBVIOUS
<1> QED
  BY <1>1 DEF Rung, Plus, Rounded, Residue, Spacing, AtLeast, Double, Tenth, One

\* Taking everything leaves nothing; giving it back restores it.
LEMMA WholeArithmetic ==
  /\ Minus(One, One) = Zero
  /\ Plus(Zero, One) = One
  /\ Rung(0) = One
BY DEF Rung, Plus, Minus, Rounded, Residue, Spacing, AtLeast, Double, One, Zero

\* Which rungs a requirement fits on.
LEMMA RungFits ==
  /\ \A n \in 0..10 : AtLeast(Rung(n), Tenth) <=> n <= 9
  /\ \A n \in 0..10 : AtLeast(Rung(n), One) <=> n = 0
  /\ ~ AtLeast(Zero, Tenth)
  /\ ~ AtLeast(Zero, One)
BY DEF Rung, AtLeast, Double, Tenth, One, Zero

\* Rungs are doubles of the type invariant.
LEMMA RungTyped ==
  /\ \A n \in 0..10 : Rung(n) \in [tenths : 0..10, units : -2..5]
  /\ Zero \in [tenths : 0..10, units : -2..5]
BY DEF Rung, Double, Zero

\* What the holders of r leave of it.
LeftOf(r) ==
  IF \E t \in HoldersOf(r) : exclusive(ActivityOf[t]) THEN Zero
  ELSE Rung(Cardinality(HoldersOf(r)))

\* What is available is exactly what the holders leave.
Ladder ==
  \A r \in Resources :
    /\ Cardinality(HoldersOf(r)) \in 0..10
    /\ available[r] = LeftOf(r)

\* The inductive invariant.  Nobody needs NoLostWakeup but itself; it is
\* preserved because what fits on one rung fits on those above.
Inv == TypeOK /\ Ladder /\ ExclusiveMeansAlone /\ NoLostWakeup

\* Holders of the resource t wants when t's requirement fits.
LEMMA FitsMeans ==
  ASSUME Inv, NEW t \in Tasks
  PROVE  LET H == HoldersOf(ResourceOf(t))
         IN fits(t) <=> IF exclusive(ActivityOf[t]) THEN H = {}
                        ELSE /\ Cardinality(H) <= 9
                             /\ \A u \in H : ~ exclusive(ActivityOf[u])
<1> DEFINE r == ResourceOf(t)
           H == HoldersOf(r)
<1>1. r \in Resources /\ required_allocation(t) = IF exclusive(ActivityOf[t]) THEN One ELSE Tenth
  BY DEF ResourceOf, resource, Resources, required_allocation, capacity
<1>2. Cardinality(H) \in 0..10 /\ available[r] = LeftOf(r)
  BY <1>1 DEF Inv, Ladder
<1>3. IsFiniteSet(H)
  <2>1. H \subseteq Tasks
    BY DEF HoldersOf, Inv, TypeOK
  <2> QED BY <2>1, ActivityAssumption, FS_Subset
<1>4. Cardinality(H) = 0 <=> H = {}
  BY <1>3, FS_EmptySet
<1>5. CASE \E u \in H : exclusive(ActivityOf[u])
  <2>1. available[r] = Zero
    BY <1>2, <1>5 DEF LeftOf
  <2> QED BY <1>1, <1>5, <2>1, RungFits DEF fits
<1>6. CASE ~ \E u \in H : exclusive(ActivityOf[u])
  <2>1. available[r] = Rung(Cardinality(H))
    BY <1>2, <1>6 DEF LeftOf
  <2> QED BY <1>1, <1>2, <1>4, <1>6, <2>1, RungFits DEF fits
<1> QED BY <1>5, <1>6

\* Granting a request that fits.
LEMMA GrantPreserves ==
  ASSUME Inv, NEW t \in Tasks, pc[t] # "holding", fits(t), grant(t),
         requests' \in [Tasks -> 0..MaxRequests]
  PROVE  Inv'
<1> DEFINE r == ResourceOf(t)
           H == HoldersOf(r)
<1>1. /\ r \in Resources
      /\ required_allocation(t) = IF exclusive(ActivityOf[t]) THEN One ELSE Tenth
  BY DEF ResourceOf, resource, Resources, required_allocation, capacity
<1>2. /\ pc' = [pc EXCEPT ![t] = "holding"]
      /\ grants' = grants \cup {t} /\ t \notin grants
      /\ available' = [available EXCEPT ![r] = Minus(@, required_allocation(t))]
  BY DEF grant, Inv, TypeOK
<1>3. IF exclusive(ActivityOf[t]) THEN H = {}
      ELSE Cardinality(H) <= 9 /\ \A u \in H : ~ exclusive(ActivityOf[u])
  BY FitsMeans
<1>4. /\ HoldersOf(r)' = H \cup {t} /\ t \notin H
      /\ \A q \in Resources \ {r} : HoldersOf(q)' = HoldersOf(q)
  BY <1>2 DEF HoldersOf
<1>5. IsFiniteSet(H) /\ Cardinality(H) \in 0..10 /\ available[r] = LeftOf(r)
  <2>1. H \subseteq Tasks
    BY DEF HoldersOf, Inv, TypeOK
  <2> QED BY <2>1, <1>1, ActivityAssumption, FS_Subset DEF Inv, Ladder
<1>6. Cardinality(H \cup {t}) = Cardinality(H) + 1
  BY <1>4, <1>5, FS_AddElement
<1>7. Cardinality(HoldersOf(r)') \in 0..10 /\ available'[r] = LeftOf(r)'
  <2>1. available'[r] = Minus(available[r], required_allocation(t))
    BY <1>1, <1>2 DEF Inv, TypeOK
  <2>2. CASE exclusive(ActivityOf[t])
    <3>1. Cardinality(H) = 0
      BY <1>3, <2>2, FS_EmptySet
    <3>2. available[r] = One
      BY <1>3, <1>5, <2>2, <3>1, WholeArithmetic DEF LeftOf
    <3>3. available'[r] = Zero
      BY <1>1, <2>1, <2>2, <3>2, WholeArithmetic
    <3>4. LeftOf(r)' = Zero
      BY <1>4, <2>2 DEF LeftOf
    <3> QED BY <1>4, <1>6, <3>1, <3>3, <3>4
  <2>3. CASE ~ exclusive(ActivityOf[t])
    <3>1. available[r] = Rung(Cardinality(H)) /\ Cardinality(H) \in 0..9
      BY <1>3, <1>5, <2>3 DEF LeftOf
    <3>2. available'[r] = Rung(Cardinality(H) + 1)
      BY <1>1, <2>1, <2>3, <3>1, RungDown
    <3>3. LeftOf(r)' = Rung(Cardinality(H \cup {t}))
      BY <1>3, <1>4, <2>3 DEF LeftOf
    <3> QED BY <1>4, <1>6, <3>1, <3>2, <3>3
  <2> QED BY <2>2, <2>3
<1>8. Ladder'
  <2> SUFFICES ASSUME NEW q \in Resources, q # r
               PROVE Cardinality(HoldersOf(q)') \in 0..10 /\ available'[q] = LeftOf(q)'
    BY <1>7 DEF Ladder
  <2>1. HoldersOf(q)' = HoldersOf(q) /\ available'[q] = available[q]
    BY <1>2, <1>4 DEF Inv, TypeOK
  <2>2. LeftOf(q)' = LeftOf(q)
    BY <2>1 DEF LeftOf
  <2> QED BY <2>1, <2>2 DEF Inv, Ladder
<1>9. TypeOK'
  <2>1. \A q \in Resources : available'[q] \in [tenths : 0..10, units : -2..5]
    BY <1>8, RungTyped DEF Ladder, LeftOf
  <2>2. available' \in [Resources -> [tenths : 0..10, units : -2..5]]
    BY <1>2, <2>1 DEF Inv, TypeOK
  <2>3. grants' = {u \in Tasks : pc'[u] = "holding"}
    BY <1>2 DEF Inv, TypeOK
  <2>4. pc' \in [Tasks -> {"idle", "parked", "notified", "holding"}]
    BY <1>2 DEF Inv, TypeOK
  <2> QED BY <2>2, <2>3, <2>4 DEF TypeOK
<1>10. ExclusiveMeansAlone'
  <2> SUFFICES ASSUME NEW u \in grants', NEW v \in grants', exclusive(ActivityOf[u]),
                      ResourceOf(u) = ResourceOf(v)
               PROVE u = v
    BY DEF ExclusiveMeansAlone
  <2>1. CASE u \in grants /\ v \in grants
    BY <2>1 DEF Inv, ExclusiveMeansAlone
  <2>2. CASE u = t /\ v \in grants
    BY <1>3, <2>2 DEF HoldersOf
  <2>3. CASE v = t /\ u \in grants
    BY <1>3, <2>3 DEF HoldersOf
  <2> QED BY <1>2, <2>1, <2>2, <2>3
<1>11. NoLostWakeup'
  <2> SUFFICES ASSUME NEW w \in Tasks, pc'[w] = "parked" PROVE ~ fits(w)'
    BY DEF NoLostWakeup
  <2>1. pc[w] = "parked" /\ ~ fits(w)
    BY <1>2 DEF Inv, TypeOK, NoLostWakeup
  <2>2. CASE ResourceOf(w) # r
    BY <1>2, <2>1, <2>2 DEF fits, Inv, TypeOK, required_allocation, capacity
  <2>3. CASE ResourceOf(w) = r
    <3>1. required_allocation(w) \in {One, Tenth}
      BY <1>1, <2>3 DEF required_allocation, capacity, ResourceOf
    <3>2. CASE exclusive(ActivityOf[t])
      <4>1. available'[r] = Zero
        BY <1>4, <1>7, <3>2 DEF LeftOf
      <4> QED BY <2>3, <3>1, <4>1, RungFits DEF fits, required_allocation, capacity
    <3>3. CASE ~ exclusive(ActivityOf[t])
      <4>1. available[r] = Rung(Cardinality(H)) /\ Cardinality(H) \in 0..9
        BY <1>3, <1>5, <3>3 DEF LeftOf
      <4>2. required_allocation(w) = One
        BY <2>1, <2>3, <3>1, <4>1, RungFits DEF fits
      <4>3. available'[r] = Rung(Cardinality(H) + 1)
        BY <1>3, <1>4, <1>6, <1>7, <3>3 DEF LeftOf
      <4> QED BY <2>3, <4>1, <4>2, <4>3, RungFits DEF fits, required_allocation, capacity
    <3> QED BY <3>2, <3>3
  <2> QED BY <2>2, <2>3
<1> QED BY <1>8, <1>9, <1>10, <1>11 DEF Inv

\* Only pc and the request counts change, and nobody starts to hold or park
\* without reason.
LEMMA WaitingPreserves ==
  ASSUME Inv, NEW t \in Tasks, NEW x, x \in {"idle", "parked", "notified"},
         pc[t] # "holding", x = "parked" => ~ fits(t),
         pc' = [pc EXCEPT ![t] = x], UNCHANGED <<available, grants>>,
         requests' \in [Tasks -> 0..MaxRequests]
  PROVE  Inv'
<1>1. \A r : HoldersOf(r)' = HoldersOf(r)
  BY DEF HoldersOf
<1>2. Ladder'
  <2>1. \A r : LeftOf(r)' = LeftOf(r)
    BY <1>1 DEF LeftOf
  <2> QED BY <1>1, <2>1 DEF Inv, Ladder
<1>3. TypeOK'
  BY DEF Inv, TypeOK
<1>4. ExclusiveMeansAlone'
  BY DEF Inv, ExclusiveMeansAlone
<1>5. NoLostWakeup'
  <2>1. \A w \in Tasks : pc'[w] = "parked" => ~ fits(w)
    BY DEF Inv, TypeOK, NoLostWakeup
  <2> QED BY <2>1 DEF NoLostWakeup, fits
<1> QED BY <1>2, <1>3, <1>4, <1>5 DEF Inv

\* Releasing a grant.
LEMMA ReleasePreserves ==
  ASSUME Inv, NEW t \in Tasks, Release(t)
  PROVE  Inv'
<1> DEFINE r == ResourceOf(t)
           H == HoldersOf(r)
<1>1. /\ r \in Resources
      /\ required_allocation(t) = IF exclusive(ActivityOf[t]) THEN One ELSE Tenth
  BY DEF ResourceOf, resource, Resources, required_allocation, capacity
<1>2. /\ t \in grants /\ grants' = grants \ {t}
      /\ available' = [available EXCEPT ![r] = Plus(available[r], required_allocation(t))]
      /\ pc' = [w \in Tasks |-> IF w = t THEN "idle"
                               ELSE IF pc[w] = "parked" THEN "notified" ELSE pc[w]]
      /\ UNCHANGED requests
  <2>1. [pc EXCEPT ![t] = "idle"] \in [Tasks -> {"idle", "parked", "notified", "holding"}]
    BY DEF Inv, TypeOK
  <2> QED BY <2>1 DEF Release, give_back, notify_all, Inv, TypeOK
<1>3. /\ HoldersOf(r)' = H \ {t} /\ t \in H
      /\ \A q \in Resources \ {r} : HoldersOf(q)' = HoldersOf(q)
  BY <1>2 DEF HoldersOf
<1>4. IsFiniteSet(H) /\ Cardinality(H) \in 0..10 /\ available[r] = LeftOf(r)
  <2>1. H \subseteq Tasks
    BY DEF HoldersOf, Inv, TypeOK
  <2> QED BY <2>1, <1>1, ActivityAssumption, FS_Subset DEF Inv, Ladder
<1>5. Cardinality(H \ {t}) = Cardinality(H) - 1 /\ Cardinality(H) # 0
  BY <1>3, <1>4, FS_RemoveElement, FS_EmptySet
<1>6. Cardinality(HoldersOf(r)') \in 0..10 /\ available'[r] = LeftOf(r)'
  <2>1. available'[r] = Plus(available[r], required_allocation(t))
    BY <1>1, <1>2 DEF Inv, TypeOK
  <2>2. CASE exclusive(ActivityOf[t])
    <3>1. H = {t}
      BY <1>3, <2>2 DEF Inv, ExclusiveMeansAlone, HoldersOf
    <3>2. available[r] = Zero
      BY <1>3, <1>4, <2>2 DEF LeftOf
    <3>3. available'[r] = One
      BY <1>1, <2>1, <2>2, <3>2, WholeArithmetic
    <3>4. HoldersOf(r)' = {} /\ Cardinality(HoldersOf(r)') = 0
      BY <1>3, <3>1, FS_EmptySet
    <3> QED BY <3>3, <3>4, WholeArithmetic DEF LeftOf
  <2>3. CASE ~ exclusive(ActivityOf[t])
    <3>1. \A u \in H : ~ exclusive(ActivityOf[u])
      BY <1>3, <2>3 DEF Inv, ExclusiveMeansAlone, HoldersOf
    <3>2. available[r] = Rung(Cardinality(H)) /\ Cardinality(H) \in 1..10
      BY <1>4, <1>5, <3>1 DEF LeftOf
    <3>3. available'[r] = Rung(Cardinality(H) - 1)
      BY <1>1, <2>1, <2>3, <3>2, RungUp
    <3>4. LeftOf(r)' = Rung(Cardinality(H \ {t}))
      BY <1>3, <3>1 DEF LeftOf
    <3> QED BY <1>3, <1>5, <3>2, <3>3, <3>4
  <2> QED BY <2>2, <2>3
<1>7. Ladder'
  <2> SUFFICES ASSUME NEW q \in Resources, q # r
               PROVE Cardinality(HoldersOf(q)') \in 0..10 /\ available'[q] = LeftOf(q)'
    BY <1>6 DEF Ladder
  <2>1. HoldersOf(q)' = HoldersOf(q) /\ available'[q] = available[q]
    BY <1>2, <1>3 DEF Inv, TypeOK
  <2>2. LeftOf(q)' = LeftOf(q)
    BY <2>1 DEF LeftOf
  <2> QED BY <2>1, <2>2 DEF Inv, Ladder
<1>8. TypeOK'
  <2>1. \A q \in Resources : available'[q] \in [tenths : 0..10, units : -2..5]
    BY <1>7, RungTyped DEF Ladder, LeftOf
  <2>2. available' \in [Resources -> [tenths : 0..10, units : -2..5]]
    BY <1>2, <2>1 DEF Inv, TypeOK
  <2>3. grants' = {u \in Tasks : pc'[u] = "holding"}
    BY <1>2 DEF Inv, TypeOK
  <2>4. pc' \in [Tasks -> {"idle", "parked", "notified", "holding"}]
    BY <1>2 DEF Inv, TypeOK
  <2> QED BY <1>2, <2>2, <2>3, <2>4 DEF Inv, TypeOK
<1>9. ExclusiveMeansAlone'
  BY <1>2 DEF Inv, ExclusiveMeansAlone
<1>10. NoLostWakeup'
  BY <1>2 DEF NoLostWakeup
<1> QED BY <1>7, <1>8, <1>9, <1>10 DEF Inv

LEMMA InvInit == Init => Inv
<1> SUFFICES ASSUME Init PROVE Inv
  OBVIOUS
<1>1. /\ pc = [t \in Tasks |-> "idle"] /\ grants = {}
      /\ available = [r \in Resources |-> One] /\ requests = [t \in Tasks |-> 0]
  BY DEF Init, capacity
<1>2. \A r : HoldersOf(r) = {}
  BY <1>1 DEF HoldersOf
<1>3. Ladder
  BY <1>1, <1>2, FS_EmptySet, WholeArithmetic DEF Ladder, LeftOf
<1>4. TypeOK
  BY <1>1, ActivityAssumption DEF TypeOK, One, Double
<1> QED BY <1>1, <1>3, <1>4 DEF Inv, ExclusiveMeansAlone, NoLostWakeup

LEMMA InvStep == Inv /\ [Next]_vars => Inv'
<1> SUFFICES ASSUME Inv, [Next]_vars PROVE Inv'
  OBVIOUS
<1>1. ASSUME NEW t \in Tasks, Acquire(t) PROVE Inv'
  <2>1. pc[t] # "holding" /\ requests' \in [Tasks -> 0..MaxRequests]
    BY <1>1, ActivityAssumption DEF Acquire, Inv, TypeOK
  <2>2. CASE fits(t)
    BY <1>1, <2>1, <2>2, GrantPreserves DEF Acquire
  <2>3. CASE ~ fits(t)
    BY <1>1, <2>1, <2>3, WaitingPreserves DEF Acquire
  <2> QED BY <2>2, <2>3
<1>2. ASSUME NEW t \in Tasks, Wake(t) PROVE Inv'
  <2>1. pc[t] # "holding" /\ requests' \in [Tasks -> 0..MaxRequests]
    BY <1>2 DEF Wake, Inv, TypeOK
  <2>2. CASE fits(t)
    BY <1>2, <2>1, <2>2, GrantPreserves DEF Wake
  <2>3. CASE ~ fits(t)
    BY <1>2, <2>1, <2>3, WaitingPreserves DEF Wake
  <2> QED BY <2>2, <2>3
<1>3. ASSUME NEW t \in Tasks, Cancel(t) PROVE Inv'
  <2>1. pc[t] # "holding" /\ requests' \in [Tasks -> 0..MaxRequests]
    BY <1>3 DEF Cancel, Waiting, Inv, TypeOK
  <2> QED BY <1>3, <2>1, WaitingPreserves DEF Cancel
<1>4. ASSUME NEW t \in Tasks, Release(t) PROVE Inv'
  BY <1>4, ReleasePreserves
<1>5. CASE UNCHANGED vars
  <2>1. \A r : HoldersOf(r)' = HoldersOf(r) /\ LeftOf(r)' = LeftOf(r)
    BY <1>5 DEF vars, HoldersOf, LeftOf
  <2>2. Ladder'
    BY <1>5, <2>1 DEF Inv, Ladder, vars
  <2>3. TypeOK'
    BY <1>5 DEF Inv, TypeOK, vars
  <2>4. ExclusiveMeansAlone' /\ NoLostWakeup'
    BY <1>5 DEF Inv, ExclusiveMeansAlone, NoLostWakeup, fits, vars
  <2> QED BY <2>2, <2>3, <2>4 DEF Inv
<1> QED BY <1>1, <1>2, <1>3, <1>4, <1>5 DEF Next

\* LocalActivityManagerAdapter: what is available always is one of the eleven
\* doubles of the ladder, or nothing; it never goes below zero.
THEOREM TypeCorrect == Spec => []TypeOK
<1>1. Inv => TypeOK
  BY DEF Inv
<1> QED BY <1>1, InvInit, InvStep, PTL DEF Spec

\* Profiling and execution have their resource for themselves.
THEOREM ExclusiveMeansAloneHolds == Spec => []ExclusiveMeansAlone
<1>1. Inv => ExclusiveMeansAlone
  BY DEF Inv
<1> QED BY <1>1, InvInit, InvStep, PTL DEF Spec

\* The network carries at most ten transmissions, however many tasks ask.
THEOREM TransmissionsFitTheNetworkHolds == Spec => []TransmissionsFitTheNetwork
<1>1. Inv => TransmissionsFitTheNetwork
  BY DEF Inv, Ladder, Resources, TransmissionsFitTheNetwork
<1> QED BY <1>1, InvInit, InvStep, PTL DEF Spec

\* The floating-point bookkeeping never drifts, whatever the interleaving of
\* acquisitions and releases: an idle resource is available to the last bit.
THEOREM IdleResourceIsWholeHolds == Spec => []IdleResourceIsWhole
<1>1. Inv => IdleResourceIsWhole
  <2> SUFFICES ASSUME Inv, NEW r \in Resources, HoldersOf(r) = {}
               PROVE available[r] = One
    BY DEF IdleResourceIsWhole, capacity
  <2>1. available[r] = Rung(0)
    BY FS_EmptySet DEF Inv, Ladder, LeftOf
  <2> QED BY <2>1, WholeArithmetic
<1> QED BY <1>1, InvInit, InvStep, PTL DEF Spec

\* No waiter sleeps through a release that would have served it.
THEOREM NoLostWakeupHolds == Spec => []NoLostWakeup
<1>1. Inv => NoLostWakeup
  BY DEF Inv
<1> QED BY <1>1, InvInit, InvStep, PTL DEF Spec
=============================================================================
