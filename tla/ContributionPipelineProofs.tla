--------------------- MODULE ContributionPipelineProofs ---------------------
(***************************************************************************)
(* Safety of ContributionPipeline for any submissions, keys and routings.  *)
(*                                                                         *)
(* The argument: user counts are exact (Counted), so a slot is dropped     *)
(* only by its last user, so everybody who refers to a key refers to one   *)
(* slot (Shared) and its lock has one owner (Owner).  Under that mutual    *)
(* exclusion what a submission read is still what the store holds          *)
(* (Snapshot), so its validation still counts when it deposits.            *)
(*                                                                         *)
(* What is put into the store is not complete yet, so nothing complete is  *)
(* left there (NotReady, Incomplete). A handle is built in the section, is *)
(* the table's while its submission works on it, and is resolved when it   *)
(* is dropped (Fresh, Built, InTable). With that, every step of submit is  *)
(* one of HopGathering or changes nothing of what that speaks of.          *)
(***************************************************************************)
EXTENDS ContributionPipeline, FiniteSetTheorems, TLAPS

\* Everybody who refers to a key refers to one slot, and that slot is the key's.
Shared == \A s \in Submissions : Using(s) =>
            /\ slotOf[s] \in Submissions
            /\ lockSlots[keyOf(s)] = slotOf[s]
            /\ keyOf(slotOf[s]) = keyOf(s)
\* Whoever is in the section owns the lock of its slot.
Owner == \A s \in Submissions : pc[s] \in InSection => owns_lock(s)
\* User counts are exact.
Counted == \A slot \in Submissions : users[slot] = Cardinality(UsersOf(slot))

\* The types of the variables the slot discipline works on.
SlotTypes ==
  /\ pc \in [Submissions -> Locals]
  /\ slotOf \in [Submissions -> Submissions \cup {None}]
  /\ oldOf \in [Submissions -> SUBSET Submissions]
  /\ lockSlots \in [Keys -> Submissions \cup {None}]
  /\ users \in [Submissions -> Nat]
  /\ lock \in [Submissions -> Seq(Submissions)]
  /\ contribution \in [Submissions -> Contributions]

\* A slot in the table has users and belongs to its key.
Needed == \A k \in Keys : lockSlots[k] # None =>
            UsersOf(lockSlots[k]) # {} /\ keyOf(lockSlots[k]) = k

\* The inductive invariant of the slot discipline.
SlotInv == SlotTypes /\ Shared /\ Owner /\ Counted /\ Needed

LEMMA KeyType == SlotTypes => \A s \in Submissions : keyOf(s) \in Keys
BY PipelineAssumption DEF SlotTypes, keyOf

LEMMA UsersFinite == \A slot : IsFiniteSet(UsersOf(slot))
BY PipelineAssumption, FS_Subset DEF UsersOf

LEMMA CardinalityWith ==
  ASSUME NEW S, IsFiniteSet(S), NEW x, x \notin S
  PROVE  Cardinality(S \cup {x}) = Cardinality(S) + 1
BY FS_AddElement

LEMMA CardinalityWithout ==
  ASSUME NEW S, IsFiniteSet(S), NEW x \in S
  PROVE  /\ Cardinality(S) \in Nat \ {0}
         /\ Cardinality(S \ {x}) = Cardinality(S) - 1
         /\ Cardinality(S) = 1 <=> S \ {x} = {}
<1>1. Cardinality(S) \in Nat
  BY FS_CardinalityType
<1>2. Cardinality(S) # 0
  BY FS_EmptySet
<1>3. IsFiniteSet(S \ {x}) /\ Cardinality(S \ {x}) = Cardinality(S) - 1
  BY FS_RemoveElement
<1>4. Cardinality(S \ {x}) = 0 <=> S \ {x} = {}
  BY <1>3, FS_EmptySet
<1> QED BY <1>1, <1>2, <1>3, <1>4

\* A step that neither takes nor gives back a slot.
LEMMA SlotsUntouched ==
  ASSUME SlotInv, SlotTypes', NEW s \in Submissions, NEW STATE x, x \in Locals,
         pc' = [pc EXCEPT ![s] = x],
         Using(s) <=> (x = "lock" \/ x \in InSection),
         x \in InSection => owns_lock(s),
         UNCHANGED <<contribution, slotOf, slotVars>>
  PROVE  SlotInv'
<1>1. \A t \in Submissions : Using(t)' <=> Using(t)
  BY DEF SlotInv, SlotTypes, Using
<1>2. \A slot \in Submissions : UsersOf(slot)' = UsersOf(slot)
  BY <1>1 DEF UsersOf
<1>3. Shared'
  BY <1>1 DEF SlotInv, Shared, keyOf, slotVars
<1>4. Owner'
  BY DEF SlotInv, SlotTypes, Owner, owns_lock, slotVars
<1>5. Counted'
  BY <1>2 DEF SlotInv, Counted, slotVars
<1>6. Needed'
  <2> SUFFICES ASSUME NEW k \in Keys, lockSlots[k] # None
               PROVE  UsersOf(lockSlots[k])' # {} /\ keyOf(lockSlots[k]) = k
    BY DEF Needed, slotVars, keyOf
  <2>1. lockSlots[k] \in Submissions /\ lockSlots'[k] = lockSlots[k]
    BY DEF SlotInv, SlotTypes, slotVars
  <2>2. UsersOf(lockSlots[k])' = UsersOf(lockSlots[k])
    BY <1>1, <2>1 DEF UsersOf
  <2> QED BY <2>2 DEF SlotInv, Needed
<1> QED BY <1>3, <1>4, <1>5, <1>6 DEF SlotInv

\* Taking a slot: an existing one gains a user, a new one has its first.
LEMMA SlotTaken ==
  ASSUME SlotInv, NEW s \in Submissions, Submit(s)
  PROVE  SlotInv'
<1> PICK k \in Keys : k = keyOf(s)
  BY KeyType DEF SlotInv
<1> PICK slot \in Submissions :
      slot = IF lockSlots[k] = None THEN s ELSE lockSlots[k]
  BY DEF SlotInv, SlotTypes
<1>1. slot # None
  BY PipelineAssumption
<1>2. /\ lockSlots' = [lockSlots EXCEPT ![k] = slot]
      /\ users' = [users EXCEPT ![slot] = @ + 1]
      /\ lock' = [lock EXCEPT ![slot] = Append(@, s)]
      /\ slotOf' = [slotOf EXCEPT ![s] = slot]
      /\ pc' = [pc EXCEPT ![s] = "lock"]
      /\ pc[s] = "idle"
      /\ UNCHANGED <<contribution, oldOf>>
  BY DEF Submit, acquire_lock_slot
<1>3. SlotTypes'
  BY <1>1, <1>2 DEF SlotInv, SlotTypes, Locals
<1>4. ~ Using(s) /\ Using(s)' /\ \A t \in Submissions \ {s} : Using(t)' <=> Using(t)
  BY <1>2 DEF SlotInv, SlotTypes, Using, InSection
<1>5. Shared'
  <2>1. slotOf'[s] = slot /\ lockSlots'[k] = slot /\ keyOf(slot) = k
    BY <1>1, <1>2 DEF SlotInv, SlotTypes, Needed
  <2>2. ASSUME NEW t \in Submissions, t # s, Using(t)
        PROVE  /\ slotOf'[t] \in Submissions
               /\ lockSlots'[keyOf(t)] = slotOf'[t]
               /\ keyOf(slotOf'[t]) = keyOf(t)
    <3>1. /\ slotOf[t] \in Submissions /\ lockSlots[keyOf(t)] = slotOf[t]
          /\ keyOf(slotOf[t]) = keyOf(t) /\ keyOf(t) \in Keys
      BY <2>2, KeyType DEF SlotInv, Shared
    <3>2. slotOf'[t] = slotOf[t]
      BY <1>2, <2>2 DEF SlotInv, SlotTypes
    <3>3. CASE keyOf(t) = k
      BY <1>1, <1>2, <3>1, <3>2, <3>3, PipelineAssumption DEF SlotInv, SlotTypes
    <3>4. CASE keyOf(t) # k
      BY <1>1, <1>2, <3>1, <3>2, <3>4 DEF SlotInv, SlotTypes
    <3> QED BY <3>3, <3>4
  <2> QED BY <1>1, <1>2, <1>4, <2>1, <2>2, ZenonT(40) DEF Shared, keyOf
<1>6. Owner'
  <2> SUFFICES ASSUME NEW t \in Submissions, pc'[t] \in InSection PROVE owns_lock(t)'
    BY DEF Owner
  <2>1. t # s /\ pc[t] \in InSection /\ slotOf'[t] = slotOf[t]
    BY <1>2 DEF SlotInv, SlotTypes, InSection
  <2>2. owns_lock(t) /\ slotOf[t] \in Submissions
    BY <2>1 DEF SlotInv, Owner, Shared, Using
  <2>3. /\ lock[slotOf[t]] \in Seq(Submissions)
        /\ \/ lock'[slotOf[t]] = lock[slotOf[t]]
           \/ lock'[slotOf[t]] = Append(lock[slotOf[t]], s)
    BY <1>1, <1>2, <2>2 DEF SlotInv, SlotTypes
  <2> QED BY <2>1, <2>2, <2>3 DEF owns_lock
<1>7. Counted'
  <2>a. slotOf'[s] = slot /\ \A t \in Submissions \ {s} : slotOf'[t] = slotOf[t]
    BY <1>1, <1>2 DEF SlotInv, SlotTypes
  <2>1. UsersOf(slot)' = UsersOf(slot) \cup {s} /\ s \notin UsersOf(slot)
    BY <1>1, <1>4, <2>a DEF UsersOf
  <2>2. \A other \in Submissions \ {slot} : UsersOf(other)' = UsersOf(other)
    BY <1>4, <2>a DEF UsersOf
  <2>3. Cardinality(UsersOf(slot)') = Cardinality(UsersOf(slot)) + 1
    BY <2>1, UsersFinite, CardinalityWith
  <2>4. users'[slot] = users[slot] + 1 /\ \A other \in Submissions \ {slot} :
          users'[other] = users[other]
    BY <1>2 DEF SlotInv, SlotTypes
  <2> QED BY <2>2, <2>3, <2>4 DEF Counted, SlotInv
<1>8. Needed'
  <2>1. s \in UsersOf(slot)'
    BY <1>1, <1>2, <1>4 DEF UsersOf, SlotInv, SlotTypes
  <2>2. keyOf(slot) = k
    BY <1>1 DEF SlotInv, Needed
  <2>3. ASSUME NEW j \in Keys, j # k, lockSlots[j] # None
        PROVE  UsersOf(lockSlots[j])' # {} /\ keyOf(lockSlots[j]) = j
    <3> PICK other \in Submissions : other = lockSlots[j]
      BY <2>3 DEF SlotInv, SlotTypes
    <3>1. UsersOf(other) # {} /\ keyOf(other) = j
      BY <2>3 DEF SlotInv, Needed
    <3>2. UsersOf(other) \subseteq UsersOf(other)'
      BY <1>2, <1>4 DEF UsersOf, SlotInv, SlotTypes
    <3>3. lockSlots'[j] = other
      BY <1>2, <2>3 DEF SlotInv, SlotTypes
    <3> QED BY <3>1, <3>2, <3>3
  <2>4. lockSlots'[k] = slot /\ \A j \in Keys \ {k} : lockSlots'[j] = lockSlots[j]
    BY <1>2 DEF SlotInv, SlotTypes
  <2> QED BY <1>2, <2>1, <2>2, <2>3, <2>4 DEF Needed, keyOf
<1> QED BY <1>3, <1>5, <1>6, <1>7, <1>8 DEF SlotInv

\* Giving a slot back: the owner leaves, and drops the slot if it was the
\* last user.
LEMMA SlotReleased ==
  ASSUME SlotInv, NEW s \in Submissions, NEW x \in Locals, NEW STATE hs, NEW STATE fs,
         Using(s), owns_lock(s), release_lock_slot(s, hs, fs),
         pc' = [pc EXCEPT ![s] = x], x # "lock", x \notin InSection,
         UNCHANGED <<contribution, slotOf>>
  PROVE  SlotInv'
<1> PICK k \in Keys : k = keyOf(s)
  BY KeyType DEF SlotInv
<1> PICK slot \in Submissions : slot = slotOf[s]
  BY DEF SlotInv, Shared
<1>1. lockSlots[k] = slot
  BY DEF SlotInv, Shared
<1>2. /\ lock' = [lock EXCEPT ![slot] = Tail(@)]
      /\ users' = [users EXCEPT ![slot] = @ - 1]
      /\ lockSlots' = IF users[slot] = 1 THEN [lockSlots EXCEPT ![k] = None]
                      ELSE lockSlots
      /\ oldOf' = [oldOf EXCEPT ![s] = {}]
  BY DEF release_lock_slot, hand_on, last_user
<1>3. ~ Using(s)' /\ \A t \in Submissions \ {s} : Using(t)' <=> Using(t)
  BY DEF SlotInv, SlotTypes, Using
<1>4. s \in UsersOf(slot)
  BY DEF UsersOf
<1>5. UsersOf(slot)' = UsersOf(slot) \ {s}
  BY <1>3 DEF UsersOf
<1>6. \A other \in Submissions \ {slot} : UsersOf(other)' = UsersOf(other)
  BY <1>3 DEF UsersOf
<1>7. /\ Cardinality(UsersOf(slot)) \in Nat \ {0}
      /\ Cardinality(UsersOf(slot)') = Cardinality(UsersOf(slot)) - 1
      /\ Cardinality(UsersOf(slot)) = 1 <=> UsersOf(slot)' = {}
  BY <1>4, <1>5, UsersFinite, CardinalityWithout
<1>8. users[slot] = Cardinality(UsersOf(slot))
  BY <1>1 DEF SlotInv, Counted
<1>9. SlotTypes'
  <2>1. users' \in [Submissions -> Nat]
    BY <1>1, <1>2, <1>7, <1>8 DEF SlotInv, SlotTypes
  <2>2. lock[slot] \in Seq(Submissions) /\ lock[slot] # <<>>
    BY <1>1 DEF SlotInv, SlotTypes, owns_lock
  <2>3. lock' \in [Submissions -> Seq(Submissions)]
    BY <1>1, <1>2, <2>2 DEF SlotInv, SlotTypes
  <2> QED BY <1>2, <2>1, <2>3 DEF SlotInv, SlotTypes
<1>10. Shared'
  <2> SUFFICES ASSUME NEW t \in Submissions, Using(t)'
               PROVE  /\ slotOf[t] \in Submissions
                      /\ lockSlots'[keyOf(t)] = slotOf[t]
                      /\ keyOf(slotOf[t]) = keyOf(t)
    BY DEF Shared, keyOf
  <2>1. t # s /\ Using(t)
    BY <1>3
  <2>2. /\ slotOf[t] \in Submissions
        /\ lockSlots[keyOf(t)] = slotOf[t]
        /\ keyOf(slotOf[t]) = keyOf(t)
    BY <2>1 DEF SlotInv, Shared
  <2>3. CASE keyOf(t) = k
    <3>1. slotOf[t] = slot /\ t \in UsersOf(slot)'
      BY <1>1, <2>2, <2>3 DEF UsersOf
    <3>2. users[slot] # 1
      BY <3>1, <1>7, <1>8
    <3> QED BY <3>2, <1>2, <2>2
  <2>4. CASE keyOf(t) # k
    BY <1>2, <2>2, <2>4 DEF SlotInv, SlotTypes
  <2> QED BY <2>3, <2>4
<1>11. Owner'
  <2> SUFFICES ASSUME NEW t \in Submissions, pc'[t] \in InSection PROVE owns_lock(t)'
    BY DEF Owner
  <2>1. t # s /\ pc[t] \in InSection
    BY DEF SlotInv, SlotTypes
  <2>2. owns_lock(t) /\ slotOf[t] \in Submissions
    BY <2>1 DEF SlotInv, Owner, Shared, Using
  <2>3. slotOf[t] # slot
    BY <2>1, <2>2 DEF owns_lock
  <2> QED BY <1>2, <2>2, <2>3 DEF owns_lock, SlotInv, SlotTypes
<1>12. Counted'
  BY <1>1, <1>2, <1>6, <1>7, <1>8 DEF Counted, SlotInv, SlotTypes
<1>13. Needed'
  <2>1. ASSUME NEW j \in Keys, lockSlots'[j] # None
        PROVE  (UsersOf(lockSlots[j]) # {} /\ keyOf(lockSlots[j]) = j)'
    <3>1. lockSlots'[j] = lockSlots[j]
      BY <1>2, <2>1 DEF SlotInv, SlotTypes
    <3> PICK other \in Submissions : other = lockSlots[j]
      BY <2>1, <3>1 DEF SlotInv, SlotTypes
    <3>2. UsersOf(other) # {} /\ keyOf(other) = j
      BY <2>1, <3>1 DEF SlotInv, Needed
    <3>3. UsersOf(other)' # {}
      <4>1. CASE other = slot
        <5>1. users[slot] # 1
          BY <1>1, <1>2, <2>1, <3>2, <4>1 DEF SlotInv, SlotTypes, Shared
        <5> QED BY <1>7, <1>8, <4>1, <5>1
      <4>2. CASE other # slot
        BY <1>6, <3>2, <4>2
      <4> QED BY <4>1, <4>2
    <3> QED BY <3>1, <3>2, <3>3 DEF UsersOf, keyOf
  <2> QED BY <2>1 DEF Needed
<1> QED BY <1>9, <1>10, <1>11, <1>12, <1>13 DEF SlotInv

-----------------------------------------------------------------------------

\* The remaining variables keep their types.
OtherTypes ==
  /\ handleOf \in [Submissions -> Submissions \cup {None}]
  /\ handles \in [Keys -> Submissions \cup {None}]
  /\ future \in [Submissions -> {"none", "pending", "result", "exception"}]
  /\ store \in [Keys -> SUBSET Submissions]
  /\ deposited \in [Keys -> SUBSET Submissions]
  /\ queue \in Seq(Keys)
  /\ plans \in SUBSET Versions

LEMMA TypesSplit == TypeOK <=> SlotTypes /\ OtherTypes
BY DEF TypeOK, SlotTypes, OtherTypes

LEMMA ReleaseTypes ==
  ASSUME OtherTypes, NEW s \in Submissions, NEW STATE hs, NEW STATE fs,
         hs \in [Keys -> Submissions \cup {None}],
         fs \in [Submissions -> {"none", "pending", "result", "exception"}],
         release_lock_slot(s, hs, fs)
  PROVE  /\ handles' \in [Keys -> Submissions \cup {None}]
         /\ future' \in [Submissions -> {"none", "pending", "result", "exception"}]
BY DEF release_lock_slot, drop_resolved

LEMMA ResolveType ==
  ASSUME OtherTypes, NEW STATE h, h \in Submissions \cup {None},
         NEW o \in {"result", "exception"}
  PROVE  resolve(future, h, o)
           \in [Submissions -> {"none", "pending", "result", "exception"}]
BY DEF OtherTypes, resolve

\* A step of somebody else.
LEMMA SlotsFrozen ==
  ASSUME SlotInv, UNCHANGED <<pc, contribution, slotOf, oldOf, slotVars>>
  PROVE  SlotInv'
BY DEF SlotInv, SlotTypes, Shared, Owner, Counted, Needed, slotVars, Using,
       UsersOf, owns_lock, keyOf

\* The slot discipline and the types hold initially and are kept by every step.
LEMMA SlotInvInit == Init => SlotInv /\ OtherTypes
<1> SUFFICES ASSUME Init PROVE SlotInv /\ OtherTypes
  OBVIOUS
<1>1. SlotTypes /\ OtherTypes
  BY DEF Init, SlotTypes, OtherTypes, Locals
<1>2. \A s \in Submissions : ~ Using(s)
  BY DEF Init, Using, InSection
<1>3. Shared /\ Owner /\ Needed
  BY <1>1, <1>2 DEF Shared, Owner, Needed, Init, Using
<1>4. Counted
  <2>1. \A slot \in Submissions : UsersOf(slot) = {}
    BY <1>2 DEF UsersOf
  <2> QED BY <2>1, FS_EmptySet DEF Counted, Init
<1> QED BY <1>1, <1>3, <1>4 DEF SlotInv

LEMMA SlotInvStep ==
  ASSUME SlotInv, OtherTypes, [Next]_vars
  PROVE  SlotInv' /\ OtherTypes'
<1>1. ASSUME NEW s \in Submissions, Submit(s) PROVE SlotInv' /\ OtherTypes'
  BY <1>1, SlotTaken DEF Submit, OtherTypes, handleVars, boxVars
<1>2. ASSUME NEW s \in Submissions, EnterReturningDone(s) PROVE SlotInv' /\ OtherTypes'
  <2>1. /\ Using(s) /\ owns_lock(s)
        /\ release_lock_slot(s, handles, future)
        /\ pc' = [pc EXCEPT ![s] = "future"]
        /\ UNCHANGED <<contribution, slotOf>>
    BY <1>2 DEF EnterReturningDone, SlotInv, Owner, Using, InSection
  <2>2. SlotInv'
    BY <2>1, SlotReleased DEF Locals, InSection
  <2>3. future \in [Submissions -> {"none", "pending", "result", "exception"}]
    BY ResolveType DEF OtherTypes
  <2>4. /\ handles' \in [Keys -> Submissions \cup {None}]
        /\ future' \in [Submissions -> {"none", "pending", "result", "exception"}]
    BY <2>1, <2>3, ReleaseTypes DEF OtherTypes
  <2>5. OtherTypes'
    BY <1>2, <2>4, KeyType DEF EnterReturningDone, OtherTypes, SlotInv, SlotTypes, boxVars
  <2> QED BY <2>2, <2>5
<1>3. ASSUME NEW s \in Submissions, EnterSection(s) PROVE SlotInv' /\ OtherTypes'
  <2>1. /\ UNCHANGED <<contribution, slotOf, slotVars>>
        /\ pc' = [pc EXCEPT ![s] = "get_all"]
    BY <1>3 DEF EnterSection
  <2>2. SlotTypes' /\ OtherTypes'
    BY <1>3, KeyType, ZenonT(40) DEF EnterSection, SlotInv, SlotTypes, OtherTypes, Locals, InSection,
       slotVars, handleVars, boxVars, setdefault
  <2>3. /\ Using(s) <=> pc'[s] = "lock" \/ pc'[s] \in InSection
        /\ pc'[s] \in InSection => owns_lock(s)
    BY <1>3 DEF EnterSection, Using, InSection, SlotInv, SlotTypes, Owner
  <2>4. pc' = [pc EXCEPT ![s] = pc'[s]] /\ pc'[s] \in Locals
    BY <2>1, <2>2 DEF SlotInv, SlotTypes
  <2> QED BY <2>1, <2>2, <2>3, <2>4, SlotsUntouched
<1>4. ASSUME NEW s \in Submissions, GetAll(s) PROVE SlotInv' /\ OtherTypes'
  <2>1. /\ UNCHANGED <<contribution, slotOf, slotVars>>
        /\ pc' = [pc EXCEPT ![s] = "validate"]
    BY <1>4 DEF GetAll
  <2>2. SlotTypes' /\ OtherTypes'
    BY <1>4, KeyType DEF GetAll, SlotInv, SlotTypes, OtherTypes, Locals, InSection,
       slotVars, handleVars, boxVars, setdefault
  <2>3. /\ Using(s) <=> pc'[s] = "lock" \/ pc'[s] \in InSection
        /\ pc'[s] \in InSection => owns_lock(s)
    BY <1>4 DEF GetAll, Using, InSection, SlotInv, SlotTypes, Owner
  <2>4. pc' = [pc EXCEPT ![s] = pc'[s]] /\ pc'[s] \in Locals
    BY <2>1, <2>2 DEF SlotInv, SlotTypes
  <2> QED BY <2>1, <2>2, <2>3, <2>4, SlotsUntouched
<1>5. ASSUME NEW s \in Submissions, ValidateUnknownPlan(s) PROVE SlotInv' /\ OtherTypes'
  <2>1. /\ Using(s) /\ owns_lock(s)
        /\ release_lock_slot(s, handles, resolve(future, handleOf[s], "exception"))
        /\ pc' = [pc EXCEPT ![s] = "future"]
        /\ UNCHANGED <<contribution, slotOf>>
    BY <1>5 DEF ValidateUnknownPlan, SlotInv, Owner, Using, InSection
  <2>2. SlotInv'
    BY <2>1, SlotReleased DEF Locals, InSection
  <2>3. resolve(future, handleOf[s], "exception") \in [Submissions -> {"none", "pending", "result", "exception"}]
    BY ResolveType DEF OtherTypes
  <2>4. /\ handles' \in [Keys -> Submissions \cup {None}]
        /\ future' \in [Submissions -> {"none", "pending", "result", "exception"}]
    BY <2>1, <2>3, ReleaseTypes DEF OtherTypes
  <2>5. OtherTypes'
    BY <1>5, <2>4, KeyType DEF ValidateUnknownPlan, OtherTypes, SlotInv, SlotTypes, boxVars
  <2> QED BY <2>2, <2>5
<1>6. ASSUME NEW s \in Submissions, ValidateInvalid(s) PROVE SlotInv' /\ OtherTypes'
  <2>1. /\ Using(s) /\ owns_lock(s)
        /\ release_lock_slot(s, handles, future)
        /\ pc' = [pc EXCEPT ![s] = "raised"]
        /\ UNCHANGED <<contribution, slotOf>>
    BY <1>6 DEF ValidateInvalid, SlotInv, Owner, Using, InSection
  <2>2. SlotInv'
    BY <2>1, SlotReleased DEF Locals, InSection
  <2>3. future \in [Submissions -> {"none", "pending", "result", "exception"}]
    BY ResolveType DEF OtherTypes
  <2>4. /\ handles' \in [Keys -> Submissions \cup {None}]
        /\ future' \in [Submissions -> {"none", "pending", "result", "exception"}]
    BY <2>1, <2>3, ReleaseTypes DEF OtherTypes
  <2>5. OtherTypes'
    BY <1>6, <2>4, KeyType DEF ValidateInvalid, OtherTypes, SlotInv, SlotTypes, boxVars
  <2> QED BY <2>2, <2>5
<1>7. ASSUME NEW s \in Submissions, ValidateAccepted(s) PROVE SlotInv' /\ OtherTypes'
  <2>1. /\ UNCHANGED <<contribution, slotOf, slotVars>>
        /\ pc' = [pc EXCEPT ![s] = "is_ready"]
    BY <1>7 DEF ValidateAccepted
  <2>2. SlotTypes' /\ OtherTypes'
    BY <1>7, KeyType DEF ValidateAccepted, SlotInv, SlotTypes, OtherTypes, Locals, InSection,
       slotVars, handleVars, boxVars, setdefault
  <2>3. /\ Using(s) <=> pc'[s] = "lock" \/ pc'[s] \in InSection
        /\ pc'[s] \in InSection => owns_lock(s)
    BY <1>7 DEF ValidateAccepted, Using, InSection, SlotInv, SlotTypes, Owner
  <2>4. pc' = [pc EXCEPT ![s] = pc'[s]] /\ pc'[s] \in Locals
    BY <2>1, <2>2 DEF SlotInv, SlotTypes
  <2> QED BY <2>1, <2>2, <2>3, <2>4, SlotsUntouched
<1>8. ASSUME NEW s \in Submissions, IsReady(s) PROVE SlotInv' /\ OtherTypes'
  <2>1. /\ UNCHANGED <<contribution, slotOf, slotVars>>
        /\ pc' = [pc EXCEPT ![s] = IF is_ready(s) THEN "deposit" ELSE "put"]
    BY <1>8 DEF IsReady
  <2>2. SlotTypes' /\ OtherTypes'
    BY <1>8, KeyType DEF IsReady, SlotInv, SlotTypes, OtherTypes, Locals, InSection,
       slotVars, handleVars, boxVars, setdefault
  <2>3. /\ Using(s) <=> pc'[s] = "lock" \/ pc'[s] \in InSection
        /\ pc'[s] \in InSection => owns_lock(s)
    BY <1>8 DEF IsReady, Using, InSection, SlotInv, SlotTypes, Owner
  <2>4. pc' = [pc EXCEPT ![s] = pc'[s]] /\ pc'[s] \in Locals
    BY <2>1, <2>2 DEF SlotInv, SlotTypes
  <2> QED BY <2>1, <2>2, <2>3, <2>4, SlotsUntouched
<1>9. ASSUME NEW s \in Submissions, Deposit(s) PROVE SlotInv' /\ OtherTypes'
  <2>1. /\ UNCHANGED <<contribution, slotOf, slotVars>>
        /\ pc' = [pc EXCEPT ![s] = "discard"]
    BY <1>9 DEF Deposit
  <2>2. SlotTypes' /\ OtherTypes'
    BY <1>9, KeyType DEF Deposit, SlotInv, SlotTypes, OtherTypes, Locals, InSection,
       slotVars, handleVars, boxVars, setdefault
  <2>3. /\ Using(s) <=> pc'[s] = "lock" \/ pc'[s] \in InSection
        /\ pc'[s] \in InSection => owns_lock(s)
    BY <1>9 DEF Deposit, Using, InSection, SlotInv, SlotTypes, Owner
  <2>4. pc' = [pc EXCEPT ![s] = pc'[s]] /\ pc'[s] \in Locals
    BY <2>1, <2>2 DEF SlotInv, SlotTypes
  <2> QED BY <2>1, <2>2, <2>3, <2>4, SlotsUntouched
<1>10. ASSUME NEW s \in Submissions, DepositDuplicate(s) PROVE SlotInv' /\ OtherTypes'
  <2>1. /\ Using(s) /\ owns_lock(s)
        /\ release_lock_slot(s, handles, future)
        /\ pc' = [pc EXCEPT ![s] = "raised"]
        /\ UNCHANGED <<contribution, slotOf>>
    BY <1>10 DEF DepositDuplicate, SlotInv, Owner, Using, InSection
  <2>2. SlotInv'
    BY <2>1, SlotReleased DEF Locals, InSection
  <2>3. future \in [Submissions -> {"none", "pending", "result", "exception"}]
    BY ResolveType DEF OtherTypes
  <2>4. /\ handles' \in [Keys -> Submissions \cup {None}]
        /\ future' \in [Submissions -> {"none", "pending", "result", "exception"}]
    BY <2>1, <2>3, ReleaseTypes DEF OtherTypes
  <2>5. OtherTypes'
    BY <1>10, <2>4, KeyType DEF DepositDuplicate, OtherTypes, SlotInv, SlotTypes, boxVars
  <2> QED BY <2>2, <2>5
<1>11. ASSUME NEW s \in Submissions, Discard(s) PROVE SlotInv' /\ OtherTypes'
  <2>1. /\ Using(s) /\ owns_lock(s)
        /\ release_lock_slot(s, handles, resolve(future, handleOf[s], "result"))
        /\ pc' = [pc EXCEPT ![s] = "future"]
        /\ UNCHANGED <<contribution, slotOf>>
    BY <1>11 DEF Discard, SlotInv, Owner, Using, InSection
  <2>2. SlotInv'
    BY <2>1, SlotReleased DEF Locals, InSection
  <2>3. resolve(future, handleOf[s], "result") \in [Submissions -> {"none", "pending", "result", "exception"}]
    BY ResolveType DEF OtherTypes
  <2>4. /\ handles' \in [Keys -> Submissions \cup {None}]
        /\ future' \in [Submissions -> {"none", "pending", "result", "exception"}]
    BY <2>1, <2>3, ReleaseTypes DEF OtherTypes
  <2>5. OtherTypes'
    BY <1>11, <2>4, KeyType DEF Discard, OtherTypes, SlotInv, SlotTypes, boxVars
  <2> QED BY <2>2, <2>5
<1>12. ASSUME NEW s \in Submissions, Put(s) PROVE SlotInv' /\ OtherTypes'
  <2>1. /\ Using(s) /\ owns_lock(s)
        /\ release_lock_slot(s, handles, future)
        /\ pc' = [pc EXCEPT ![s] = "future"]
        /\ UNCHANGED <<contribution, slotOf>>
    BY <1>12 DEF Put, SlotInv, Owner, Using, InSection
  <2>2. SlotInv'
    BY <2>1, SlotReleased DEF Locals, InSection
  <2>3. future \in [Submissions -> {"none", "pending", "result", "exception"}]
    BY ResolveType DEF OtherTypes
  <2>4. /\ handles' \in [Keys -> Submissions \cup {None}]
        /\ future' \in [Submissions -> {"none", "pending", "result", "exception"}]
    BY <2>1, <2>3, ReleaseTypes DEF OtherTypes
  <2>5. OtherTypes'
    BY <1>12, <2>4, KeyType DEF Put, OtherTypes, SlotInv, SlotTypes, boxVars
  <2> QED BY <2>2, <2>5
<1>13. ASSUME NEW s \in Submissions, Answer(s) PROVE SlotInv' /\ OtherTypes'
  <2>1. /\ UNCHANGED <<contribution, slotOf, slotVars>>
        /\ pc' = [pc EXCEPT ![s] = IF future[handleOf[s]] = "result" THEN "acked" ELSE "raised"]
    BY <1>13 DEF Answer
  <2>2. SlotTypes' /\ OtherTypes'
    BY <1>13, KeyType DEF Answer, SlotInv, SlotTypes, OtherTypes, Locals, InSection,
       slotVars, handleVars, boxVars, setdefault
  <2>3. /\ Using(s) <=> pc'[s] = "lock" \/ pc'[s] \in InSection
        /\ pc'[s] \in InSection => owns_lock(s)
    BY <1>13 DEF Answer, Using, InSection, SlotInv, SlotTypes, Owner
  <2>4. pc' = [pc EXCEPT ![s] = pc'[s]] /\ pc'[s] \in Locals
    BY <2>1, <2>2 DEF SlotInv, SlotTypes
  <2> QED BY <2>1, <2>2, <2>3, <2>4, SlotsUntouched
<1>14. CASE ExtractNext \/ \E v \in Versions : PutPlan(v)
  <2>1. UNCHANGED <<pc, contribution, slotOf, oldOf, slotVars>> /\ OtherTypes'
    <3>1. CASE ExtractNext
      BY <3>1 DEF ExtractNext, OtherTypes, handleVars
    <3>2. ASSUME NEW v \in Versions, PutPlan(v)
          PROVE  UNCHANGED <<pc, contribution, slotOf, oldOf, slotVars>> /\ OtherTypes'
      BY <3>2 DEF PutPlan, OtherTypes, handleVars, boxVars
    <3> QED BY <1>14, <3>1, <3>2
  <2> QED BY <2>1, SlotsFrozen
<1>15. CASE UNCHANGED vars
  <2>1. UNCHANGED <<pc, contribution, slotOf, oldOf, slotVars>> /\ OtherTypes'
    BY <1>15 DEF vars, OtherTypes, handleVars, boxVars
  <2> QED BY <2>1, SlotsFrozen
<1> QED
  BY <1>1, <1>2, <1>3, <1>4, <1>5, <1>6, <1>7, <1>8, <1>9, <1>10, <1>11, <1>12, <1>13, <1>14, <1>15 DEF Next, Step

\* Every variable keeps its shape in every behaviour.
THEOREM TypeCorrect == Spec => []TypeOK
<1> DEFINE I == SlotInv /\ OtherTypes
<1>1. Init => I
  BY SlotInvInit
<1>2. I /\ [Next]_vars => I'
  BY SlotInvStep
<1>3. I => TypeOK
  BY TypesSplit DEF SlotInv
<1> QED BY <1>1, <1>2, <1>3, PTL DEF Spec

LEMMA SlotInvImpliesMutex == SlotInv => MutualExclusion
<1> SUFFICES ASSUME SlotInv, NEW s \in Submissions, NEW t \in Submissions,
                    pc[s] \in InSection, pc[t] \in InSection, keyOf(s) = keyOf(t)
             PROVE  s = t
  BY DEF MutualExclusion
<1>1. slotOf[s] = slotOf[t]
  BY DEF SlotInv, Shared, Using
<1> QED BY <1>1 DEF SlotInv, Owner, owns_lock

\* At most one submission per key is inside the critical section, whatever
\* the number of submissions and the order in which slots come and go.
THEOREM MutualExclusionHolds == Spec => []MutualExclusion
<1> DEFINE I == SlotInv /\ OtherTypes
<1>1. Init => I
  BY SlotInvInit
<1>2. I /\ [Next]_vars => I'
  BY SlotInvStep
<1>3. I => MutualExclusion
  BY SlotInvImpliesMutex
<1> QED BY <1>1, <1>2, <1>3, PTL DEF Spec

\* User counts are exact and no slot is leaked or lost.
THEOREM LockSlotAccountingHolds == Spec => []LockSlotAccounting
<1> DEFINE I == SlotInv /\ OtherTypes
<1>1. Init => I
  BY SlotInvInit
<1>2. I /\ [Next]_vars => I'
  BY SlotInvStep
<1>3. I => LockSlotAccounting
  <2> SUFFICES ASSUME SlotInv PROVE LockSlotAccounting
    OBVIOUS
  <2>1. ASSUME NEW k \in Keys, lockSlots[k] # None
        PROVE  \E s \in Submissions : Using(s) /\ keyOf(s) = k
    <3> PICK slot \in Submissions : slot = lockSlots[k]
      BY <2>1 DEF SlotInv, SlotTypes
    <3> PICK s \in UsersOf(slot) : TRUE
      BY <2>1 DEF SlotInv, Needed
    <3> QED BY <2>1 DEF SlotInv, Needed, Shared, UsersOf
  <2> QED BY <2>1 DEF SlotInv, Counted, Shared, LockSlotAccounting
<1> QED BY <1>1, <1>2, <1>3, PTL DEF Spec

\* The submissions of a key are serialised, by a lock that is neither lost nor
\* leaked, whatever their number.
THEOREM KeysAreSerialisedHolds == Spec => []KeysAreSerialised
<1>1. MutualExclusion /\ LockSlotAccounting => KeysAreSerialised
  BY DEF KeysAreSerialised
<1> QED BY <1>1, MutualExclusionHolds, LockSlotAccountingHolds, PTL

-----------------------------------------------------------------------------
(* What is gathered.                                                       *)

Coherent(k, C) ==
  /\ \A s \in C : keyOf(s) = k
  /\ \A s, t \in C :
       s # t => contribution[s].tensors \cap contribution[t].tensors = {}

Snapshot == \A s \in Submissions :
  pc[s] \in {"validate", "is_ready", "deposit", "put"} => oldOf[s] = store[keyOf(s)]
Validated == \A s \in Submissions :
  pc[s] \in {"is_ready", "deposit", "put"} => validate(s, oldOf[s])
Completing == \A s \in Submissions : pc[s] = "deposit" => is_ready(s)
Kept == \A k \in Keys : Coherent(k, store[k])

DataInv ==
  /\ SlotInv /\ OtherTypes
  /\ Snapshot /\ Validated /\ Completing /\ Kept /\ DepositedCollectionsAreExact

LEMMA CoherentWith ==
  ASSUME NEW k, NEW C \in SUBSET Submissions, NEW s \in Submissions,
         Coherent(k, C), keyOf(s) = k, validate(s, C)
  PROVE  Coherent(k, C \cup {s})
<1>1. \A t \in C : contribution[s].tensors \cap contribution[t].tensors = {}
  BY DEF validate, TensorsOf
<1> QED BY <1>1 DEF Coherent

\* A step of s that leaves the collections alone keeps what is known of all
\* other submissions; what must be shown is what s itself now claims.
LEMMA DataQuiet ==
  ASSUME DataInv, SlotInv', OtherTypes', NEW s \in Submissions,
         \A t \in Submissions \ {s} : pc'[t] = pc[t] /\ oldOf'[t] = oldOf[t],
         UNCHANGED <<contribution, store, deposited>>,
         pc'[s] \in {"validate", "is_ready", "deposit", "put"} =>
           oldOf'[s] = store[keyOf(s)],
         pc'[s] \in {"is_ready", "deposit", "put"} => validate(s, oldOf'[s]),
         pc'[s] = "deposit" => check_inputs_ready(keyOf(s), oldOf'[s] \cup {s})
  PROVE  DataInv'
<1>1. Snapshot'
  BY DEF DataInv, Snapshot, keyOf
<1>2. Validated'
  BY DEF DataInv, Validated, validate, TensorsOf
<1>3. Completing'
  BY DEF DataInv, Completing, is_ready, check_inputs_ready, ArrivedFrom, TensorsOf, keyOf
<1>4. Kept'
  BY DEF DataInv, Kept, Coherent, keyOf
<1>5. DepositedCollectionsAreExact'
  BY DEF DataInv, DepositedCollectionsAreExact, check_inputs_ready, ArrivedFrom,
         TensorsOf, keyOf
<1> QED BY <1>1, <1>2, <1>3, <1>4, <1>5 DEF DataInv

LEMMA DataFrozen ==
  ASSUME DataInv, SlotInv', OtherTypes',
         UNCHANGED <<pc, contribution, oldOf, store, deposited>>
  PROVE  DataInv'
<1>1. Snapshot' /\ Validated' /\ Completing'
  BY DEF DataInv, Snapshot, Validated, Completing, validate, is_ready,
         check_inputs_ready, ArrivedFrom, TensorsOf, keyOf
<1>2. Kept' /\ DepositedCollectionsAreExact'
  BY DEF DataInv, Kept, Coherent, DepositedCollectionsAreExact, check_inputs_ready,
         ArrivedFrom, TensorsOf, keyOf
<1> QED BY <1>1, <1>2 DEF DataInv

\* A step of s that changes what is kept for its own key: nobody else is in
\* the section of that key.
LEMMA DataStored ==
  ASSUME DataInv, SlotInv', OtherTypes', NEW s \in Submissions, pc[s] \in InSection,
         \A t \in Submissions \ {s} : pc'[t] = pc[t] /\ oldOf'[t] = oldOf[t],
         pc'[s] \notin InSection,
         NEW STATE C, Coherent(keyOf(s), C),
         store' = [store EXCEPT ![keyOf(s)] = C],
         UNCHANGED <<contribution, deposited>>
  PROVE  DataInv'
<1>1. \A t \in Submissions \ {s} : pc[t] \in InSection => keyOf(t) # keyOf(s)
  BY SlotInvImpliesMutex DEF DataInv, MutualExclusion
<1>2. \A t \in Submissions : keyOf(t) \in Keys
  BY KeyType DEF DataInv, SlotInv
<1>3. Snapshot'
  BY <1>1, <1>2 DEF DataInv, Snapshot, keyOf, InSection, OtherTypes
<1>4. Validated'
  BY DEF DataInv, Validated, validate, TensorsOf, InSection
<1>5. Completing'
  BY DEF DataInv, Completing, is_ready, check_inputs_ready, ArrivedFrom, TensorsOf,
         keyOf, InSection
<1>6. Kept'
  BY <1>2 DEF DataInv, Kept, Coherent, keyOf, OtherTypes
<1>7. DepositedCollectionsAreExact'
  BY DEF DataInv, DepositedCollectionsAreExact, check_inputs_ready, ArrivedFrom,
         TensorsOf, keyOf
<1> QED BY <1>3, <1>4, <1>5, <1>6, <1>7 DEF DataInv

LEMMA DataInvInit == Init => DataInv
<1> SUFFICES ASSUME Init PROVE DataInv
  OBVIOUS
<1>1. Snapshot /\ Validated /\ Completing
  BY DEF Init, Snapshot, Validated, Completing
<1>2. Kept /\ DepositedCollectionsAreExact
  BY DEF Init, Kept, Coherent, DepositedCollectionsAreExact
<1> QED BY <1>1, <1>2, SlotInvInit DEF DataInv

LEMMA DataInvStep ==
  ASSUME DataInv, [Next]_vars
  PROVE  DataInv'
<1> USE DEF boxVars
<1>0. SlotInv' /\ OtherTypes'
  BY SlotInvStep DEF DataInv
<1>1. ASSUME NEW s \in Submissions, Submit(s) PROVE DataInv'
  <2>1. /\ \A t \in Submissions \ {s} : pc'[t] = pc[t] /\ oldOf'[t] = oldOf[t]
        /\ UNCHANGED <<contribution, store, deposited>>
        /\ pc'[s] \notin {"validate", "is_ready", "deposit", "put"}
    BY <1>1 DEF Submit, release_lock_slot, DataInv, SlotInv, SlotTypes
  <2> QED BY <1>0, <2>1, DataQuiet
<1>2. ASSUME NEW s \in Submissions, EnterReturningDone(s) PROVE DataInv'
  <2>1. /\ \A t \in Submissions \ {s} : pc'[t] = pc[t] /\ oldOf'[t] = oldOf[t]
        /\ UNCHANGED <<contribution, store, deposited>>
        /\ pc'[s] \notin {"validate", "is_ready", "deposit", "put"}
    BY <1>2 DEF EnterReturningDone, release_lock_slot, DataInv, SlotInv, SlotTypes
  <2> QED BY <1>0, <2>1, DataQuiet
<1>3. ASSUME NEW s \in Submissions, EnterSection(s) PROVE DataInv'
  <2>1. /\ \A t \in Submissions \ {s} : pc'[t] = pc[t] /\ oldOf'[t] = oldOf[t]
        /\ UNCHANGED <<contribution, store, deposited>>
        /\ pc'[s] \notin {"validate", "is_ready", "deposit", "put"}
    BY <1>3 DEF EnterSection, release_lock_slot, DataInv, SlotInv, SlotTypes
  <2> QED BY <1>0, <2>1, DataQuiet
<1>4. ASSUME NEW s \in Submissions, ValidateUnknownPlan(s) PROVE DataInv'
  <2>1. /\ \A t \in Submissions \ {s} : pc'[t] = pc[t] /\ oldOf'[t] = oldOf[t]
        /\ UNCHANGED <<contribution, store, deposited>>
        /\ pc'[s] \notin {"validate", "is_ready", "deposit", "put"}
    BY <1>4 DEF ValidateUnknownPlan, release_lock_slot, DataInv, SlotInv, SlotTypes
  <2> QED BY <1>0, <2>1, DataQuiet
<1>5. ASSUME NEW s \in Submissions, ValidateInvalid(s) PROVE DataInv'
  <2>1. /\ \A t \in Submissions \ {s} : pc'[t] = pc[t] /\ oldOf'[t] = oldOf[t]
        /\ UNCHANGED <<contribution, store, deposited>>
        /\ pc'[s] \notin {"validate", "is_ready", "deposit", "put"}
    BY <1>5 DEF ValidateInvalid, release_lock_slot, DataInv, SlotInv, SlotTypes
  <2> QED BY <1>0, <2>1, DataQuiet
<1>6. ASSUME NEW s \in Submissions, DepositDuplicate(s) PROVE DataInv'
  <2>1. /\ \A t \in Submissions \ {s} : pc'[t] = pc[t] /\ oldOf'[t] = oldOf[t]
        /\ UNCHANGED <<contribution, store, deposited>>
        /\ pc'[s] \notin {"validate", "is_ready", "deposit", "put"}
    BY <1>6 DEF DepositDuplicate, release_lock_slot, DataInv, SlotInv, SlotTypes
  <2> QED BY <1>0, <2>1, DataQuiet
<1>7. ASSUME NEW s \in Submissions, Answer(s) PROVE DataInv'
  <2>1. /\ \A t \in Submissions \ {s} : pc'[t] = pc[t] /\ oldOf'[t] = oldOf[t]
        /\ UNCHANGED <<contribution, store, deposited>>
        /\ pc'[s] \notin {"validate", "is_ready", "deposit", "put"}
    BY <1>7 DEF Answer, release_lock_slot, DataInv, SlotInv, SlotTypes
  <2> QED BY <1>0, <2>1, DataQuiet
<1>8. ASSUME NEW s \in Submissions, GetAll(s) PROVE DataInv'
  <2>1. /\ \A t \in Submissions \ {s} : pc'[t] = pc[t] /\ oldOf'[t] = oldOf[t]
        /\ UNCHANGED <<contribution, store, deposited>>
    BY <1>8 DEF GetAll, DataInv, SlotInv, SlotTypes
  <2>2. pc'[s] = "validate" /\ oldOf'[s] = store[keyOf(s)]
    BY <1>8 DEF GetAll, DataInv, SlotInv, SlotTypes
  <2> QED BY <1>0, <2>1, <2>2, DataQuiet
<1>9. ASSUME NEW s \in Submissions, ValidateAccepted(s) PROVE DataInv'
  <2>1. /\ \A t \in Submissions \ {s} : pc'[t] = pc[t] /\ oldOf'[t] = oldOf[t]
        /\ UNCHANGED <<contribution, store, deposited>>
    BY <1>9 DEF ValidateAccepted, DataInv, SlotInv, SlotTypes
  <2>2. pc[s] = "validate" /\ pc'[s] = "is_ready" /\ oldOf'[s] = oldOf[s]
    BY <1>9 DEF ValidateAccepted, DataInv, SlotInv, SlotTypes
  <2>3. oldOf[s] = store[keyOf(s)] /\ validate(s, oldOf'[s])
    BY <1>9, <2>2 DEF ValidateAccepted, DataInv, Snapshot
  <2> QED BY <1>0, <2>1, <2>2, <2>3, DataQuiet
<1>10. ASSUME NEW s \in Submissions, IsReady(s) PROVE DataInv'
  <2>1. /\ \A t \in Submissions \ {s} : pc'[t] = pc[t] /\ oldOf'[t] = oldOf[t]
        /\ UNCHANGED <<contribution, store, deposited>>
    BY <1>10 DEF IsReady, DataInv, SlotInv, SlotTypes
  <2>2. /\ pc[s] = "is_ready" /\ oldOf'[s] = oldOf[s]
        /\ pc'[s] = IF is_ready(s) THEN "deposit" ELSE "put"
    BY <1>10 DEF IsReady, DataInv, SlotInv, SlotTypes
  <2>3. oldOf[s] = store[keyOf(s)] /\ validate(s, oldOf'[s])
    BY <2>2 DEF DataInv, Snapshot, Validated
  <2>4. pc'[s] = "deposit" => check_inputs_ready(keyOf(s), oldOf'[s] \cup {s})
    BY <2>2 DEF is_ready
  <2> QED BY <1>0, <2>1, <2>2, <2>3, <2>4, DataQuiet
<1>11. ASSUME NEW s \in Submissions, Deposit(s) PROVE DataInv'
  <2>1. /\ \A t \in Submissions \ {s} : pc'[t] = pc[t]
        /\ pc[s] = "deposit" /\ pc'[s] = "discard"
        /\ deposited' = [deposited EXCEPT ![keyOf(s)] = oldOf[s] \cup {s}]
        /\ UNCHANGED <<contribution, oldOf, store>>
    BY <1>11 DEF Deposit, DataInv, SlotInv, SlotTypes
  <2>2. keyOf(s) \in Keys /\ oldOf[s] \in SUBSET Submissions
    BY KeyType DEF DataInv, SlotInv, SlotTypes
  <2>3. Coherent(keyOf(s), oldOf[s])
    BY <2>1, <2>2 DEF DataInv, Snapshot, Kept
  <2>4. Coherent(keyOf(s), oldOf[s] \cup {s})
    BY <2>1, <2>2, <2>3, CoherentWith DEF DataInv, Validated
  <2>5. check_inputs_ready(keyOf(s), oldOf[s] \cup {s})
    BY <2>1 DEF DataInv, Completing, is_ready
  <2>6. DepositedCollectionsAreExact'
    <3> SUFFICES ASSUME NEW k \in Keys, deposited'[k] # {}
                 PROVE  Coherent(k, deposited'[k]) /\ check_inputs_ready(k, deposited'[k])
      BY <2>1 DEF DepositedCollectionsAreExact, Coherent, keyOf, check_inputs_ready,
                  ArrivedFrom, TensorsOf
    <3>1. CASE k = keyOf(s)
      BY <2>1, <2>2, <2>4, <2>5, <3>1 DEF DataInv, OtherTypes
    <3>2. CASE k # keyOf(s)
      <4>1. deposited'[k] = deposited[k]
        BY <2>1, <3>2 DEF DataInv, OtherTypes
      <4> QED BY <4>1 DEF DataInv, DepositedCollectionsAreExact, Coherent
    <3> QED BY <3>1, <3>2
  <2>7. Snapshot' /\ Validated' /\ Completing'
    BY <2>1 DEF DataInv, Snapshot, Validated, Completing, validate, is_ready,
                check_inputs_ready, ArrivedFrom, TensorsOf, keyOf
  <2>8. Kept'
    BY <2>1 DEF DataInv, Kept, Coherent, keyOf
  <2> QED BY <1>0, <2>6, <2>7, <2>8 DEF DataInv
<1>12. ASSUME NEW s \in Submissions, Discard(s) PROVE DataInv'
  <2>1. /\ \A t \in Submissions \ {s} : pc'[t] = pc[t] /\ oldOf'[t] = oldOf[t]
        /\ pc[s] = "discard" /\ pc'[s] = "future"
        /\ store' = [store EXCEPT ![keyOf(s)] = {}]
        /\ UNCHANGED <<contribution, deposited>>
    BY <1>12 DEF Discard, release_lock_slot, DataInv, SlotInv, SlotTypes
  <2>2. Coherent(keyOf(s), {})
    BY DEF Coherent
  <2>3. pc[s] \in InSection /\ pc'[s] \notin InSection
    BY <2>1 DEF InSection
  <2> QED BY <1>0, <2>1, <2>2, <2>3, DataStored
<1>13. ASSUME NEW s \in Submissions, Put(s) PROVE DataInv'
  <2>1. /\ \A t \in Submissions \ {s} : pc'[t] = pc[t] /\ oldOf'[t] = oldOf[t]
        /\ pc[s] = "put" /\ pc'[s] = "future"
        /\ store' = [store EXCEPT ![keyOf(s)] = store[keyOf(s)] \cup {s}]
        /\ UNCHANGED <<contribution, deposited>>
    BY <1>13 DEF Put, release_lock_slot, DataInv, SlotInv, SlotTypes
  <2>2. Coherent(keyOf(s), store[keyOf(s)] \cup {s})
    <3>1. keyOf(s) \in Keys /\ store[keyOf(s)] \in SUBSET Submissions
      BY KeyType DEF DataInv, SlotInv, OtherTypes
    <3>2. Coherent(keyOf(s), store[keyOf(s)]) /\ validate(s, store[keyOf(s)])
      BY <2>1, <3>1 DEF DataInv, Kept, Snapshot, Validated
    <3> QED BY <3>1, <3>2, CoherentWith
  <2>3. pc[s] \in InSection /\ pc'[s] \notin InSection
    BY <2>1 DEF InSection
  <2> QED BY <1>0, <2>1, <2>2, <2>3, DataStored
<1>14. CASE ExtractNext
  BY <1>0, <1>14, DataFrozen DEF ExtractNext
<1>15. ASSUME NEW v \in Versions, PutPlan(v) PROVE DataInv'
  BY <1>0, <1>15, DataFrozen DEF PutPlan
<1>16. CASE UNCHANGED vars
  BY <1>0, <1>16, DataFrozen DEF vars
<1> QED
  BY <1>1, <1>2, <1>3, <1>4, <1>5, <1>6, <1>7, <1>8, <1>9, <1>10, <1>11, <1>12, <1>13, <1>14, <1>15, <1>16 DEF Next, Step

\* Whatever is handed to the coordination loops is a whole hop input, every
\* tensor of every source exactly once.
THEOREM DepositedExactHolds == Spec => []DepositedCollectionsAreExact
<1>1. Init => DataInv
  BY DataInvInit
<1>2. DataInv /\ [Next]_vars => DataInv'
  BY DataInvStep
<1>3. DataInv => DepositedCollectionsAreExact
  BY DEF DataInv
<1> QED BY <1>1, <1>2, <1>3, PTL DEF Spec

-----------------------------------------------------------------------------
(* What sources are told.                                                  *)

HandleTyped == \A s \in Submissions :
  /\ pc[s] \in InSection \cup {"future", "acked"} => handleOf[s] \in Submissions
  /\ handleOf[s] # None => keyOf(handleOf[s]) = keyOf(s)
TableKeyed == \A k \in Keys : handles[k] # None =>
  keyOf(handles[k]) = k /\ future[handles[k]] # "none"
Unresolved == \A s \in Submissions :
  pc[s] \in InSection => future[handleOf[s]] = "pending"
PlanKnown == \A s \in Submissions :
  pc[s] \in {"is_ready", "deposit", "put"} => VersionOf[keyOf(s)] \in plans
Taken == \A s \in Submissions, k \in Keys : s \in store[k] \cup deposited[k] =>
  /\ pc[s] \in {"discard", "future", "acked"}
  /\ VersionOf[keyOf(s)] \in plans
  /\ future[handleOf[s]] # "exception"
Resolved ==
  /\ \A h \in Submissions : future[h] = "result" => deposited[keyOf(h)] # {}
  /\ \A s \in Submissions : pc[s] \in {"discard", "acked"} => deposited[keyOf(s)] # {}

AnswerInv ==
  DataInv /\ HandleTyped /\ TableKeyed /\ Unresolved /\ PlanKnown /\ Taken /\ Resolved

LEMMA AnswerInvInit == Init => AnswerInv
<1> SUFFICES ASSUME Init PROVE AnswerInv
  OBVIOUS
<1>1. HandleTyped /\ TableKeyed /\ Unresolved /\ PlanKnown /\ Taken /\ Resolved
  BY DEF Init, HandleTyped, TableKeyed, Unresolved, PlanKnown, Taken, Resolved, InSection
<1> QED BY <1>1, DataInvInit DEF AnswerInv

\* A step of s that changes no future and no collection.
LEMMA AnswerQuiet ==
  ASSUME AnswerInv, DataInv', NEW s \in Submissions,
         \A t \in Submissions \ {s} : pc'[t] = pc[t] /\ handleOf'[t] = handleOf[t],
         UNCHANGED <<contribution, future, store, deposited, plans>>,
         \A k \in Keys : handles'[k] \in {handles[k], None, handleOf[s]},
         \A k \in Keys : handles'[k] \in {handles[k], None} \/ k = keyOf(s),
         pc[s] \in {"discard", "future", "acked"} =>
           pc'[s] \in {"discard", "future", "acked"} \/ future[handleOf[s]] = "exception",
         \A k \in Keys : handles'[k] # handles[k] /\ handles'[k] # None =>
           future[handleOf[s]] = "pending",
         handleOf'[s] = handleOf[s] \/ pc[s] = "lock",
         handleOf'[s] # None => keyOf(handleOf'[s]) = keyOf(s),
         pc'[s] \in InSection \cup {"future", "acked"} => handleOf'[s] \in Submissions,
         pc'[s] \in InSection => future[handleOf'[s]] = "pending",
         pc'[s] \in {"is_ready", "deposit", "put"} => VersionOf[keyOf(s)] \in plans,
         pc'[s] \in {"discard", "acked"} => deposited[keyOf(s)] # {}
  PROVE  AnswerInv'
<1>1. HandleTyped'
  BY DEF AnswerInv, HandleTyped, keyOf
<1>2. TableKeyed'
  BY DEF AnswerInv, HandleTyped, TableKeyed, keyOf
<1>3. Unresolved' /\ PlanKnown'
  BY DEF AnswerInv, Unresolved, PlanKnown, keyOf
<1>4. Taken'
  BY DEF AnswerInv, Taken, keyOf
<1>5. Resolved'
  BY DEF AnswerInv, Resolved, keyOf
<1> QED BY <1>1, <1>2, <1>3, <1>4, <1>5 DEF AnswerInv

LEMMA AnswerFrozen ==
  ASSUME AnswerInv, DataInv', plans \subseteq plans',
         UNCHANGED <<pc, contribution, handleOf, handles, future, store, deposited>>
  PROVE  AnswerInv'
BY DEF AnswerInv, HandleTyped, TableKeyed, Unresolved, PlanKnown, Taken, Resolved, keyOf

\* s resolves the handle it holds: no handle of another key, nobody else in
\* the section.  An exception is only set where no plan is known.
LEMMA AnswerResolved ==
  ASSUME AnswerInv, DataInv', NEW s \in Submissions,
         NEW outcome \in {"result", "exception"},
         pc[s] \in {"validate", "discard"}, pc' = [pc EXCEPT ![s] = "future"],
         UNCHANGED <<contribution, handleOf, deposited, plans>>,
         \A k \in Keys : store'[k] \subseteq store[k],
         future' = resolve(future, handleOf[s], outcome),
         \A k \in Keys : handles'[k] \in {handles[k], None},
         outcome = "result" => pc[s] = "discard",
         outcome = "exception" => VersionOf[keyOf(s)] \notin plans
  PROVE  AnswerInv'
<1> PICK h \in Submissions : h = handleOf[s]
  BY DEF AnswerInv, HandleTyped, InSection
<1>1. /\ keyOf(h) = keyOf(s)
      /\ keyOf(s) \in Keys
      /\ future[h] = "pending"
  BY KeyType, PipelineAssumption
     DEF AnswerInv, HandleTyped, Unresolved, InSection, DataInv, SlotInv
<1>2. future' = [future EXCEPT ![h] = outcome]
  BY <1>1 DEF resolve, done
<1>3. \A t \in Submissions : handleOf[t] = h => keyOf(t) = keyOf(s)
  BY <1>1, PipelineAssumption DEF AnswerInv, HandleTyped
<1>4. /\ pc'[s] = "future" /\ \A t \in Submissions \ {s} : pc'[t] = pc[t]
      /\ future'[h] = outcome
      /\ \A g \in Submissions \ {h} : future'[g] = future[g]
  BY <1>2 DEF AnswerInv, DataInv, SlotInv, SlotTypes, OtherTypes
<1>5. HandleTyped' /\ TableKeyed'
  <2>1. HandleTyped'
    BY <1>1, <1>4 DEF AnswerInv, HandleTyped, keyOf, InSection
  <2>2. \A g \in Submissions : future[g] # "none" => future'[g] # "none"
    BY <1>4
  <2>3. \A k \in Keys : handles[k] # None => handles[k] \in Submissions
    BY DEF AnswerInv, DataInv, OtherTypes
  <2>4. TableKeyed'
    BY <2>2, <2>3 DEF AnswerInv, TableKeyed, keyOf
  <2> QED BY <2>1, <2>4
<1>6. Unresolved'
  <2> SUFFICES ASSUME NEW t \in Submissions, pc'[t] \in InSection
               PROVE  future'[handleOf[t]] = "pending"
    BY DEF Unresolved
  <2>1. t # s /\ pc[t] \in InSection /\ handleOf[t] \in Submissions
    BY <1>4 DEF InSection, AnswerInv, HandleTyped
  <2>2. handleOf[t] # h
    BY <1>3, <2>1, SlotInvImpliesMutex DEF AnswerInv, DataInv, MutualExclusion, InSection
  <2> QED BY <1>4, <2>1, <2>2 DEF AnswerInv, Unresolved
<1>7. PlanKnown'
  BY <1>4 DEF AnswerInv, PlanKnown, keyOf
<1>8. Taken'
  <2> SUFFICES ASSUME NEW t \in Submissions, NEW k \in Keys,
                      t \in store'[k] \cup deposited[k]
               PROVE  /\ pc'[t] \in {"discard", "future", "acked"}
                      /\ VersionOf[keyOf(t)] \in plans
                      /\ future'[handleOf[t]] # "exception"
    BY DEF Taken, keyOf
  <2>1. t \in store[k] \cup deposited[k]
    BY DEF AnswerInv, DataInv, OtherTypes
  <2>2. /\ pc[t] \in {"discard", "future", "acked"}
        /\ VersionOf[keyOf(t)] \in plans
        /\ future[handleOf[t]] # "exception"
    BY <2>1 DEF AnswerInv, Taken
  <2>3. handleOf[t] \in Submissions
    BY <2>2 DEF AnswerInv, HandleTyped, InSection
  <2>4. handleOf[t] = h => outcome # "exception"
    BY <1>3, <2>2
  <2> QED BY <1>4, <2>2, <2>3, <2>4
<1>9. Resolved'
  <2>1. outcome = "result" => deposited[keyOf(s)] # {}
    BY DEF AnswerInv, Resolved
  <2> QED BY <1>1, <1>4, <2>1 DEF AnswerInv, Resolved, keyOf
<1> QED BY <1>5, <1>6, <1>7, <1>8, <1>9 DEF AnswerInv

LEMMA AnswerInvStep ==
  ASSUME AnswerInv, [Next]_vars
  PROVE  AnswerInv'
<1> USE DEF boxVars, handleVars
<1>0. DataInv' /\ SlotTypes /\ OtherTypes /\ \A t \in Submissions : keyOf(t) \in Keys
  BY DataInvStep, KeyType DEF AnswerInv, DataInv, SlotInv
<1>1. ASSUME NEW s \in Submissions, Submit(s) PROVE AnswerInv'
  <2>1. /\ \A t \in Submissions \ {s} : pc'[t] = pc[t] /\ handleOf'[t] = handleOf[t]
        /\ UNCHANGED <<contribution, future, store, deposited, plans>>
        /\ \A k \in Keys : handles'[k] \in {handles[k], None}
        /\ pc[s] = "idle" /\ pc'[s] = "lock" /\ handleOf'[s] = handleOf[s]
    BY <1>0, <1>1 DEF Submit, SlotTypes, OtherTypes, release_lock_slot, drop_resolved
  <2> QED BY <1>0, <2>1, AnswerQuiet, PipelineAssumption
         DEF AnswerInv, HandleTyped, TableKeyed, Unresolved, PlanKnown, InSection, OtherTypes
<1>2. ASSUME NEW s \in Submissions, EnterReturningDone(s) PROVE AnswerInv'
  <2>1. /\ \A t \in Submissions \ {s} : pc'[t] = pc[t] /\ handleOf'[t] = handleOf[t]
        /\ UNCHANGED <<contribution, future, store, deposited, plans>>
        /\ \A k \in Keys : handles'[k] \in {handles[k], None}
        /\ pc[s] = "lock" /\ pc'[s] = "future" /\ handleOf'[s] = handles[keyOf(s)]
    BY <1>0, <1>2 DEF EnterReturningDone, SlotTypes, OtherTypes, release_lock_slot, drop_resolved
  <2>2. handles[keyOf(s)] \in Submissions
    BY <1>0, <1>2 DEF EnterReturningDone, OtherTypes
  <2> QED BY <1>0, <2>1, <2>2, AnswerQuiet, PipelineAssumption
         DEF AnswerInv, HandleTyped, TableKeyed, Unresolved, PlanKnown, InSection, OtherTypes
<1>3. ASSUME NEW s \in Submissions, GetAll(s) PROVE AnswerInv'
  <2>1. /\ \A t \in Submissions \ {s} : pc'[t] = pc[t] /\ handleOf'[t] = handleOf[t]
        /\ UNCHANGED <<contribution, future, store, deposited, plans>>
        /\ \A k \in Keys : handles'[k] \in {handles[k], None}
        /\ pc[s] = "get_all" /\ pc'[s] = "validate" /\ handleOf'[s] = handleOf[s]
    BY <1>0, <1>3 DEF GetAll, SlotTypes, OtherTypes, release_lock_slot, drop_resolved
  <2> QED BY <1>0, <2>1, AnswerQuiet, PipelineAssumption
         DEF AnswerInv, HandleTyped, TableKeyed, Unresolved, PlanKnown, InSection, OtherTypes
<1>4. ASSUME NEW s \in Submissions, ValidateInvalid(s) PROVE AnswerInv'
  <2>1. /\ \A t \in Submissions \ {s} : pc'[t] = pc[t] /\ handleOf'[t] = handleOf[t]
        /\ UNCHANGED <<contribution, future, store, deposited, plans>>
        /\ \A k \in Keys : handles'[k] \in {handles[k], None}
        /\ pc[s] = "validate" /\ pc'[s] = "raised" /\ handleOf'[s] = handleOf[s]
    BY <1>0, <1>4 DEF ValidateInvalid, SlotTypes, OtherTypes, release_lock_slot, drop_resolved
  <2> QED BY <1>0, <2>1, AnswerQuiet, PipelineAssumption
         DEF AnswerInv, HandleTyped, TableKeyed, Unresolved, PlanKnown, InSection, OtherTypes
<1>5. ASSUME NEW s \in Submissions, IsReady(s) PROVE AnswerInv'
  <2>1. /\ \A t \in Submissions \ {s} : pc'[t] = pc[t] /\ handleOf'[t] = handleOf[t]
        /\ UNCHANGED <<contribution, future, store, deposited, plans>>
        /\ \A k \in Keys : handles'[k] \in {handles[k], None}
        /\ pc[s] = "is_ready" /\ pc'[s] = (IF is_ready(s) THEN "deposit" ELSE "put") /\ handleOf'[s] = handleOf[s]
    BY <1>0, <1>5 DEF IsReady, SlotTypes, OtherTypes, release_lock_slot, drop_resolved
  <2> QED BY <1>0, <2>1, AnswerQuiet, PipelineAssumption
         DEF AnswerInv, HandleTyped, TableKeyed, Unresolved, PlanKnown, InSection, OtherTypes
<1>6. ASSUME NEW s \in Submissions, DepositDuplicate(s) PROVE AnswerInv'
  <2>1. /\ \A t \in Submissions \ {s} : pc'[t] = pc[t] /\ handleOf'[t] = handleOf[t]
        /\ UNCHANGED <<contribution, future, store, deposited, plans>>
        /\ \A k \in Keys : handles'[k] \in {handles[k], None}
        /\ pc[s] = "deposit" /\ pc'[s] = "raised" /\ handleOf'[s] = handleOf[s]
    BY <1>0, <1>6 DEF DepositDuplicate, SlotTypes, OtherTypes, release_lock_slot, drop_resolved
  <2> QED BY <1>0, <2>1, AnswerQuiet, PipelineAssumption
         DEF AnswerInv, HandleTyped, TableKeyed, Unresolved, PlanKnown, InSection, OtherTypes
<1>7. ASSUME NEW s \in Submissions, Answer(s) PROVE AnswerInv'
  <2>1. /\ \A t \in Submissions \ {s} : pc'[t] = pc[t] /\ handleOf'[t] = handleOf[t]
        /\ UNCHANGED <<contribution, future, store, deposited, plans>>
        /\ \A k \in Keys : handles'[k] \in {handles[k], None}
        /\ pc[s] = "future" /\ pc'[s] = (IF future[handleOf[s]] = "result" THEN "acked" ELSE "raised")
        /\ handleOf'[s] = handleOf[s]
    BY <1>0, <1>7 DEF Answer, SlotTypes, OtherTypes, release_lock_slot, drop_resolved
  <2>2. /\ handleOf[s] \in Submissions /\ keyOf(handleOf[s]) = keyOf(s)
        /\ future[handleOf[s]] \in {"result", "exception"}
    BY <1>7, <2>1, PipelineAssumption DEF Answer, done, AnswerInv, HandleTyped
  <2>3. pc'[s] = "acked" => deposited[keyOf(s)] # {}
    BY <2>1, <2>2 DEF AnswerInv, Resolved
  <2> QED BY <1>0, <2>1, <2>2, <2>3, AnswerQuiet, PipelineAssumption
         DEF AnswerInv, HandleTyped, TableKeyed, Unresolved, PlanKnown, InSection, OtherTypes
<1>8. ASSUME NEW s \in Submissions, ValidateAccepted(s) PROVE AnswerInv'
  <2>1. /\ \A t \in Submissions \ {s} : pc'[t] = pc[t]
        /\ UNCHANGED <<contribution, handleOf, future, store, deposited, plans>>
        /\ \A k \in Keys : handles'[k] \in {handles[k], handleOf[s]}
        /\ \A k \in Keys : handles'[k] = handles[k] \/ k = keyOf(s)
        /\ pc[s] = "validate" /\ pc'[s] = "is_ready"
        /\ VersionOf[keyOf(s)] \in plans
    BY <1>0, <1>8 DEF ValidateAccepted, SlotTypes, OtherTypes, setdefault
  <2> QED BY <1>0, <2>1, AnswerQuiet, PipelineAssumption
         DEF AnswerInv, HandleTyped, Unresolved, InSection
<1>9. ASSUME NEW s \in Submissions, EnterSection(s) PROVE AnswerInv'
  <2>1. /\ \A t \in Submissions \ {s} : pc'[t] = pc[t] /\ handleOf'[t] = handleOf[t]
        /\ UNCHANGED <<contribution, handles, store, deposited, plans>>
        /\ pc[s] = "lock" /\ pc'[s] = "get_all"
        /\ \A h \in Submissions : future'[h] \in {future[h], "pending"}
    BY <1>0, <1>9 DEF EnterSection, SlotTypes, OtherTypes
  <2>2. /\ handleOf'[s] \in Submissions /\ future'[handleOf'[s]] = "pending"
        /\ handleOf'[s] = s \/ handleOf'[s] = handles[keyOf(s)]
    <3>1. CASE handles[keyOf(s)] = None
      BY <1>0, <1>9, <3>1 DEF EnterSection, OtherTypes
    <3>2. CASE handles[keyOf(s)] # None
      <4>1. handles[keyOf(s)] \in Submissions /\ future[handles[keyOf(s)]] # "none"
        BY <1>0, <3>2 DEF OtherTypes, AnswerInv, TableKeyed
      <4> QED BY <1>0, <1>9, <3>2, <4>1 DEF EnterSection, OtherTypes, done
    <3> QED BY <3>1, <3>2
  <2>3. HandleTyped'
    <3>1. keyOf(handleOf'[s]) = keyOf(s)
      BY <1>0, <2>2, PipelineAssumption DEF AnswerInv, TableKeyed
    <3> QED BY <2>1, <2>2, <3>1 DEF AnswerInv, HandleTyped, keyOf
  <2>4. TableKeyed'
    BY <1>0, <2>1 DEF AnswerInv, TableKeyed, keyOf, OtherTypes
  <2>5. Unresolved' /\ PlanKnown'
    BY <2>1, <2>2 DEF AnswerInv, HandleTyped, Unresolved, PlanKnown, keyOf, InSection
  <2>6. Taken' /\ Resolved'
    BY <2>1, <2>2 DEF AnswerInv, HandleTyped, Taken, Resolved, keyOf, InSection
  <2> QED BY <1>0, <2>3, <2>4, <2>5, <2>6 DEF AnswerInv
<1>10. ASSUME NEW s \in Submissions, ValidateUnknownPlan(s) PROVE AnswerInv'
  <2>1. /\ pc[s] = "validate" /\ pc' = [pc EXCEPT ![s] = "future"]
        /\ UNCHANGED <<contribution, handleOf, store, deposited, plans>>
        /\ future' = resolve(future, handleOf[s], "exception")
        /\ \A k \in Keys : handles'[k] \in {handles[k], None}
        /\ VersionOf[keyOf(s)] \notin plans
    BY <1>0, <1>10 DEF ValidateUnknownPlan, release_lock_slot, drop_resolved, OtherTypes
  <2> QED BY <1>0, <2>1, AnswerResolved
<1>11. ASSUME NEW s \in Submissions, Discard(s) PROVE AnswerInv'
  <2>1. /\ pc[s] = "discard" /\ pc' = [pc EXCEPT ![s] = "future"]
        /\ UNCHANGED <<contribution, handleOf, deposited, plans>>
        /\ \A k \in Keys : store'[k] \subseteq store[k]
        /\ future' = resolve(future, handleOf[s], "result")
        /\ \A k \in Keys : handles'[k] \in {handles[k], None}
    BY <1>0, <1>11 DEF Discard, release_lock_slot, drop_resolved, OtherTypes
  <2> QED BY <1>0, <2>1, AnswerResolved
<1>12. ASSUME NEW s \in Submissions, Put(s) PROVE AnswerInv'
  <2>1. /\ pc[s] = "put" /\ pc'[s] = "future"
        /\ \A t \in Submissions \ {s} : pc'[t] = pc[t]
        /\ UNCHANGED <<contribution, handleOf, future, plans>>
        /\ store' = [store EXCEPT ![keyOf(s)] = store[keyOf(s)] \cup {s}] /\ UNCHANGED deposited
        /\ \A k \in Keys : handles'[k] \in {handles[k], None}
    BY <1>0, <1>12 DEF Put, release_lock_slot, drop_resolved, SlotTypes, OtherTypes
  <2>2. /\ handleOf[s] \in Submissions /\ future[handleOf[s]] = "pending"
        /\ VersionOf[keyOf(s)] \in plans /\ oldOf[s] = store[keyOf(s)]
    BY <2>1 DEF AnswerInv, HandleTyped, Unresolved, PlanKnown, InSection, DataInv, Snapshot
  <2>3. \A t \in Submissions, k \in Keys : t \in store'[k] \cup deposited'[k] =>
          t = s \/ t \in store[k] \cup deposited[k]
    BY <1>0, <2>1, <2>2 DEF OtherTypes
  <2>4. HandleTyped' /\ TableKeyed' /\ Unresolved' /\ PlanKnown'
    BY <2>1, <2>2 DEF AnswerInv, HandleTyped, TableKeyed, Unresolved, PlanKnown, keyOf,
       InSection
  <2>5. Taken'
    BY <2>1, <2>2, <2>3 DEF AnswerInv, Taken, keyOf
  <2>6. Resolved'
    BY <1>0, <2>1, <2>2 DEF AnswerInv, Resolved, keyOf, OtherTypes
  <2> QED BY <1>0, <2>4, <2>5, <2>6 DEF AnswerInv
<1>13. ASSUME NEW s \in Submissions, Deposit(s) PROVE AnswerInv'
  <2>1. /\ pc[s] = "deposit" /\ pc'[s] = "discard"
        /\ \A t \in Submissions \ {s} : pc'[t] = pc[t]
        /\ UNCHANGED <<contribution, handleOf, future, plans>>
        /\ deposited' = [deposited EXCEPT ![keyOf(s)] = oldOf[s] \cup {s}] /\ UNCHANGED store
        /\ \A k \in Keys : handles'[k] \in {handles[k], None}
    BY <1>0, <1>13 DEF Deposit, release_lock_slot, drop_resolved, SlotTypes, OtherTypes
  <2>2. /\ handleOf[s] \in Submissions /\ future[handleOf[s]] = "pending"
        /\ VersionOf[keyOf(s)] \in plans /\ oldOf[s] = store[keyOf(s)]
    BY <2>1 DEF AnswerInv, HandleTyped, Unresolved, PlanKnown, InSection, DataInv, Snapshot
  <2>3. \A t \in Submissions, k \in Keys : t \in store'[k] \cup deposited'[k] =>
          t = s \/ t \in store[k] \cup deposited[k]
    BY <1>0, <2>1, <2>2 DEF OtherTypes
  <2>4. HandleTyped' /\ TableKeyed' /\ Unresolved' /\ PlanKnown'
    BY <2>1, <2>2 DEF AnswerInv, HandleTyped, TableKeyed, Unresolved, PlanKnown, keyOf,
       InSection
  <2>5. Taken'
    BY <2>1, <2>2, <2>3 DEF AnswerInv, Taken, keyOf
  <2>6. Resolved'
    BY <1>0, <2>1, <2>2 DEF AnswerInv, Resolved, keyOf, OtherTypes
  <2> QED BY <1>0, <2>4, <2>5, <2>6 DEF AnswerInv
<1>14. CASE ExtractNext
  BY <1>0, <1>14, AnswerFrozen DEF ExtractNext
<1>15. ASSUME NEW v \in Versions, PutPlan(v) PROVE AnswerInv'
  BY <1>0, <1>15, AnswerFrozen DEF PutPlan
<1>16. CASE UNCHANGED vars
  BY <1>0, <1>16, AnswerFrozen DEF vars
<1> QED
  BY <1>1, <1>2, <1>3, <1>4, <1>5, <1>6, <1>7, <1>8, <1>9, <1>10, <1>11, <1>12, <1>13, <1>14, <1>15, <1>16 DEF Next, Step

\* An acknowledged contribution belongs to an invocation that exists; a
\* contribution answered with an error is part of none.
THEOREM AnswersAreTruthfulHolds == Spec => []AnswersAreTruthful
<1>1. Init => AnswerInv
  BY AnswerInvInit
<1>2. AnswerInv /\ [Next]_vars => AnswerInv'
  BY AnswerInvStep
<1>3. AnswerInv => AnswersAreTruthful
  <2> SUFFICES ASSUME AnswerInv PROVE AnswersAreTruthful
    OBVIOUS
  <2>1. \A s \in Submissions : keyOf(s) \in Keys
    BY KeyType DEF AnswerInv, DataInv, SlotInv
  <2> QED BY <2>1 DEF AnswerInv, Taken, Resolved, AnswersAreTruthful
<1> QED BY <1>1, <1>2, <1>3, PTL DEF Spec

-----------------------------------------------------------------------------
(* What is left in the store.                                              *)

\* Who puts its contribution has found that it does not complete the collection.
NotReady == \A s \in Submissions : pc[s] = "put" => ~ is_ready(s)

Incomplete == \A k \in Keys : store[k] # {} => ~ check_inputs_ready(k, store[k])

LEMMA IncompleteStep ==
  ASSUME DataInv, NotReady, Incomplete, [Next]_vars
  PROVE  NotReady' /\ Incomplete'
<1> USE DEF boxVars
<1>0. SlotTypes /\ OtherTypes /\ \A t \in Submissions : keyOf(t) \in Keys
  BY KeyType DEF DataInv, SlotInv
<1>1. contribution' = contribution
  BY DEF Next, Step, Submit, EnterReturningDone, EnterSection, GetAll, ValidateUnknownPlan,
     ValidateInvalid, ValidateAccepted, IsReady, Deposit, DepositDuplicate, Discard, Put, Answer,
     ExtractNext, PutPlan, vars
<1>2. NotReady'
  <2> SUFFICES ASSUME NEW t \in Submissions, pc'[t] = "put" PROVE ~ is_ready(t)'
    BY DEF NotReady
  <2>1. ASSUME pc[t] = pc'[t], oldOf'[t] = oldOf[t] PROVE ~ is_ready(t)'
    <3>1. ~ is_ready(t)
      BY <2>1 DEF NotReady
    <3> QED BY <1>1, <2>1, <3>1 DEF is_ready, check_inputs_ready, ArrivedFrom, TensorsOf, keyOf
  <2>2. ASSUME NEW s \in Submissions, Submit(s) \/ Step(s) PROVE ~ is_ready(t)'
    <3>1. CASE IsReady(s) /\ s = t
      <4>1. ~ is_ready(t) /\ oldOf' = oldOf
        BY <1>0, <3>1 DEF IsReady, SlotTypes
      <4> QED BY <1>1, <4>1 DEF is_ready, check_inputs_ready, ArrivedFrom, TensorsOf, keyOf
    <3>2. CASE s # t
      <4>1. pc'[t] = pc[t] /\ oldOf'[t] = oldOf[t]
        BY <1>0, <2>2, <3>2 DEF SlotTypes, Step, Submit, EnterReturningDone, EnterSection, GetAll,
           ValidateUnknownPlan, ValidateInvalid, ValidateAccepted, IsReady, Deposit,
           DepositDuplicate, Discard, Put, Answer, release_lock_slot
      <4> QED BY <2>1, <4>1
    <3>3. CASE s = t /\ ~ IsReady(s)
      <4>1. pc'[t] # "put"
        BY <1>0, <2>2, <3>3 DEF SlotTypes, Step, Submit, EnterReturningDone, EnterSection, GetAll,
           ValidateUnknownPlan, ValidateInvalid, ValidateAccepted, Deposit, DepositDuplicate,
           Discard, Put, Answer
      <4> QED BY <4>1
    <3> QED BY <3>1, <3>2, <3>3
  <2>3. CASE UNCHANGED <<pc, oldOf>>
    BY <2>1, <2>3
  <2> QED BY <2>2, <2>3 DEF Next, ExtractNext, PutPlan, vars
<1>3. Incomplete'
  <2> SUFFICES ASSUME NEW k \in Keys, store'[k] # {}
               PROVE  ~ check_inputs_ready(k, store[k])'
    BY DEF Incomplete, check_inputs_ready, ArrivedFrom, TensorsOf
  <2>1. CASE store'[k] = store[k]
    BY <1>1, <2>1 DEF Incomplete, check_inputs_ready, ArrivedFrom, TensorsOf
  <2>2. ASSUME NEW s \in Submissions, Put(s), store'[k] # store[k]
        PROVE  ~ check_inputs_ready(k, store[k])'
    <3>1. keyOf(s) = k /\ store'[k] = store[k] \cup {s}
      BY <1>0, <2>2 DEF Put, OtherTypes
    <3>2. oldOf[s] = store[k] /\ ~ is_ready(s)
      BY <2>2, <3>1 DEF Put, DataInv, Snapshot, NotReady
    <3> QED BY <1>1, <3>1, <3>2 DEF is_ready, check_inputs_ready, ArrivedFrom, TensorsOf
  <2>3. ASSUME NEW s \in Submissions, Discard(s) PROVE store'[k] = store[k]
    BY <1>0, <2>3 DEF Discard, OtherTypes
  <2> QED BY <2>1, <2>2, <2>3 DEF Next, Step, Submit, EnterReturningDone, EnterSection, GetAll,
          ValidateUnknownPlan, ValidateInvalid, ValidateAccepted, IsReady, Deposit,
          DepositDuplicate, Answer, ExtractNext, PutPlan, vars
<1> QED BY <1>2, <1>3

\* The store never keeps a complete collection that nobody will deposit.
THEOREM NoCompleteCollectionLeftBehindHolds == Spec => []NoCompleteCollectionLeftBehind
<1>1. Init => DataInv /\ NotReady /\ Incomplete
  BY DataInvInit DEF Init, NotReady, Incomplete
<1>2. DataInv /\ NotReady /\ Incomplete /\ [Next]_vars => (DataInv /\ NotReady /\ Incomplete)'
  BY DataInvStep, IncompleteStep
<1>3. Incomplete => NoCompleteCollectionLeftBehind
  BY DEF Incomplete, NoCompleteCollectionLeftBehind
<1> QED BY <1>1, <1>2, <1>3, PTL DEF Spec

-----------------------------------------------------------------------------
(* The table of handles.                                                   *)

\* A handle is built in the section by the submission whose name it has.
Fresh == \A s \in Submissions : pc[s] \in {"idle", "lock"} => future[s] = "none"
Built == \A s \in Submissions : handleOf[s] # None => future[handleOf[s]] # "none"

\* The handle of who is in the section is the table's, at the latest once its
\* contribution is accepted.
InTable == \A s \in Submissions :
  /\ pc[s] \in InSection => handles[keyOf(s)] \in {None, handleOf[s]}
  /\ pc[s] \in {"is_ready", "put", "deposit", "discard"} => handles[keyOf(s)] = handleOf[s]

HandleInv == AnswerInv /\ Fresh /\ Built /\ InTable /\ NoOrphanWaiter /\ ResolvedHandlesAreDropped

LEMMA HandleInvInit == Init => HandleInv
<1> SUFFICES ASSUME Init PROVE HandleInv
  OBVIOUS
<1>1. Fresh /\ Built /\ InTable /\ NoOrphanWaiter /\ ResolvedHandlesAreDropped
  BY DEF Init, Fresh, Built, InTable, NoOrphanWaiter, ResolvedHandlesAreDropped, InSection
<1> QED BY <1>1, AnswerInvInit DEF HandleInv

\* The owner of the lock is alone with its key.
LEMMA OwnerIsAlone ==
  ASSUME SlotInv, NEW s \in Submissions, Using(s), owns_lock(s),
         NEW t \in Submissions, pc[t] \in InSection, keyOf(t) = keyOf(s)
  PROVE  t = s
BY DEF SlotInv, Shared, Owner, Using, owns_lock

\* Leaving the section, or passing through it.  g is the handle returned.
LEMMA HandleReleased ==
  ASSUME HandleInv, AnswerInv', NEW s \in Submissions, Using(s), owns_lock(s),
         NEW STATE fs, release_lock_slot(s, handles, fs),
         \A h \in Submissions :
           \/ fs[h] = future[h]
           \/ h = handleOf[s] /\ future[h] = "pending" /\ fs[h] \in {"result", "exception"}
              /\ pc[s] \in InSection,
         pc' = [pc EXCEPT ![s] = pc'[s]], pc'[s] \in {"future", "raised"},
         NEW STATE g, handleOf' = [handleOf EXCEPT ![s] = g],
         pc'[s] = "future" => g = handles[keyOf(s)] \/ fs[g] # "pending",
         g # None => g \in Submissions /\ fs[g] # "none",
         UNCHANGED contribution
  PROVE  HandleInv'
<1>0. /\ SlotInv /\ SlotTypes /\ OtherTypes /\ SlotTypes' /\ OtherTypes'
      /\ \A t \in Submissions : keyOf(t) \in Keys /\ keyOf(t)' = keyOf(t)
  BY KeyType DEF HandleInv, AnswerInv, DataInv, SlotInv, keyOf
<1> PICK k \in Keys : k = keyOf(s)
  BY <1>0
<1>1. /\ future' = fs
      /\ \A j \in Keys : j # k => handles'[j] = handles[j] /\ lockSlots'[j] = lockSlots[j]
      /\ \/ /\ lockSlots'[k] = lockSlots[k] /\ handles'[k] = handles[k]
         \/ /\ handles'[k] = handles[k] /\ (handles[k] # None => ~ done(fs, handles[k]))
         \/ handles[k] # None /\ done(fs, handles[k]) /\ handles'[k] = None
  BY <1>0 DEF release_lock_slot, drop_resolved, OtherTypes, SlotTypes
<1>2. lockSlots[k] \in Submissions
  BY <1>0 DEF SlotInv, Shared
<1>3. \A t \in Submissions : t # s => pc'[t] = pc[t] /\ handleOf'[t] = handleOf[t]
  BY <1>0 DEF SlotTypes, OtherTypes
<1>4. \A t \in Submissions : pc'[t] \in InSection => pc[t] \in InSection /\ t # s /\ keyOf(t) # k
  BY <1>0, <1>3, OwnerIsAlone DEF InSection
<1>5. Fresh'
  BY <1>1, <1>3 DEF HandleInv, Fresh
<1>6. handleOf'[s] = g
  BY <1>0 DEF OtherTypes
<1>7. Built'
  <2> SUFFICES ASSUME NEW t \in Submissions, handleOf'[t] # None
               PROVE  future'[handleOf'[t]] # "none"
    BY DEF Built
  <2>1. CASE t = s
    BY <1>1, <1>6, <2>1
  <2>2. CASE t # s
    <3>1. handleOf[t] \in Submissions /\ future[handleOf[t]] # "none" /\ handleOf'[t] = handleOf[t]
      BY <1>0, <1>3, <2>2 DEF HandleInv, Built, OtherTypes
    <3> QED BY <1>1, <3>1
  <2> QED BY <2>1, <2>2
<1>8. InTable'
  BY <1>0, <1>1, <1>3, <1>4 DEF HandleInv, InTable, InSection
<1>9. NoOrphanWaiter'
  <2> SUFFICES ASSUME NEW t \in Submissions, pc'[t] = "future", future'[handleOf'[t]] = "pending"
               PROVE  handles'[keyOf(t)] = handleOf'[t]
    BY <1>0 DEF NoOrphanWaiter
  <2>1. handles[keyOf(t)] = handleOf'[t]
    <3>1. CASE t = s
      BY <1>1, <1>6, <3>1
    <3>2. CASE t # s
      <4>1. pc[t] = "future" /\ handleOf[t] = handleOf'[t] /\ handleOf[t] \in Submissions
        BY <1>3, <3>2 DEF HandleInv, AnswerInv, HandleTyped
      <4>2. future[handleOf[t]] = "pending"
        BY <1>1, <4>1
      <4> QED BY <4>1, <4>2 DEF HandleInv, NoOrphanWaiter
    <3> QED BY <3>1, <3>2
  <2>2. ~ done(fs, handles[keyOf(t)])
    BY <1>1, <2>1 DEF done
  <2> QED BY <1>0, <1>1, <2>1, <2>2
<1>10. ResolvedHandlesAreDropped'
  <2> SUFFICES ASSUME NEW j \in Keys, lockSlots'[j] = None, handles'[j] # None
               PROVE  future'[handles'[j]] = "pending"
    BY DEF ResolvedHandlesAreDropped
  <2>1. handles'[j] \in Submissions /\ future'[handles'[j]] # "none" /\ keyOf(handles'[j]) = j
    BY <1>0 DEF AnswerInv, TableKeyed, OtherTypes
  <2>2. CASE j = k
    <3>1. handles'[k] = handles[k] /\ ~ done(fs, handles[k])
      BY <1>1, <1>2, <2>2, PipelineAssumption
    <3> QED BY <1>0, <1>1, <2>1, <2>2, <3>1 DEF done, OtherTypes
  <2>3. CASE j # k
    <3>1. handles[j] = handles'[j] /\ future[handles[j]] = "pending"
      BY <1>1, <2>3 DEF HandleInv, ResolvedHandlesAreDropped
    <3>2. pc[s] \in InSection => keyOf(handleOf[s]) = k
      BY PipelineAssumption DEF HandleInv, AnswerInv, HandleTyped
    <3> QED BY <1>1, <2>1, <2>3, <3>1, <3>2
  <2> QED BY <2>2, <2>3
<1> QED BY <1>5, <1>7, <1>8, <1>9, <1>10 DEF HandleInv

\* A step that leaves the futures, the table and the slots it keeps alone.
LEMMA HandleQuiet ==
  ASSUME HandleInv, AnswerInv', NEW s \in Submissions,
         \A t \in Submissions : t # s => pc'[t] = pc[t],
         pc'[s] \in {"idle", "lock"} => pc[s] \in {"idle", "lock"},
         pc'[s] \in InSection => pc[s] \in InSection,
         pc'[s] \in {"is_ready", "put", "deposit", "discard"} =>
           pc[s] \in {"is_ready", "put", "deposit", "discard"},
         pc'[s] = "future" => pc[s] = "future",
         UNCHANGED <<contribution, handleOf, handles, future>>,
         \A k \in Keys : lockSlots'[k] = None => lockSlots[k] = None
  PROVE  HandleInv'
<1>1. Fresh' /\ Built'
  BY DEF HandleInv, Fresh, Built
<1>2. InTable' /\ NoOrphanWaiter'
  BY DEF HandleInv, InTable, NoOrphanWaiter, keyOf
<1>3. ResolvedHandlesAreDropped'
  BY DEF HandleInv, ResolvedHandlesAreDropped
<1> QED BY <1>1, <1>2, <1>3 DEF HandleInv

\* Resolving a handle changes no other future.
LEMMA Resolves ==
  ASSUME AnswerInv, NEW s \in Submissions, pc[s] \in InSection,
         NEW outcome \in {"result", "exception"}
  PROVE  /\ \A h \in Submissions :
              \/ resolve(future, handleOf[s], outcome)[h] = future[h]
              \/ h = handleOf[s] /\ future[h] = "pending"
                 /\ resolve(future, handleOf[s], outcome)[h] \in {"result", "exception"}
         /\ handleOf[s] \in Submissions
         /\ resolve(future, handleOf[s], outcome)[handleOf[s]] = outcome
<1>1. handleOf[s] \in Submissions /\ future[handleOf[s]] = "pending"
  BY DEF AnswerInv, HandleTyped, Unresolved
<1>2. resolve(future, handleOf[s], outcome) = [future EXCEPT ![handleOf[s]] = outcome]
  BY <1>1 DEF resolve, done
<1> QED BY <1>1, <1>2 DEF AnswerInv, DataInv, OtherTypes

LEMMA HandleInvStep ==
  ASSUME HandleInv, [Next]_vars
  PROVE  HandleInv'
<1> USE DEF handleVars, slotVars
<1>0. /\ AnswerInv' /\ SlotInv /\ SlotTypes /\ OtherTypes
      /\ \A t \in Submissions : keyOf(t) \in Keys
  BY AnswerInvStep, KeyType DEF HandleInv, AnswerInv, DataInv, SlotInv
<1>1. ASSUME NEW s \in Submissions, Submit(s) PROVE HandleInv'
  <2>1. /\ pc[s] = "idle" /\ pc'[s] = "lock" /\ \A t \in Submissions : t # s => pc'[t] = pc[t]
        /\ UNCHANGED <<contribution, handleOf, handles, future>>
        /\ \A k \in Keys : lockSlots'[k] = None => lockSlots[k] = None
    BY <1>0, <1>1, PipelineAssumption DEF Submit, acquire_lock_slot, SlotTypes
  <2> QED BY <1>0, <2>1, HandleQuiet DEF InSection
<1>2. ASSUME NEW s \in Submissions, EnterReturningDone(s) PROVE HandleInv'
  <2>1. /\ pc[s] = "lock" /\ owns_lock(s) /\ release_lock_slot(s, handles, future)
        /\ pc' = [pc EXCEPT ![s] = "future"]
        /\ handleOf' = [handleOf EXCEPT ![s] = handles[keyOf(s)]] /\ UNCHANGED contribution
    BY <1>2 DEF EnterReturningDone
  <2>2. Using(s) /\ pc'[s] = "future" /\ pc' = [pc EXCEPT ![s] = pc'[s]]
    BY <1>0, <2>1 DEF Using, SlotTypes
  <2>3. PICK g : g = handles[keyOf(s)]
    OBVIOUS
  <2>4. g # None => g \in Submissions /\ future[g] # "none"
    BY <1>0, <2>3 DEF OtherTypes, HandleInv, AnswerInv, TableKeyed
  <2> QED BY <1>0, <2>1, <2>2, <2>3, <2>4, HandleReleased
<1>3. ASSUME NEW s \in Submissions, pc[s] \in InSection, NEW STATE fs,
             release_lock_slot(s, handles, fs), handleOf' = handleOf,
             pc' = [pc EXCEPT ![s] = pc'[s]], pc'[s] \in {"future", "raised"},
             \/ fs = future
                /\ (pc'[s] = "future" => handleOf[s] = handles[keyOf(s)])
             \/ \E outcome \in {"result", "exception"} : fs = resolve(future, handleOf[s], outcome),
             UNCHANGED contribution
      PROVE  HandleInv'
  <2>1. Using(s) /\ owns_lock(s)
    BY <1>0, <1>3 DEF Using, SlotInv, Owner
  <2>2. PICK g \in Submissions : g = handleOf[s]
    BY <1>3 DEF HandleInv, AnswerInv, HandleTyped
  <2>3. handleOf' = [handleOf EXCEPT ![s] = g]
    BY <1>0, <1>3, <2>2 DEF OtherTypes
  <2>4. future[g] = "pending"
    BY <1>3, <2>2 DEF HandleInv, AnswerInv, Unresolved
  <2>5. CASE fs = future /\ (pc'[s] = "future" => g = handles[keyOf(s)])
    BY <1>0, <1>3, <2>1, <2>3, <2>4, <2>5, HandleReleased
  <2>6. ASSUME NEW outcome \in {"result", "exception"}, fs = resolve(future, handleOf[s], outcome)
        PROVE  HandleInv'
    <3>1. /\ \A h \in Submissions :
               \/ fs[h] = future[h]
               \/ h = handleOf[s] /\ future[h] = "pending" /\ fs[h] \in {"result", "exception"}
          /\ fs[g] = outcome
      BY <1>3, <2>2, <2>6, Resolves DEF HandleInv
    <3>2. \A h \in Submissions :
            \/ fs[h] = future[h]
            \/ h = handleOf[s] /\ future[h] = "pending" /\ fs[h] \in {"result", "exception"}
               /\ pc[s] \in InSection
      BY <1>3, <3>1
    <3>3. /\ pc'[s] = "future" => g = handles[keyOf(s)] \/ fs[g] # "pending"
          /\ g # None => g \in Submissions /\ fs[g] # "none"
      BY <3>1
    <3>4. /\ release_lock_slot(s, handles, fs) /\ UNCHANGED contribution
          /\ pc' = [pc EXCEPT ![s] = pc'[s]] /\ pc'[s] \in {"future", "raised"}
      BY <1>3
    <3> HIDE <1>3
    <3> QED BY <1>0, <2>1, <2>3, <3>2, <3>3, <3>4, HandleReleased
  <2> QED BY <1>3, <2>2, <2>5, <2>6
<1>4. ASSUME NEW s \in Submissions, ValidateUnknownPlan(s) \/ Discard(s) PROVE HandleInv'
  <2>1. /\ pc[s] \in InSection /\ pc' = [pc EXCEPT ![s] = "future"] /\ pc'[s] = "future"
        /\ handleOf' = handleOf /\ UNCHANGED contribution
        /\ \/ release_lock_slot(s, handles, resolve(future, handleOf[s], "exception"))
           \/ release_lock_slot(s, handles, resolve(future, handleOf[s], "result"))
    BY <1>0, <1>4 DEF ValidateUnknownPlan, Discard, InSection, SlotTypes
  <2> QED BY <1>3, <2>1
<1>5. ASSUME NEW s \in Submissions, ValidateInvalid(s) \/ DepositDuplicate(s) PROVE HandleInv'
  <2>1. /\ pc[s] \in InSection /\ pc' = [pc EXCEPT ![s] = "raised"] /\ pc'[s] = "raised"
        /\ handleOf' = handleOf /\ UNCHANGED contribution
        /\ release_lock_slot(s, handles, future)
    BY <1>0, <1>5 DEF ValidateInvalid, DepositDuplicate, InSection, SlotTypes
  <2> QED BY <1>3, <2>1
<1>6. ASSUME NEW s \in Submissions, Put(s) PROVE HandleInv'
  <2>1. /\ pc[s] \in InSection /\ pc' = [pc EXCEPT ![s] = "future"] /\ pc'[s] = "future"
        /\ handleOf' = handleOf /\ UNCHANGED contribution
        /\ release_lock_slot(s, handles, future)
        /\ handleOf[s] = handles[keyOf(s)]
    BY <1>0, <1>6 DEF Put, InSection, SlotTypes, HandleInv, InTable
  <2> QED BY <1>3, <2>1
<1>7. ASSUME NEW s \in Submissions, EnterSection(s) PROVE HandleInv'
  <2>1. /\ pc[s] = "lock" /\ owns_lock(s) /\ pc'[s] = "get_all"
        /\ \A t \in Submissions : t # s => pc'[t] = pc[t] /\ handleOf'[t] = handleOf[t]
        /\ UNCHANGED <<contribution, handles, lockSlots>>
        /\ \A h \in Submissions : h # s => future'[h] = future[h]
        /\ \/ handles[keyOf(s)] = None /\ handleOf'[s] = s /\ future'[s] = "pending"
           \/ handles[keyOf(s)] # None /\ handleOf'[s] = handles[keyOf(s)] /\ future' = future
    BY <1>0, <1>7 DEF EnterSection, SlotTypes, OtherTypes
  <2>2. future[s] = "none" /\ Using(s) /\ pc[s] \notin InSection
    BY <2>1 DEF HandleInv, Fresh, Using, InSection
  <2>3. \A k \in Keys : handles[k] # None => handles[k] # s /\ future'[handles[k]] = future[handles[k]]
    BY <1>0, <2>1, <2>2 DEF HandleInv, AnswerInv, TableKeyed, OtherTypes
  <2>4. \A t \in Submissions : handleOf[t] # None =>
          handleOf[t] # s /\ future'[handleOf[t]] = future[handleOf[t]]
    BY <1>0, <2>1, <2>2 DEF HandleInv, Built, OtherTypes
  <2>5. Fresh'
    BY <2>1 DEF HandleInv, Fresh
  <2>6. Built'
    <3>1. handleOf'[s] # None => future'[handleOf'[s]] # "none"
      BY <1>0, <2>1, <2>3 DEF HandleInv, AnswerInv, TableKeyed, OtherTypes
    <3> QED BY <2>1, <2>4, <3>1 DEF HandleInv, Built
  <2>7. InTable'
    BY <2>1 DEF HandleInv, InTable, keyOf, InSection
  <2>8. NoOrphanWaiter'
    <3> SUFFICES ASSUME NEW t \in Submissions, pc'[t] = "future", future'[handleOf'[t]] = "pending"
                 PROVE  handles'[keyOf(t)] = handleOf'[t]
      BY <2>1 DEF NoOrphanWaiter, keyOf
    <3>1. t # s /\ pc[t] = "future" /\ handleOf'[t] = handleOf[t] /\ handleOf[t] \in Submissions
      BY <2>1 DEF HandleInv, AnswerInv, HandleTyped
    <3> QED BY <2>1, <2>4, <3>1, PipelineAssumption DEF HandleInv, NoOrphanWaiter
  <2>9. ResolvedHandlesAreDropped'
    BY <2>1, <2>3 DEF HandleInv, ResolvedHandlesAreDropped
  <2> QED BY <1>0, <2>5, <2>6, <2>7, <2>8, <2>9 DEF HandleInv
<1>8. ASSUME NEW s \in Submissions, GetAll(s) \/ IsReady(s) \/ Deposit(s) \/ Answer(s)
      PROVE  HandleInv'
  <2>1. /\ \A t \in Submissions : t # s => pc'[t] = pc[t]
        /\ UNCHANGED <<contribution, handleOf, handles, future, lockSlots>>
    BY <1>0, <1>8 DEF GetAll, IsReady, Deposit, Answer, SlotTypes
  <2>2. \/ pc[s] = "get_all" /\ pc'[s] = "validate"
        \/ pc[s] = "is_ready" /\ pc'[s] \in {"deposit", "put"}
        \/ pc[s] = "deposit" /\ pc'[s] = "discard"
        \/ pc[s] = "future" /\ pc'[s] \in {"acked", "raised"}
    BY <1>0, <1>8 DEF GetAll, IsReady, Deposit, Answer, SlotTypes
  <2> QED BY <1>0, <2>1, <2>2, HandleQuiet DEF InSection
<1>9. ASSUME NEW s \in Submissions, ValidateAccepted(s) PROVE HandleInv'
  <2>1. /\ pc[s] = "validate" /\ pc'[s] = "is_ready"
        /\ \A t \in Submissions : t # s => pc'[t] = pc[t]
        /\ UNCHANGED <<contribution, handleOf, future, lockSlots>>
        /\ handles' = setdefault(handles, keyOf(s), handleOf[s])
    BY <1>0, <1>9 DEF ValidateAccepted, SlotTypes
  <2>2. pc[s] \in InSection /\ Using(s) /\ owns_lock(s)
    BY <1>0, <2>1 DEF InSection, Using, SlotInv, Owner
  <2>3. /\ handles'[keyOf(s)] = handleOf[s]
        /\ \A k \in Keys : k # keyOf(s) => handles'[k] = handles[k]
        /\ handles[keyOf(s)] \in {None, handleOf[s]}
    BY <1>0, <2>1, <2>2 DEF setdefault, HandleInv, InTable, OtherTypes
  <2>4. \A t \in Submissions : pc'[t] \in InSection /\ t # s => keyOf(t) # keyOf(s)
    BY <1>0, <2>1, <2>2, OwnerIsAlone
  <2>5. Fresh' /\ Built'
    BY <2>1 DEF HandleInv, Fresh, Built
  <2>6. InTable'
    BY <1>0, <2>1, <2>3, <2>4 DEF HandleInv, InTable, keyOf, InSection
  <2>7. NoOrphanWaiter'
    <3> SUFFICES ASSUME NEW t \in Submissions, pc'[t] = "future", future'[handleOf'[t]] = "pending"
                 PROVE  handles'[keyOf(t)] = handleOf'[t]
      BY <2>1 DEF NoOrphanWaiter, keyOf
    <3>1. t # s /\ handles[keyOf(t)] = handleOf[t] /\ handleOf[t] \in Submissions
      BY <2>1 DEF HandleInv, NoOrphanWaiter, AnswerInv, HandleTyped
    <3> QED BY <1>0, <2>1, <2>3, <3>1, PipelineAssumption
  <2>8. ResolvedHandlesAreDropped'
    <3>1. lockSlots[keyOf(s)] # None
      BY <1>0, <2>2, PipelineAssumption DEF SlotInv, Shared
    <3> QED BY <2>1, <2>3, <3>1 DEF HandleInv, ResolvedHandlesAreDropped
  <2> QED BY <1>0, <2>5, <2>6, <2>7, <2>8 DEF HandleInv
<1>10. CASE UNCHANGED <<pc, contribution, handleOf, handles, future, lockSlots>>
  BY <1>0, <1>10 DEF HandleInv, Fresh, Built, InTable, NoOrphanWaiter, ResolvedHandlesAreDropped,
     keyOf
<1> QED BY <1>1, <1>2, <1>4, <1>5, <1>6, <1>7, <1>8, <1>9, <1>10
        DEF Next, Step, ExtractNext, PutPlan, vars

\* A handle is only entered once the plan of its key is known.
Planned == \A k \in Keys : handles[k] # None => VersionOf[k] \in plans

\* Before the deposit of a key, a handle over an empty store was entered by a
\* submission that is still in the section and keeps or deposits its contribution.
Accepting(k) == {s \in Submissions : pc[s] \in {"is_ready", "put", "deposit"} /\ keyOf(s) = k}
Accounted == \A k \in Keys :
  handles[k] # None /\ deposited[k] = {} /\ store[k] = {} => Accepting(k) # {}

TableInv == HandleInv /\ Planned /\ KeptHaveHandle /\ Accounted

LEMMA TableInvInit == Init => TableInv
<1> SUFFICES ASSUME Init PROVE TableInv
  OBVIOUS
<1>1. Planned /\ KeptHaveHandle /\ Accounted
  BY DEF Init, Planned, KeptHaveHandle, Accounted
<1> QED BY <1>1, HandleInvInit DEF TableInv

\* Leaving the section drops at most the handle of the key, and only if it is done.
LEMMA TableReleased ==
  ASSUME OtherTypes, NEW s \in Submissions, keyOf(s) \in Keys,
         NEW STATE fs, release_lock_slot(s, handles, fs)
  PROVE  /\ future' = fs
         /\ \A j \in Keys :
              \/ handles'[j] = handles[j]
              \/ j = keyOf(s) /\ handles'[j] = None /\ handles[j] # None /\ done(fs, handles[j])
BY DEF OtherTypes, release_lock_slot, drop_resolved

\* Every step adds plans; apart from an accepted contribution none enters a handle.
LEMMA TablePlanned ==
  ASSUME TableInv, plans \subseteq plans', \A k \in Keys : handles'[k] \in {handles[k], None}
  PROVE  Planned'
BY DEF TableInv, Planned

\* A step that keeps the store and leaves every unresolved handle of the table alone.
LEMMA TableKept ==
  ASSUME TableInv, \A k \in Keys : store'[k] \subseteq store[k],
         \A k \in Keys :
           \/ store'[k] = {}
           \/ handles[k] = None
           \/ future[handles[k]] # "pending"
           \/ handles'[k] = handles[k] /\ future'[handles[k]] = "pending"
  PROVE  KeptHaveHandle'
BY DEF TableInv, KeptHaveHandle

\* A step that takes nobody out of the section that keeps or deposits.
LEMMA TableAccounted ==
  ASSUME TableInv, \A k \in Keys : handles'[k] \in {handles[k], None},
         UNCHANGED <<contribution, deposited, store>>,
         \A t \in Submissions : pc[t] \in {"is_ready", "put", "deposit"} =>
           \/ pc'[t] \in {"is_ready", "put", "deposit"}
           \/ deposited[keyOf(t)] # {}
  PROVE  Accounted'
<1> SUFFICES ASSUME NEW k \in Keys, handles'[k] # None, deposited'[k] = {}, store'[k] = {}
             PROVE  Accepting(k)' # {}
  BY DEF Accounted
<1>1. PICK t \in Submissions : pc[t] \in {"is_ready", "put", "deposit"} /\ keyOf(t) = k
  BY DEF TableInv, Accounted, Accepting
<1>2. t \in Accepting(k)'
  BY <1>1 DEF Accepting, keyOf
<1> QED BY <1>2

LEMMA TableInvStep ==
  ASSUME TableInv, [Next]_vars
  PROVE  TableInv'
<1> USE DEF boxVars, handleVars, slotVars
<1>0. /\ HandleInv /\ AnswerInv /\ DataInv /\ SlotInv /\ SlotTypes /\ OtherTypes
      /\ \A t \in Submissions : keyOf(t) \in Keys
  BY KeyType DEF TableInv, HandleInv, AnswerInv, DataInv, SlotInv
<1>1. HandleInv'
  BY <1>0, HandleInvStep
\* Two handles of different keys are different.
<1>2. ASSUME NEW s \in Submissions, NEW k \in Keys, handles[k] # None, handleOf[s] = handles[k]
      PROVE  keyOf(s) = k
  BY <1>0, <1>2 DEF AnswerInv, TableKeyed, HandleTyped
<1>3. ASSUME NEW s \in Submissions, Submit(s) \/ GetAll(s) \/ IsReady(s) \/ Answer(s)
      PROVE  TableInv'
  <2>1. /\ UNCHANGED <<contribution, handles, future, store, deposited, plans>>
        /\ \A t \in Submissions : pc[t] \in {"is_ready", "put", "deposit"} =>
             pc'[t] \in {"is_ready", "put", "deposit"}
    BY <1>0, <1>3 DEF Submit, GetAll, IsReady, Answer, SlotTypes
  <2> QED BY <1>1, <2>1, TablePlanned, TableKept, TableAccounted DEF TableInv
<1>4. ASSUME NEW s \in Submissions, EnterReturningDone(s) \/ ValidateInvalid(s) \/ DepositDuplicate(s)
      PROVE  TableInv'
  <2>1. /\ release_lock_slot(s, handles, future)
        /\ UNCHANGED <<contribution, store, deposited, plans>>
        /\ \A t \in Submissions : t # s => pc'[t] = pc[t]
        /\ pc[s] \in {"lock", "validate"} \/ deposited[keyOf(s)] # {}
    BY <1>0, <1>4 DEF EnterReturningDone, ValidateInvalid, DepositDuplicate, is_new, SlotTypes
  <2>2. /\ future' = future
        /\ \A j \in Keys :
             \/ handles'[j] = handles[j]
             \/ j = keyOf(s) /\ handles'[j] = None /\ handles[j] # None /\ done(future, handles[j])
    BY <1>0, <2>1, TableReleased
  <2>3. KeptHaveHandle'
    BY <2>1, <2>2, TableKept DEF done
  <2> QED BY <1>1, <2>1, <2>2, <2>3, TablePlanned, TableAccounted DEF TableInv
<1>5. ASSUME NEW s \in Submissions, EnterSection(s) PROVE TableInv'
  <2>1. /\ UNCHANGED <<contribution, handles, store, deposited, plans>>
        /\ \A t \in Submissions : t # s => pc'[t] = pc[t] /\ future'[t] = future[t]
        /\ pc[s] = "lock"
    BY <1>0, <1>5 DEF EnterSection, SlotTypes, OtherTypes
  <2>2. future[s] = "none"
    BY <1>0, <2>1 DEF HandleInv, Fresh
  <2>3. KeptHaveHandle'
    BY <1>0, <2>1, <2>2, TableKept DEF OtherTypes
  <2> QED BY <1>1, <2>1, <2>3, TablePlanned, TableAccounted DEF TableInv
<1>6. ASSUME NEW s \in Submissions, ValidateUnknownPlan(s) PROVE TableInv'
  <2>1. /\ release_lock_slot(s, handles, resolve(future, handleOf[s], "exception"))
        /\ UNCHANGED <<contribution, store, deposited, plans>>
        /\ \A t \in Submissions : t # s => pc'[t] = pc[t]
        /\ pc[s] = "validate" /\ VersionOf[keyOf(s)] \notin plans
    BY <1>0, <1>6 DEF ValidateUnknownPlan, SlotTypes
  <2>2. handles[keyOf(s)] = None
    BY <1>0, <2>1 DEF TableInv, Planned
  <2>3. /\ future' = resolve(future, handleOf[s], "exception")
        /\ \A j \in Keys : handles'[j] = handles[j]
    BY <1>0, <2>1, <2>2, TableReleased
  <2>4. \A k \in Keys : handles[k] # None => future'[handles[k]] = future[handles[k]]
    BY <1>0, <1>2, <2>1, <2>2, <2>3, Resolves DEF InSection, OtherTypes
  <2>5. KeptHaveHandle'
    BY <2>1, <2>3, <2>4, TableKept
  <2> QED BY <1>1, <2>1, <2>3, <2>5, TablePlanned, TableAccounted DEF TableInv
<1>7. ASSUME NEW s \in Submissions, ValidateAccepted(s) PROVE TableInv'
  <2>1. /\ UNCHANGED <<contribution, handleOf, future, store, deposited, plans>>
        /\ \A t \in Submissions : t # s => pc'[t] = pc[t]
        /\ pc[s] = "validate" /\ pc'[s] = "is_ready" /\ VersionOf[keyOf(s)] \in plans
        /\ handles' = setdefault(handles, keyOf(s), handleOf[s])
    BY <1>0, <1>7 DEF ValidateAccepted, SlotTypes
  <2>2. \A k \in Keys : \/ handles'[k] = handles[k]
                        \/ k = keyOf(s) /\ handles[k] = None
    BY <1>0, <2>1 DEF setdefault, OtherTypes
  <2>3. Planned'
    BY <2>1, <2>2 DEF TableInv, Planned
  <2>4. KeptHaveHandle'
    BY <2>1, <2>2, TableKept
  <2>5. Accounted'
    <3> SUFFICES ASSUME NEW k \in Keys, handles'[k] # None, deposited'[k] = {}, store'[k] = {}
                 PROVE  Accepting(k)' # {}
      BY DEF Accounted
    <3>1. CASE k = keyOf(s)
      <4>1. s \in Accepting(k)'
        BY <2>1, <3>1 DEF Accepting, keyOf
      <4> QED BY <4>1
    <3>2. CASE k # keyOf(s)
      <4>1. PICK t \in Submissions : pc[t] \in {"is_ready", "put", "deposit"} /\ keyOf(t) = k
        BY <2>1, <2>2, <3>2 DEF TableInv, Accounted, Accepting
      <4>2. t \in Accepting(k)'
        BY <2>1, <4>1 DEF Accepting, keyOf
      <4> QED BY <4>2
    <3> QED BY <3>1, <3>2
  <2> QED BY <1>1, <2>3, <2>4, <2>5 DEF TableInv
<1>8. ASSUME NEW s \in Submissions, Deposit(s) PROVE TableInv'
  <2>1. /\ UNCHANGED <<contribution, handles, future, store, plans>>
        /\ \A t \in Submissions : t # s => pc'[t] = pc[t]
        /\ deposited' = [deposited EXCEPT ![keyOf(s)] = oldOf[s] \cup {s}]
    BY <1>0, <1>8 DEF Deposit, SlotTypes
  <2>2. /\ deposited'[keyOf(s)] # {}
        /\ \A k \in Keys : k # keyOf(s) => deposited'[k] = deposited[k]
    BY <1>0, <2>1 DEF OtherTypes
  <2>3. Planned' /\ KeptHaveHandle'
    BY <2>1, TablePlanned, TableKept
  <2>4. Accounted'
    <3> SUFFICES ASSUME NEW k \in Keys, handles'[k] # None, deposited'[k] = {}, store'[k] = {}
                 PROVE  Accepting(k)' # {}
      BY DEF Accounted
    <3>1. PICK t \in Submissions : pc[t] \in {"is_ready", "put", "deposit"} /\ keyOf(t) = k
      BY <2>1, <2>2 DEF TableInv, Accounted, Accepting
    <3>2. t # s
      BY <2>2, <3>1
    <3>3. t \in Accepting(k)'
      BY <2>1, <3>1, <3>2 DEF Accepting, keyOf
    <3> QED BY <3>3
  <2> QED BY <1>1, <2>3, <2>4 DEF TableInv
<1>9. ASSUME NEW s \in Submissions, Discard(s) PROVE TableInv'
  <2>1. /\ release_lock_slot(s, handles, resolve(future, handleOf[s], "result"))
        /\ UNCHANGED <<contribution, deposited, plans>>
        /\ store' = [store EXCEPT ![keyOf(s)] = {}]
        /\ \A t \in Submissions : t # s => pc'[t] = pc[t]
        /\ pc[s] = "discard"
    BY <1>0, <1>9 DEF Discard, SlotTypes
  <2>2. /\ store'[keyOf(s)] = {}
        /\ \A k \in Keys : k # keyOf(s) => store'[k] = store[k]
        /\ deposited[keyOf(s)] # {}
    BY <1>0, <2>1 DEF OtherTypes, AnswerInv, Resolved
  <2>3. /\ future' = resolve(future, handleOf[s], "result")
        /\ \A j \in Keys : handles'[j] \in {handles[j], None}
        /\ \A j \in Keys : j # keyOf(s) => handles'[j] = handles[j]
    BY <1>0, <2>1, TableReleased
  <2>4. \A k \in Keys : handles[k] # None /\ k # keyOf(s) =>
          future'[handles[k]] = future[handles[k]]
    BY <1>0, <1>2, <2>1, <2>3, Resolves DEF InSection, OtherTypes
  <2>5. KeptHaveHandle'
    BY <2>2, <2>3, <2>4, TableKept
  <2>6. Accounted'
    <3> SUFFICES ASSUME NEW k \in Keys, handles'[k] # None, deposited'[k] = {}, store'[k] = {}
                 PROVE  Accepting(k)' # {}
      BY DEF Accounted
    <3>1. k # keyOf(s)
      BY <2>1, <2>2
    <3>2. PICK t \in Submissions : pc[t] \in {"is_ready", "put", "deposit"} /\ keyOf(t) = k
      BY <2>1, <2>2, <2>3, <3>1 DEF TableInv, Accounted, Accepting
    <3>3. t \in Accepting(k)'
      BY <2>1, <3>1, <3>2 DEF Accepting, keyOf
    <3> QED BY <3>3
  <2> QED BY <1>1, <2>1, <2>3, <2>5, <2>6, TablePlanned DEF TableInv
<1>10. ASSUME NEW s \in Submissions, Put(s) PROVE TableInv'
  <2>1. /\ release_lock_slot(s, handles, future)
        /\ UNCHANGED <<contribution, deposited, plans>>
        /\ store' = [store EXCEPT ![keyOf(s)] = @ \cup {s}]
        /\ \A t \in Submissions : t # s => pc'[t] = pc[t]
        /\ pc[s] = "put"
    BY <1>0, <1>10 DEF Put, SlotTypes
  <2>2. /\ s \in store'[keyOf(s)]
        /\ \A k \in Keys : k # keyOf(s) => store'[k] = store[k]
    BY <1>0, <2>1 DEF OtherTypes
  <2>3. /\ handles[keyOf(s)] = handleOf[s] /\ handleOf[s] \in Submissions
        /\ future[handleOf[s]] = "pending"
    BY <1>0, <2>1 DEF HandleInv, InTable, AnswerInv, HandleTyped, Unresolved, InSection
  <2>4. /\ future' = future
        /\ \A j \in Keys : handles'[j] = handles[j]
    BY <1>0, <2>1, <2>3, TableReleased DEF done
  <2>5. Planned'
    BY <2>1, <2>4, TablePlanned
  <2>6. KeptHaveHandle'
    BY <2>2, <2>3, <2>4, PipelineAssumption DEF TableInv, KeptHaveHandle
  <2>7. Accounted'
    <3> SUFFICES ASSUME NEW k \in Keys, handles'[k] # None, deposited'[k] = {}, store'[k] = {}
                 PROVE  Accepting(k)' # {}
      BY DEF Accounted
    <3>1. k # keyOf(s)
      BY <2>2
    <3>2. PICK t \in Submissions : pc[t] \in {"is_ready", "put", "deposit"} /\ keyOf(t) = k
      BY <2>1, <2>2, <2>4, <3>1 DEF TableInv, Accounted, Accepting
    <3>3. t \in Accepting(k)'
      BY <2>1, <3>1, <3>2 DEF Accepting, keyOf
    <3> QED BY <3>3
  <2> QED BY <1>1, <2>5, <2>6, <2>7 DEF TableInv
<1>11. CASE UNCHANGED <<pc, contribution, handles, future, store, deposited>> /\ plans \subseteq plans'
  BY <1>1, <1>11, TablePlanned, TableKept, TableAccounted DEF TableInv
<1> QED BY <1>3, <1>4, <1>5, <1>6, <1>7, <1>8, <1>9, <1>10, <1>11
        DEF Next, Step, ExtractNext, PutPlan, vars

\* Who waits for an answer waits on the handle in the table, contributions that
\* are kept have a handle there that can still be resolved, and, once nobody
\* refers to a key, a resolved handle is gone and so is, until the key is
\* deposited, any handle without contributions.
THEOREM HandlesAreInStepHolds == Spec => []HandlesAreInStep
<1>1. Init => TableInv
  BY TableInvInit
<1>2. TableInv /\ [Next]_vars => TableInv'
  BY TableInvStep
<1>3. TableInv => HandlesHaveKept
  <2> SUFFICES ASSUME TableInv, NEW k \in Keys, lockSlots[k] = None, handles[k] # None,
                      deposited[k] = {}, store[k] = {}
               PROVE  FALSE
    BY DEF HandlesHaveKept
  <2>1. PICK s \in Submissions : pc[s] \in InSection /\ keyOf(s) = k
    BY DEF TableInv, Accounted, Accepting, InSection
  <2> QED BY <2>1, PipelineAssumption
          DEF TableInv, HandleInv, AnswerInv, DataInv, SlotInv, Shared, Using
<1>4. TableInv => HandlesAreInStep
  BY <1>3 DEF TableInv, HandleInv, HandlesAreInStep
<1> QED BY <1>1, <1>2, <1>4, PTL DEF Spec

-----------------------------------------------------------------------------
(* The refinement.                                                         *)

\* What the promise of HopGathering does not see.
LEMMA Unseen ==
  ASSUME UNCHANGED <<contribution, deposited>>,
         \A k \in Keys : Pending(k)' = Pending(k),
         \A s \in Submissions : Told(s)' = Told(s)
  PROVE  UNCHANGED Gathering!hvars
BY DEF Gathering!hvars

\* Who is in the section is told nothing yet, and nobody else discards its key.
LEMMA InSectionView ==
  ASSUME AnswerInv, NEW s \in Submissions, pc[s] \in InSection
  PROVE  /\ Told(s) = "none"
         /\ keyOf(s) \in Keys
         /\ \A t \in Submissions : pc[t] = "discard" /\ keyOf(t) = keyOf(s) => t = s
<1>1. SlotInv /\ Using(s) /\ owns_lock(s)
  BY DEF AnswerInv, DataInv, SlotInv, Owner, Using
<1>2. keyOf(s) \in Keys
  BY <1>1, KeyType DEF SlotInv
<1>3. \A t \in Submissions : pc[t] = "discard" /\ keyOf(t) = keyOf(s) => t = s
  BY <1>1, OwnerIsAlone DEF InSection
<1> QED BY <1>2, <1>3 DEF Told, InSection

\* Nothing that a submission in the section or refused brings has been taken.
LEMMA NotTaken ==
  ASSUME AnswerInv, NEW s \in Submissions,
         \/ pc[s] \in {"validate", "put", "deposit"}
         \/ pc[s] = "future" /\ future[handleOf[s]] = "exception"
  PROVE  ~ Gathering!Taken(s)
<1>1. \A k \in Keys : s \notin store[k] \cup deposited[k]
  BY DEF AnswerInv, Taken
<1>2. \A k \in Keys : Pending(k) \subseteq store[k]
  BY DEF Pending
<1> QED BY <1>1, <1>2 DEF Gathering!Taken

\* The two specifications agree on what fits and what is complete.
LEMMA SamePolicy ==
  ASSUME NEW s \in Submissions, NEW C \in SUBSET Submissions, NEW k \in Keys
  PROVE  /\ Gathering!Fits(s, C) <=> validate(s, C)
         /\ Gathering!Complete(k, C) <=> check_inputs_ready(k, C)
BY DEF Gathering!Fits, Gathering!Complete, Gathering!Tensors, validate, check_inputs_ready,
       ArrivedFrom, TensorsOf

\* Put keeps a fitting contribution.
LEMMA PutKeeps ==
  ASSUME AnswerInv, NotReady, NEW s \in Submissions, Put(s)
  PROVE  Gathering!Keep(s)
<1> USE DEF boxVars
<1>0. /\ pc[s] = "put" /\ pc[s] \in InSection
      /\ SlotTypes /\ OtherTypes /\ \A t \in Submissions : keyOf(t) \in Keys
  BY KeyType DEF Put, InSection, AnswerInv, DataInv, SlotInv
<1> PICK k \in Keys : k = contribution[s].key
  BY <1>0 DEF keyOf
<1>1. /\ store' = [store EXCEPT ![k] = @ \cup {s}] /\ UNCHANGED <<contribution, deposited>>
      /\ \A t \in Submissions : t # s => pc'[t] = pc[t]
      /\ pc'[s] = "future"
  BY <1>0 DEF Put, SlotTypes, keyOf
<1>2. /\ Told(s) = "none" /\ ~ Gathering!Taken(s)
      /\ \A t \in Submissions : ~ (pc[t] = "discard" /\ keyOf(t) = k)
  BY <1>0, InSectionView, NotTaken DEF keyOf
<1>3. Pending(k) = store[k] /\ store[k] \in SUBSET Submissions
  BY <1>0, <1>2 DEF Pending, OtherTypes
<1>4. validate(s, store[k]) /\ ~ check_inputs_ready(k, store[k] \cup {s})
  BY <1>0 DEF AnswerInv, DataInv, Snapshot, Validated, NotReady, is_ready, keyOf
<1>5. Gathering!Fits(s, store[k]) /\ ~ Gathering!Complete(k, store[k] \cup {s})
  BY <1>3, <1>4, SamePolicy
<1>6. \A t \in Submissions : Told(t)' = Told(t)
  BY <1>0, <1>1 DEF Told
<1>7. \A j \in Keys : Pending(j)' = IF j = k THEN Pending(k) \cup {s} ELSE Pending(j)
  <2>1. \A t \in Submissions : pc'[t] = "discard" <=> pc[t] = "discard"
    BY <1>0, <1>1
  <2>2. \A t \in Submissions : keyOf(t)' = keyOf(t)
    BY <1>1 DEF keyOf
  <2> QED BY <1>0, <1>1, <1>2, <1>3, <2>1, <2>2 DEF Pending, OtherTypes
<1> QED BY <1>1, <1>2, <1>3, <1>5, <1>6, <1>7 DEF Gathering!Keep

\* Deposit hands over what was kept together with the contribution that completes it.
LEMMA DepositHandsOver ==
  ASSUME AnswerInv, NEW s \in Submissions, Deposit(s)
  PROVE  Gathering!HandOver(s)
<1>0. /\ pc[s] = "deposit" /\ pc[s] \in InSection
      /\ SlotTypes /\ OtherTypes /\ \A t \in Submissions : keyOf(t) \in Keys
  BY KeyType DEF Deposit, InSection, AnswerInv, DataInv, SlotInv
<1> PICK k \in Keys : k = contribution[s].key
  BY <1>0 DEF keyOf
<1>1. /\ deposited[k] = {} /\ deposited' = [deposited EXCEPT ![k] = oldOf[s] \cup {s}]
      /\ UNCHANGED <<contribution, store>>
      /\ \A t \in Submissions : t # s => pc'[t] = pc[t]
      /\ pc'[s] = "discard"
  BY <1>0 DEF Deposit, is_new, SlotTypes, keyOf
<1>2. /\ Told(s) = "none" /\ ~ Gathering!Taken(s)
      /\ \A t \in Submissions : ~ (pc[t] = "discard" /\ keyOf(t) = k)
  BY <1>0, InSectionView, NotTaken DEF keyOf
<1>3. Pending(k) = store[k] /\ store[k] \in SUBSET Submissions /\ oldOf[s] = store[k]
  BY <1>0, <1>2 DEF Pending, OtherTypes, AnswerInv, DataInv, Snapshot, keyOf
<1>4. validate(s, store[k]) /\ check_inputs_ready(k, store[k] \cup {s})
  BY <1>0, <1>3 DEF AnswerInv, DataInv, Validated, Completing, is_ready, keyOf
<1>5. Gathering!Fits(s, store[k]) /\ Gathering!Complete(k, store[k] \cup {s})
  BY <1>3, <1>4, SamePolicy
<1>6. \A t \in Submissions : Told(t)' = Told(t)
  BY <1>0, <1>1 DEF Told
<1>7. \A j \in Keys : Pending(j)' = IF j = k THEN {} ELSE Pending(j)
  <2>1. \A t \in Submissions : keyOf(t)' = keyOf(t)
    BY <1>1 DEF keyOf
  <2>2. keyOf(s) = k
    BY DEF keyOf
  <2>3. Pending(k)' = {}
    BY <1>1, <2>1, <2>2 DEF Pending
  <2>4. \A j \in Keys : j # k => Pending(j)' = Pending(j)
    BY <1>0, <1>1, <2>1, <2>2 DEF Pending
  <2> QED BY <2>3, <2>4
<1> QED BY <1>1, <1>2, <1>3, <1>5, <1>6, <1>7 DEF Gathering!HandOver

\* A refusal: s is told so, and nothing it brought is anywhere.
LEMMA Refuses ==
  ASSUME AnswerInv, NEW s \in Submissions,
         \/ pc[s] \in {"validate", "deposit"}
         \/ pc[s] = "future" /\ future[handleOf[s]] = "exception",
         pc' = [pc EXCEPT ![s] = "raised"],
         UNCHANGED <<contribution, store, deposited>>
  PROVE  Gathering!Refuse(s)
<1>1. Told(s) = "none" /\ ~ Gathering!Taken(s)
  BY NotTaken DEF Told
<1>2. /\ \A t \in Submissions : t # s => pc'[t] = pc[t]
      /\ pc'[s] = "raised" /\ pc[s] # "discard"
  BY DEF AnswerInv, DataInv, SlotInv, SlotTypes
<1>3. \A t \in Submissions : Told(t)' = IF t = s THEN "error" ELSE Told(t)
  BY <1>2 DEF Told
<1>4. \A k \in Keys : Pending(k)' = Pending(k)
  <2>1. \A t \in Submissions : pc'[t] = "discard" <=> pc[t] = "discard"
    BY <1>2
  <2> QED BY <2>1 DEF Pending, keyOf
<1> QED BY <1>1, <1>3, <1>4 DEF Gathering!Refuse

\* An acknowledgement: the invocation of the destination exists.
LEMMA AnswerAcknowledges ==
  ASSUME AnswerInv, NEW s \in Submissions, Answer(s), future[handleOf[s]] = "result"
  PROVE  Gathering!Acknowledge(s)
<1> USE DEF boxVars
<1>0. /\ pc[s] = "future" /\ handleOf[s] \in Submissions
      /\ \A t \in Submissions : keyOf(t) \in Keys
  BY KeyType DEF Answer, AnswerInv, HandleTyped, DataInv, SlotInv
<1>1. /\ \A t \in Submissions : t # s => pc'[t] = pc[t]
      /\ pc'[s] = "acked" /\ UNCHANGED <<contribution, store, deposited>>
  BY DEF Answer, AnswerInv, DataInv, SlotInv, SlotTypes
<1>2. deposited[contribution[s].key] # {}
  <2>1. keyOf(handleOf[s]) = keyOf(s)
    BY <1>0, PipelineAssumption DEF AnswerInv, HandleTyped
  <2> QED BY <1>0, <2>1 DEF AnswerInv, Resolved, keyOf
<1>3. \A t \in Submissions : Told(t)' = IF t = s THEN "ack" ELSE Told(t)
  BY <1>1 DEF Told
<1>4. \A k \in Keys : Pending(k)' = Pending(k)
  <2>1. \A t \in Submissions : pc'[t] = "discard" <=> pc[t] = "discard"
    BY <1>0, <1>1
  <2> QED BY <1>1, <2>1 DEF Pending, keyOf
<1>5. Told(s) = "none"
  BY <1>0 DEF Told
<1> QED BY <1>1, <1>2, <1>3, <1>4, <1>5 DEF Gathering!Acknowledge

\* Discard only makes true what the deposit promised.
LEMMA DiscardIsUnseen ==
  ASSUME AnswerInv, NEW s \in Submissions, Discard(s)
  PROVE  UNCHANGED Gathering!hvars
<1>0. /\ pc[s] = "discard" /\ pc[s] \in InSection
      /\ SlotTypes /\ OtherTypes /\ \A t \in Submissions : keyOf(t) \in Keys
  BY KeyType DEF Discard, InSection, AnswerInv, DataInv, SlotInv
<1> PICK k \in Keys : k = keyOf(s)
  BY <1>0
<1>1. /\ store' = [store EXCEPT ![k] = {}] /\ UNCHANGED <<contribution, deposited>>
      /\ \A t \in Submissions : t # s => pc'[t] = pc[t]
      /\ pc'[s] = "future"
  BY <1>0 DEF Discard, SlotTypes
<1>2. \A t \in Submissions : keyOf(t)' = keyOf(t) /\ (pc'[t] = "discard" => pc[t] = "discard")
  BY <1>1 DEF keyOf
<1>3. Pending(k) = {} /\ Pending(k)' = {}
  BY <1>0, <1>1 DEF Pending, OtherTypes
<1>4. \A j \in Keys : j # k => Pending(j)' = Pending(j)
  BY <1>0, <1>1, <1>2 DEF Pending, OtherTypes
<1>5. \A t \in Submissions : Told(t)' = Told(t)
  BY <1>0, <1>1 DEF Told
<1> QED BY <1>1, <1>3, <1>4, <1>5, Unseen

\* Steps on the way change neither what is kept nor what anyone was told.
LEMMA OnTheWay ==
  ASSUME AnswerInv, NEW s \in Submissions,
         \A t \in Submissions : t # s => pc'[t] = pc[t],
         pc[s] \notin {"discard", "acked", "raised"},
         pc'[s] \notin {"discard", "acked", "raised"},
         UNCHANGED <<contribution, store, deposited>>
  PROVE  UNCHANGED Gathering!hvars
<1>1. \A t \in Submissions : pc'[t] = "discard" <=> pc[t] = "discard"
  OBVIOUS
<1>2. \A k \in Keys : Pending(k)' = Pending(k)
  BY <1>1 DEF Pending, keyOf
<1>3. \A t \in Submissions : Told(t)' = Told(t)
  BY DEF Told
<1> QED BY <1>2, <1>3, Unseen

LEMMA GatheringInit ==
  ASSUME Init
  PROVE  Gathering!HInit
<1>1. /\ \A k \in Keys : Pending(k) = {}
      /\ \A s \in Submissions : Told(s) = "none"
  BY DEF Init, Pending, Told
<1> QED BY <1>1 DEF Init, Gathering!HInit

LEMMA GatheringNext ==
  ASSUME AnswerInv, NotReady, [Next]_vars
  PROVE  Gathering!HNext \/ UNCHANGED Gathering!hvars
<1> USE DEF boxVars
<1>0. SlotTypes /\ OtherTypes
  BY DEF AnswerInv, DataInv, SlotInv
<1>1. ASSUME NEW s \in Submissions, Put(s) PROVE Gathering!HNext
  BY <1>1, PutKeeps DEF Gathering!HNext
<1>2. ASSUME NEW s \in Submissions, Deposit(s) PROVE Gathering!HNext
  BY <1>2, DepositHandsOver DEF Gathering!HNext
<1>3. ASSUME NEW s \in Submissions, ValidateInvalid(s) \/ DepositDuplicate(s)
      PROVE  Gathering!HNext
  <2>1. Gathering!Refuse(s)
    BY <1>3, Refuses DEF ValidateInvalid, DepositDuplicate
  <2> QED BY <2>1 DEF Gathering!HNext
<1>4. ASSUME NEW s \in Submissions, Answer(s) PROVE Gathering!HNext
  <2>1. CASE future[handleOf[s]] = "result"
    BY <1>4, <2>1, AnswerAcknowledges DEF Gathering!HNext
  <2>2. CASE future[handleOf[s]] # "result"
    <3>1. Gathering!Refuse(s)
      BY <1>4, <2>2, Refuses DEF Answer, done
    <3> QED BY <3>1 DEF Gathering!HNext
  <2> QED BY <2>1, <2>2
<1>5. ASSUME NEW s \in Submissions, Discard(s) PROVE UNCHANGED Gathering!hvars
  BY <1>5, DiscardIsUnseen
<1>6. ASSUME NEW s \in Submissions,
             \/ Submit(s) \/ EnterReturningDone(s) \/ EnterSection(s) \/ GetAll(s)
             \/ ValidateUnknownPlan(s) \/ ValidateAccepted(s) \/ IsReady(s)
      PROVE  UNCHANGED Gathering!hvars
  <2>1. /\ \A t \in Submissions : t # s => pc'[t] = pc[t]
        /\ UNCHANGED <<contribution, store, deposited>>
    BY <1>0, <1>6 DEF Submit, EnterReturningDone, EnterSection, GetAll, ValidateUnknownPlan,
       ValidateAccepted, IsReady, SlotTypes
  <2>2. /\ pc[s] \in {"idle", "lock", "get_all", "validate", "is_ready"}
        /\ pc'[s] \in {"lock", "future", "get_all", "validate", "is_ready", "deposit", "put"}
    BY <1>0, <1>6 DEF Submit, EnterReturningDone, EnterSection, GetAll, ValidateUnknownPlan,
       ValidateAccepted, IsReady, SlotTypes
  <2> QED BY <2>1, <2>2, OnTheWay
<1>7. CASE UNCHANGED <<pc, contribution, store, deposited>>
  <2>1. /\ \A k \in Keys : Pending(k)' = Pending(k)
        /\ \A t \in Submissions : Told(t)' = Told(t)
    BY <1>7 DEF Pending, Told, keyOf
  <2> QED BY <1>7, <2>1, Unseen
<1> QED BY <1>1, <1>2, <1>3, <1>4, <1>5, <1>6, <1>7 DEF Next, Step, ExtractNext, PutPlan, vars

\* The pipeline, with its locks, handles and suspension points, implements the
\* atomic promise of HopGathering.
THEOREM ImplementsGatheringHolds == Spec => ImplementsGathering
<1>1. Init => Gathering!HInit
  BY GatheringInit
<1>2. Init => AnswerInv /\ NotReady /\ Incomplete
  BY AnswerInvInit DEF Init, NotReady, Incomplete
<1>3. AnswerInv /\ NotReady /\ Incomplete /\ [Next]_vars => (AnswerInv /\ NotReady /\ Incomplete)'
  BY AnswerInvStep, IncompleteStep DEF AnswerInv
<1>4. AnswerInv /\ NotReady /\ [Next]_vars => [Gathering!HNext]_Gathering!hvars
  BY GatheringNext
<1> QED BY <1>1, <1>2, <1>3, <1>4, PTL DEF Spec, ImplementsGathering, Gathering!HSpec
=============================================================================
