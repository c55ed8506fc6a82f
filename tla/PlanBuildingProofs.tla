-------------------------- MODULE PlanBuildingProofs --------------------------
(***************************************************************************)
(* Theorems about the plans the controller builds: first for any solution  *)
(* that the conversion accepts, of any optimizer, then for the solutions   *)
(* that MCPlanBuilding reaches, for any workers, number of flows, number   *)
(* of components and limits of the optimizer.                              *)
(*                                                                         *)
(* The argument: the slots of a flow that execute something, its ingress   *)
(* before and its sink after them, form a chain in which next and previous *)
(* are inverse (Chain), so that both ends of a route name each other; and  *)
(* no two slots have one hop (HopsDiffer), so that an address is a slot's. *)
(*                                                                         *)
(* That the data suffice is an argument about cuts of a topology: a tensor *)
(* crosses the cut before a component iff an edge that carries it does     *)
(* (CrossesCut), so that what a component sends on was given to it or is   *)
(* made by its layers (SentIsReceivedOrMade). It rests on topologies being *)
(* data flows, as is proved of those of any model file (IsModelFile, in    *)
(* MCPlanBuilding). The scheme that a worker keeps for a partition is then *)
(* each of its replicas' (SchemeOfPartition), as the conversion checked.   *)
(*                                                                         *)
(* Since tensors lead from the inputs of a model to its outputs, one       *)
(* crosses every cut, and no route is empty (RoutesCarry). With that the   *)
(* plan of a worker is one that OperatorProofs are about: it arrives       *)
(* as it was sent and is accepted (WorkerPlansArePlans).                   *)
(*                                                                         *)
(* That a partition's file computes its layers is proved of any model file *)
(* and any set of its layers (PartitionFiles): the nodes that are kept are *)
(* the least set closed under the makers of what is read (ExtractedModel), *)
(* every layer leads to the outputs, and no two nodes make one tensor.     *)
(* Both closures are computed in as many rounds as there are elements;     *)
(* that nothing more is added then is GrowthEnds, from UpTo, which does    *)
(* what induction would.                                                   *)
(*                                                                         *)
(* A session over a file has a run, which gives each tensor what its node  *)
(* makes of those it reads (SessionRuns), and has one (RunsAgree). So a    *)
(* partition's session gives values of the run of the whole file           *)
(* (PartitionsRunAsTheModel), each round of a model pass takes such values *)
(* from a hop to the next (HopsAreInvoked), and they end in the sink       *)
(* (PassOfRun).                                                            *)
(*                                                                         *)
(* The memory that hops take is a sum over their tensors. The profiles,    *)
(* stored, read and bound, give each tensor the bytes that it takes        *)
(* (LayerWeights, ModelSizes), each hop has a component of its own that    *)
(* the optimizer has counted, and that is no lighter (HopsHaveComponents). *)
(*                                                                         *)
(* The times of a state are a problem as OperatorProofs have it: profiles  *)
(* give positive batches and times (RequestsAreProfiled), a cut transmits  *)
(* no more than the largest one (CutsAreBounded), and the timings are      *)
(* those of the requests and answers (TimesInv).                           *)
(***************************************************************************)
EXTENDS MCPlanBuilding, OperatorProofs, FiniteSetTheorems, TLAPS

-----------------------------------------------------------------------------
(* The chain of a flow.                                                    *)

\* A flow solution as the conversion accepts it, which executes something.
IsFlow(fs) ==
  /\ Len(fs.components) \in Nat
  /\ DOMAIN fs.components = 1 .. Len(fs.components)
  /\ executable_components(fs) # {}

\* Where data enters a flow, or a hop of it executes something.
Sending(fs) == {0} \cup executable_components(fs)
Receiving(fs) == executable_components(fs) \cup {SinkIndex(fs)}

LEMMA ExecutedEnds ==
  ASSUME NEW fs, IsFlow(fs)
  PROVE  /\ executable_components(fs) \subseteq 1 .. Len(fs.components)
         /\ FirstExecuted(fs) \in executable_components(fs)
         /\ LastExecuted(fs) \in executable_components(fs)
         /\ \A i \in executable_components(fs) :
              FirstExecuted(fs) <= i /\ i <= LastExecuted(fs)
<1> PICK n \in Nat : n = Len(fs.components)
  BY DEF IsFlow
<1> PICK E : E = executable_components(fs)
  OBVIOUS
<1>1. E \subseteq 1 .. n /\ E # {}
  BY DEF IsFlow, executable_components
<1>2. E \subseteq Nat /\ \A i \in E : i <= n
  BY <1>1
<1>3. Min(E) \in E /\ \A i \in E : Min(E) <= i
  BY <1>1, <1>2, MinIsLeast
<1>4. Max(E) \in E /\ \A i \in E : i <= Max(E)
  BY <1>1, <1>2, MaxIsGreatest
<1> QED BY <1>1, <1>3, <1>4 DEF FirstExecuted, LastExecuted

\* What comes after i: the next component that executes something, or the sink.
LEMMA NextInChain ==
  ASSUME NEW fs, IsFlow(fs), NEW i \in Sending(fs)
  PROVE  /\ next(fs, i) \in Receiving(fs) /\ next(fs, i) > i
         /\ \A j \in executable_components(fs) : j > i => next(fs, i) <= j
         /\ next(fs, i) = SinkIndex(fs) <=> i = LastExecuted(fs)
<1> PICK n \in Nat : n = Len(fs.components)
  BY DEF IsFlow
<1> PICK E : E = executable_components(fs)
  OBVIOUS
<1> PICK last : last = LastExecuted(fs)
  OBVIOUS
<1>1. E \subseteq 1 .. n /\ last \in E /\ \A j \in E : j <= last
  BY ExecutedEnds
<1> PICK S : S = {n + 1} \cup {j \in E : j > i}
  OBVIOUS
<1>2. i \in {0} \cup E /\ i \in Nat
  BY <1>1 DEF Sending
<1>3. S \subseteq Nat /\ S # {}
  BY <1>1
<1>4. Min(S) \in S /\ \A y \in S : Min(S) <= y
  BY <1>3, MinIsLeast
<1>5. next(fs, i) = Min(S)
  BY DEF next, SinkIndex
<1>6. Min(S) > i
  BY <1>1, <1>2, <1>4
<1>7. Min(S) = n + 1 <=> i = last
  <2>1. CASE i = last
    <3>1. S = {n + 1}
      BY <1>1, <2>1
    <3> QED BY <1>4, <2>1, <3>1
  <2>2. CASE i # last
    <3>1. last \in S /\ last \in 1 .. n
      BY <1>1, <1>2, <2>2
    <3>2. Min(S) <= last /\ Min(S) \in Nat
      BY <1>3, <1>4, <3>1
    <3> QED BY <2>2, <3>1, <3>2
  <2> QED BY <2>1, <2>2
<1> QED BY <1>4, <1>5, <1>6, <1>7 DEF Receiving, SinkIndex

\* What comes before i: the component before that executes something, or the ingress.
LEMMA PreviousInChain ==
  ASSUME NEW fs, IsFlow(fs), NEW i \in executable_components(fs)
  PROVE  /\ previous(fs, i) \in Sending(fs) /\ previous(fs, i) < i
         /\ \A j \in executable_components(fs) : j < i => j <= previous(fs, i)
<1> PICK n \in Nat : n = Len(fs.components)
  BY DEF IsFlow
<1> PICK E : E = executable_components(fs)
  OBVIOUS
<1>1. E \subseteq 1 .. n
  BY ExecutedEnds
<1> PICK S : S = {0} \cup {j \in E : j < i}
  OBVIOUS
<1>2. S \subseteq Nat /\ S # {} /\ (\A y \in S : y <= n) /\ i \in 1 .. n
  BY <1>1
<1>3. Max(S) \in S /\ \A y \in S : y <= Max(S)
  BY <1>2, MaxIsGreatest
<1>4. previous(fs, i) = Max(S)
  BY DEF previous
<1> QED BY <1>2, <1>3, <1>4 DEF Sending

\* The source that an input routing names.
before(fs, i) == IF i = SinkIndex(fs) THEN LastExecuted(fs) ELSE previous(fs, i)

LEMMA Chain ==
  ASSUME NEW fs, IsFlow(fs)
  PROVE  /\ \A i \in Sending(fs) :
              next(fs, i) \in Receiving(fs) /\ before(fs, next(fs, i)) = i
         /\ \A i \in Receiving(fs) :
              before(fs, i) \in Sending(fs) /\ next(fs, before(fs, i)) = i
<1>0. executable_components(fs) \subseteq 1 .. Len(fs.components) /\ Len(fs.components) \in Nat
  BY ExecutedEnds DEF IsFlow
<1>1. ASSUME NEW i \in Sending(fs)
      PROVE  next(fs, i) \in Receiving(fs) /\ before(fs, next(fs, i)) = i
  <2> PICK j : j = next(fs, i)
    OBVIOUS
  <2>1. /\ j \in Receiving(fs) /\ j > i
        /\ \A m \in executable_components(fs) : m > i => j <= m
        /\ j = SinkIndex(fs) <=> i = LastExecuted(fs)
    BY NextInChain
  <2>2. CASE j = SinkIndex(fs)
    BY <2>1, <2>2 DEF before
  <2>3. CASE j # SinkIndex(fs)
    <3>1. j \in executable_components(fs)
      BY <2>1, <2>3 DEF Receiving
    <3>2. /\ previous(fs, j) \in Sending(fs) /\ previous(fs, j) < j
          /\ \A m \in executable_components(fs) : m < j => m <= previous(fs, j)
      BY <3>1, PreviousInChain
    <3>3. previous(fs, j) = i
      BY <1>0, <2>1, <3>1, <3>2 DEF Sending
    <3> QED BY <2>1, <2>3, <3>3 DEF before
  <2> QED BY <2>2, <2>3
<1>2. ASSUME NEW i \in Receiving(fs)
      PROVE  before(fs, i) \in Sending(fs) /\ next(fs, before(fs, i)) = i
  <2>1. CASE i = SinkIndex(fs)
    <3>1. LastExecuted(fs) \in Sending(fs)
      BY ExecutedEnds DEF Sending
    <3> QED BY <2>1, <3>1, NextInChain DEF before
  <2>2. CASE i # SinkIndex(fs)
    <3>1. i \in executable_components(fs)
      BY <2>2 DEF Receiving
    <3> PICK j : j = previous(fs, i)
      OBVIOUS
    <3>2. /\ j \in Sending(fs) /\ j < i
          /\ \A m \in executable_components(fs) : m < i => m <= j
      BY <3>1, PreviousInChain
    <3>3. /\ next(fs, j) \in Receiving(fs) /\ next(fs, j) > j
          /\ \A m \in executable_components(fs) : m > j => next(fs, j) <= m
      BY <3>2, NextInChain
    <3>4. next(fs, j) = i
      BY <1>0, <3>1, <3>2, <3>3 DEF Sending, Receiving, SinkIndex
    <3> QED BY <2>2, <3>2, <3>4 DEF before
  <2> QED BY <2>1, <2>2
<1> QED BY <1>1, <1>2
-----------------------------------------------------------------------------
(* The slots of a solution and the workers they are placed on.             *)

IsSolution(sol) ==
  /\ \E m \in Nat : DOMAIN sol = 1 .. m
  /\ \A k \in DOMAIN sol : IsFlow(sol[k])

SlotsOf(sol) ==
  UNION {{k} \X ({0} \cup Receiving(sol[k])) : k \in DOMAIN sol}

worker_at(sol, s) ==
  IF s[2] = 0 THEN sol[s[1]].ingress
  ELSE IF s[2] = SinkIndex(sol[s[1]]) THEN sol[s[1]].sink
  ELSE sol[s[1]].components[s[2]].worker

\* Ingress, components and sink of a flow are apart.
LEMMA SlotsApart ==
  ASSUME NEW fs, IsFlow(fs)
  PROVE  /\ 0 \notin Receiving(fs) /\ SinkIndex(fs) \notin Sending(fs)
         /\ Receiving(fs) \subseteq Nat \ {0} /\ Sending(fs) \subseteq Nat
         /\ executable_components(fs) \subseteq DOMAIN fs.components
<1>1. executable_components(fs) \subseteq 1 .. Len(fs.components) /\ Len(fs.components) \in Nat
  BY ExecutedEnds DEF IsFlow
<1> QED BY <1>1 DEF Receiving, Sending, SinkIndex, IsFlow

LEMMA ASlot ==
  ASSUME NEW sol, IsSolution(sol), NEW s \in SlotsOf(sol)
  PROVE  /\ s = <<s[1], s[2]>> /\ s[1] \in DOMAIN sol /\ s[1] \in Nat /\ s[2] \in Nat
         /\ IsFlow(sol[s[1]]) /\ s[2] \in {0} \cup Receiving(sol[s[1]])
<1>1. PICK k \in DOMAIN sol : s \in {k} \X ({0} \cup Receiving(sol[k]))
  BY DEF SlotsOf
<1>2. s = <<s[1], s[2]>> /\ s[1] = k /\ s[2] \in {0} \cup Receiving(sol[k])
  BY <1>1
<1>3. IsFlow(sol[k]) /\ k \in Nat
  BY DEF IsSolution
<1> QED BY <1>2, <1>3, SlotsApart

LEMMA SlotOf ==
  ASSUME NEW sol, NEW k \in DOMAIN sol, NEW i \in {0} \cup Receiving(sol[k])
  PROVE  <<k, i>> \in SlotsOf(sol)
BY DEF SlotsOf

LEMMA ExecutableSlot ==
  ASSUME NEW sol, IsSolution(sol)
  PROVE  ExecutableSlots(sol)
           = {s \in SlotsOf(sol) : s[2] \in executable_components(sol[s[1]])}
<1>1. ASSUME NEW s \in ExecutableSlots(sol)
      PROVE  s \in SlotsOf(sol) /\ s[2] \in executable_components(sol[s[1]])
  <2>1. PICK k \in DOMAIN sol : s \in {k} \X DOMAIN sol[k].components
    BY DEF ExecutableSlots
  <2>2. s = <<k, s[2]>> /\ s[1] = k /\ s[2] \in executable_components(sol[k])
    BY <2>1 DEF ExecutableSlots
  <2> QED BY <2>2, SlotOf DEF Receiving
<1>2. ASSUME NEW s \in SlotsOf(sol), s[2] \in executable_components(sol[s[1]])
      PROVE  s \in ExecutableSlots(sol)
  <2>1. s = <<s[1], s[2]>> /\ s[1] \in DOMAIN sol /\ s[2] \in DOMAIN sol[s[1]].components
    BY <1>2, ASlot, SlotsApart
  <2>2. s \in UNION {{k} \X DOMAIN sol[k].components : k \in DOMAIN sol}
    BY <2>1
  <2> QED BY <1>2, <2>2 DEF ExecutableSlots
<1> QED BY <1>1, <1>2

\* The plan of a worker has the slots placed on it, and every slot is in a plan.
LEMMA Placement ==
  ASSUME NEW sol, IsSolution(sol)
  PROVE  /\ \A w : executable_slots(sol, w) \cup ingress_slots(sol, w) \cup sink_slots(sol, w)
                     = {s \in SlotsOf(sol) : worker_at(sol, s) = w}
         /\ \A s \in SlotsOf(sol) : worker_at(sol, s) \in involved_workers(sol)
<1>0. \A k \in DOMAIN sol : IsFlow(sol[k])
  BY DEF IsSolution
<1>1. ASSUME NEW s \in SlotsOf(sol)
      PROVE  \/ s[2] = 0
             \/ s[2] = SinkIndex(sol[s[1]])
             \/ s[2] \in executable_components(sol[s[1]])
  BY ASlot DEF Receiving
<1>2. ASSUME NEW w,
             NEW s \in executable_slots(sol, w) \cup ingress_slots(sol, w) \cup sink_slots(sol, w)
      PROVE  s \in SlotsOf(sol) /\ worker_at(sol, s) = w
  <2>1. CASE s \in executable_slots(sol, w)
    <3>1. /\ s \in SlotsOf(sol) /\ s[2] \in executable_components(sol[s[1]])
          /\ sol[s[1]].components[s[2]].worker = w
      BY <2>1, ExecutableSlot DEF executable_slots
    <3>2. IsFlow(sol[s[1]])
      BY <3>1, ASlot
    <3>3. s[2] # 0 /\ s[2] # SinkIndex(sol[s[1]])
      BY <3>1, <3>2, SlotsApart DEF Receiving, Sending
    <3> QED BY <3>1, <3>3 DEF worker_at
  <2>2. CASE s \in ingress_slots(sol, w)
    <3>1. PICK k \in DOMAIN sol : s = <<k, 0>> /\ sol[k].ingress = w
      BY <2>2 DEF ingress_slots
    <3> QED BY <3>1, SlotOf DEF worker_at
  <2>3. CASE s \in sink_slots(sol, w)
    <3>1. PICK k \in DOMAIN sol : s = <<k, SinkIndex(sol[k])>> /\ sol[k].sink = w
      BY <2>3 DEF sink_slots
    <3>2. SinkIndex(sol[k]) \in Receiving(sol[k]) /\ SinkIndex(sol[k]) # 0
      BY <1>0, SlotsApart DEF Receiving
    <3> QED BY <3>1, <3>2, SlotOf DEF worker_at
  <2> QED BY <1>2, <2>1, <2>2, <2>3
<1>3. ASSUME NEW s \in SlotsOf(sol)
      PROVE  /\ s \in executable_slots(sol, worker_at(sol, s))
                        \cup ingress_slots(sol, worker_at(sol, s))
                        \cup sink_slots(sol, worker_at(sol, s))
             /\ worker_at(sol, s) \in involved_workers(sol)
  <2>1. s = <<s[1], s[2]>> /\ s[1] \in DOMAIN sol /\ IsFlow(sol[s[1]])
    BY ASlot
  <2>2. CASE s[2] = 0
    <3>1. worker_at(sol, s) = sol[s[1]].ingress
      BY <2>2 DEF worker_at
    <3> QED BY <2>1, <2>2, <3>1 DEF ingress_slots, involved_workers
  <2>3. CASE s[2] = SinkIndex(sol[s[1]])
    <3>1. worker_at(sol, s) = sol[s[1]].sink
      BY <2>1, <2>3, SlotsApart DEF worker_at, Receiving
    <3> QED BY <2>1, <2>3, <3>1 DEF sink_slots, involved_workers
  <2>4. CASE s[2] \in executable_components(sol[s[1]])
    <3>1. worker_at(sol, s) = sol[s[1]].components[s[2]].worker
      BY <2>1, <2>4, SlotsApart DEF worker_at, Receiving, Sending
    <3>2. s \in ExecutableSlots(sol)
      BY <2>4, ExecutableSlot
    <3> QED BY <3>1, <3>2 DEF executable_slots, involved_workers
  <2> QED BY <1>1, <2>2, <2>3, <2>4
<1> QED BY <1>2, <1>3

-----------------------------------------------------------------------------
(* No two slots of a solution have one hop.                                *)

LEMMA SlotsFinite ==
  ASSUME NEW sol, IsSolution(sol)
  PROVE  IsFiniteSet(SlotsOf(sol)) /\ IsFiniteSet(ExecutableSlots(sol))
<1> PICK m \in Nat : DOMAIN sol = 1 .. m
  BY DEF IsSolution
<1> DEFINE part(k) == {k} \X ({0} \cup Receiving(sol[k]))
           Parts == {part(k) : k \in 1 .. m}
<1>1. \A k \in 1 .. m : IsFiniteSet(part(k))
  <2> SUFFICES ASSUME NEW k \in 1 .. m PROVE IsFiniteSet(part(k))
    OBVIOUS
  <2> PICK n \in Nat : n = Len(sol[k].components)
    BY DEF IsSolution, IsFlow
  <2>1. IsFlow(sol[k]) /\ SinkIndex(sol[k]) = n + 1
    BY DEF IsSolution, SinkIndex
  <2>2. {0} \cup Receiving(sol[k]) \subseteq 0 .. n + 1
    BY <2>1, ExecutedEnds DEF Receiving
  <2>3. IsFiniteSet({0} \cup Receiving(sol[k]))
    <3>1. 0 \in Int /\ n + 1 \in Int
      OBVIOUS
    <3>2. IsFiniteSet(0 .. n + 1)
      BY <3>1, FS_Interval
    <3> QED BY <2>2, <3>2, FS_Subset
  <2> QED BY <2>3, FS_Singleton, FS_Product
<1>2. IsFiniteSet(Parts)
  <2> DEFINE f == [k \in 1 .. m |-> part(k)]
  <2> HIDE DEF part
  <2>1. f \in Surjection(1 .. m, Parts)
    BY DEF Surjection
  <2>2. IsFiniteSet(1 .. m)
    BY FS_Interval
  <2> HIDE DEF f, Parts
  <2> QED BY <2>1, <2>2, FS_Surjection
<1>3. IsFiniteSet(UNION Parts)
  <2>1. \A T \in Parts : IsFiniteSet(T)
    <3> HIDE DEF part
    <3> QED BY <1>1
  <2> HIDE DEF Parts
  <2> QED BY <1>2, <2>1, FS_UNION
<1>4. SlotsOf(sol) = UNION Parts
  BY DEF SlotsOf
<1>5. ExecutableSlots(sol) \subseteq SlotsOf(sol)
  BY ExecutableSlot
<1> HIDE DEF Parts
<1> QED BY <1>3, <1>4, <1>5, FS_Subset

\* Replicas of one partition are counted in the order of their slots.
LEMMA ReplicasDiffer ==
  ASSUME NEW sol, IsSolution(sol),
         NEW s \in ExecutableSlots(sol), NEW t \in ExecutableSlots(sol), Before(s, t),
         partition_id(sol[s[1]], s[2]) = partition_id(sol[t[1]], t[2])
  PROVE  replica_index(sol, s) # replica_index(sol, t)
<1> DEFINE earlier(u) == {v \in ExecutableSlots(sol) :
             /\ Before(v, u)
             /\ partition_id(sol[v[1]], v[2]) = partition_id(sol[u[1]], u[2])}
<1>1. \A u \in ExecutableSlots(sol) : u[1] \in Nat /\ u[2] \in Nat
  BY ExecutableSlot, ASlot
<1>2. earlier(s) \subseteq earlier(t)
  <2> SUFFICES ASSUME NEW v \in earlier(s) PROVE Before(v, t)
    OBVIOUS
  <2>1. v[1] \in Nat /\ v[2] \in Nat /\ s[1] \in Nat /\ s[2] \in Nat /\ t[1] \in Nat /\ t[2] \in Nat
    BY <1>1
  <2>2. Before(v, s)
    OBVIOUS
  <2> QED BY <2>1, <2>2 DEF Before
<1>3. s \in earlier(t) /\ s \notin earlier(s)
  <2>1. ~ Before(s, s)
    BY <1>1 DEF Before
  <2> QED BY <2>1
<1>4. IsFiniteSet(earlier(t))
  BY SlotsFinite, FS_Subset
<1>5. replica_index(sol, s) = Cardinality(earlier(s))
      /\ replica_index(sol, t) = Cardinality(earlier(t))
  BY DEF replica_index
<1> HIDE DEF earlier
<1>6. earlier(s) \in SUBSET earlier(t) /\ earlier(s) # earlier(t)
  BY <1>2, <1>3
<1> QED BY <1>4, <1>5, <1>6, FS_Subset

\* So are the endpoints of one variant, in the order of the flows.
LEMMA EndpointsDiffer ==
  ASSUME NEW sol, NEW j \in Nat, NEW k \in Nat \ {0}, j \in Nat \ {0}, j < k,
         sol[j].variant = sol[k].variant
  PROVE  endpoint_index(sol, j) # endpoint_index(sol, k)
<1> DEFINE earlier(i) == {h \in 1 .. i - 1 : sol[h].variant = sol[i].variant}
<1>1. earlier(j) \subseteq earlier(k) /\ j \in earlier(k) /\ j \notin earlier(j)
  OBVIOUS
<1>2. IsFiniteSet(1 .. k - 1)
  BY FS_Interval
<1>3. IsFiniteSet(earlier(k))
  BY <1>2, FS_Subset
<1>4. endpoint_index(sol, j) = Cardinality(earlier(j))
      /\ endpoint_index(sol, k) = Cardinality(earlier(k))
  BY DEF endpoint_index
<1> HIDE DEF earlier
<1>5. earlier(j) \in SUBSET earlier(k) /\ earlier(j) # earlier(k)
  BY <1>1
<1> QED BY <1>3, <1>4, <1>5, FS_Subset

LEMMA HopKinds ==
  ASSUME NEW sol, IsSolution(sol), NEW s \in SlotsOf(sol)
  PROVE  /\ s[2] = 0 => hop_at(sol, s) = ingress_id(sol, s[1])
         /\ s[2] = SinkIndex(sol[s[1]]) => hop_at(sol, s) = sink_id(sol, s[1])
         /\ s[2] \in executable_components(sol[s[1]]) => hop_at(sol, s) = replica_id(sol, s)
         /\ \/ s[2] = 0 \/ s[2] = SinkIndex(sol[s[1]])
            \/ s[2] \in executable_components(sol[s[1]])
<1>1. IsFlow(sol[s[1]]) /\ s[2] \in {0} \cup Receiving(sol[s[1]])
  BY ASlot
<1>2. /\ 0 \notin Receiving(sol[s[1]]) /\ SinkIndex(sol[s[1]]) \notin Sending(sol[s[1]])
  BY <1>1, SlotsApart
<1> QED BY <1>1, <1>2 DEF hop_at, Receiving, Sending

\* Of a solution a hop is deployed once in the whole system.
LEMMA HopsDiffer ==
  ASSUME NEW sol, IsSolution(sol), NEW s \in SlotsOf(sol), NEW t \in SlotsOf(sol),
         hop_at(sol, s) = hop_at(sol, t)
  PROVE  s = t
<1>1. /\ s = <<s[1], s[2]>> /\ s[1] \in Nat \ {0} /\ s[2] \in Nat
      /\ t = <<t[1], t[2]>> /\ t[1] \in Nat \ {0} /\ t[2] \in Nat
  BY ASlot DEF IsSolution
<1>2. ASSUME NEW kind, endpoint_id(sol, s[1], kind) = endpoint_id(sol, t[1], kind)
      PROVE  s[1] = t[1]
  <2>1. /\ sol[s[1]].variant = sol[t[1]].variant
        /\ endpoint_index(sol, s[1]) = endpoint_index(sol, t[1])
    BY <1>2 DEF endpoint_id
  <2>2. ~ s[1] < t[1] /\ ~ t[1] < s[1]
    BY <1>1, <2>1, EndpointsDiffer
  <2> QED BY <1>1, <2>2
<1>3. \A k : /\ ingress_id(sol, k).kind = "ingress" /\ sink_id(sol, k).kind = "sink"
  BY DEF ingress_id, sink_id, endpoint_id
<1>4. \A u : replica_id(sol, u).kind = "partition"
  BY DEF replica_id
<1>5. CASE s[2] = 0
  <2>1. t[2] = 0 /\ ingress_id(sol, s[1]) = ingress_id(sol, t[1])
    BY <1>3, <1>4, <1>5, HopKinds
  <2> QED BY <1>1, <1>2, <1>5, <2>1 DEF ingress_id
<1>6. CASE s[2] = SinkIndex(sol[s[1]])
  <2>1. t[2] = SinkIndex(sol[t[1]]) /\ sink_id(sol, s[1]) = sink_id(sol, t[1])
    BY <1>3, <1>4, <1>6, HopKinds
  <2> QED BY <1>1, <1>2, <1>6, <2>1 DEF sink_id
<1>7. CASE s[2] \in executable_components(sol[s[1]])
  <2>1. t[2] \in executable_components(sol[t[1]]) /\ replica_id(sol, s) = replica_id(sol, t)
    BY <1>3, <1>4, <1>7, HopKinds
  <2>2. /\ partition_id(sol[s[1]], s[2]) = partition_id(sol[t[1]], t[2])
        /\ replica_index(sol, s) = replica_index(sol, t)
    BY <2>1 DEF replica_id
  <2>3. s \in ExecutableSlots(sol) /\ t \in ExecutableSlots(sol)
    BY <1>7, <2>1, ExecutableSlot
  <2>4. ~ Before(s, t) /\ ~ Before(t, s)
    BY <2>2, <2>3, ReplicasDiffer
  <2>5. s[1] = t[1] /\ s[2] = t[2]
    BY <1>1, <2>4 DEF Before
  <2> QED BY <1>1, <2>5
<1> QED BY <1>5, <1>6, <1>7, HopKinds
-----------------------------------------------------------------------------
(* What the plans say of a slot.                                           *)

LEMMA PlanEntries ==
  ASSUME NEW sol, IsSolution(sol), NEW w \in DOMAIN worker_plans(sol)
  PROVE  /\ DOMAIN worker_plans(sol)[w].hop_addresses
              = {s \in SlotsOf(sol) : worker_at(sol, s) = w}
         /\ \A s \in SlotsOf(sol) : worker_at(sol, s) = w =>
              /\ worker_plans(sol)[w].hop_addresses[s] = address(sol, s)
              /\ worker_plans(sol)[w].routings[s].input = input_routing(sol, s[1], s[2])
              /\ worker_plans(sol)[w].routings[s].output = output_routings(sol, s[1], s[2])
<1> DEFINE slots == executable_slots(sol, w) \cup ingress_slots(sol, w) \cup sink_slots(sol, w)
<1>1. worker_plans(sol)[w] = worker_plan(sol, w)
  BY DEF worker_plans
<1>2. slots = {s \in SlotsOf(sol) : worker_at(sol, s) = w}
  BY Placement
<1>3. /\ worker_plan(sol, w).hop_addresses = [s \in slots |-> address(sol, s)]
      /\ worker_plan(sol, w).routings = [s \in slots |->
           [input |-> input_routing(sol, s[1], s[2]),
            output |-> output_routings(sol, s[1], s[2])]]
  BY DEF worker_plan
<1> HIDE DEF slots
<1> QED BY <1>1, <1>2, <1>3

\* Both ends of a route name each other and the same tensors.
LEMMA RouteEnds ==
  ASSUME NEW sol, IsSolution(sol), NEW k \in DOMAIN sol, NEW i \in Sending(sol[k])
  PROVE  LET j == next(sol[k], i)
             x == tensors_from(sol[k], i)
         IN /\ output_routings(sol, k, i) = {[destination |-> address(sol, <<k, j>>), tensors |-> x]}
            /\ input_routing(sol, k, j) = [source |-> address(sol, <<k, i>>), tensors |-> x]
<1> PICK j : j = next(sol[k], i)
  OBVIOUS
<1>1. IsFlow(sol[k])
  BY DEF IsSolution
<1>2. j \in Receiving(sol[k]) /\ before(sol[k], j) = i
  BY <1>1, Chain
<1>3. i # SinkIndex(sol[k]) /\ j # 0
  BY <1>1, <1>2, SlotsApart
<1>4. output_routings(sol, k, i)
        = {[destination |-> address(sol, <<k, j>>), tensors |-> tensors_from(sol[k], i)]}
  BY <1>3 DEF output_routings
<1>5. input_routing(sol, k, j)
        = [source |-> address(sol, <<k, i>>), tensors |-> tensors_from(sol[k], i)]
  BY <1>2, <1>3 DEF input_routing, before
<1> QED BY <1>4, <1>5

\* The plans of a version are those of a solution, whose slots they place and that
\* gives a partition one scheme per worker.
PlansInv ==
  plans # <<>> =>
    IsSolution(Solved) /\ plans = worker_plans(Solved) /\ consistent_schemes(Solved)

LEMMA PlacedSlots ==
  ASSUME PlansInv
  PROVE  /\ \A p \in Placed :
              /\ plans # <<>> /\ p[2] \in SlotsOf(Solved)
              /\ p = <<worker_at(Solved, p[2]), p[2]>>
         /\ plans # <<>> => \A s \in SlotsOf(Solved) : <<worker_at(Solved, s), s>> \in Placed
         /\ \A p \in Placed :
              /\ AddressOf(p) = address(Solved, p[2])
              /\ HopOf(p) = hop_at(Solved, p[2])
              /\ RoutingsOf(p).input = input_routing(Solved, p[2][1], p[2][2])
              /\ RoutingsOf(p).output = output_routings(Solved, p[2][1], p[2][2])
<1>1. CASE plans = <<>>
  <2>1. Placed = {}
    BY <1>1 DEF Placed
  <2> QED BY <1>1, <2>1
<1>2. CASE plans # <<>>
  <2> PICK sol : sol = Solved
    OBVIOUS
  <2>1. IsSolution(sol) /\ plans = worker_plans(sol)
    BY <1>2 DEF PlansInv
  <2>2. \A w \in DOMAIN plans : Slots(w) = {s \in SlotsOf(sol) : worker_at(sol, s) = w}
    BY <2>1, PlanEntries DEF Slots
  <2>3. ASSUME NEW p \in Placed
        PROVE  /\ p[1] \in DOMAIN plans /\ p[2] \in SlotsOf(sol)
               /\ p = <<worker_at(sol, p[2]), p[2]>>
    BY <2>2, <2>3 DEF Placed
  <2>4. ASSUME NEW s \in SlotsOf(sol) PROVE <<worker_at(sol, s), s>> \in Placed
    <3>1. worker_at(sol, s) \in DOMAIN plans
      BY <2>1, Placement DEF worker_plans
    <3> QED BY <2>2, <3>1 DEF Placed
  <2>5. ASSUME NEW p \in Placed
        PROVE  /\ plans[p[1]].hop_addresses[p[2]] = address(sol, p[2])
               /\ plans[p[1]].routings[p[2]].input = input_routing(sol, p[2][1], p[2][2])
               /\ plans[p[1]].routings[p[2]].output = output_routings(sol, p[2][1], p[2][2])
    <3>1. /\ p[1] \in DOMAIN worker_plans(sol) /\ p[2] \in SlotsOf(sol)
          /\ worker_at(sol, p[2]) = p[1]
      BY <2>1, <2>3
    <3> QED BY <2>1, <3>1, PlanEntries
  <2>6. \A s : address(sol, s).hop = hop_at(sol, s)
    BY DEF address
  <2> QED BY <1>2, <2>3, <2>4, <2>5, <2>6 DEF AddressOf, HopOf, RoutingsOf
<1> QED BY <1>1, <1>2

LEMMA HopsOfPlansDiffer ==
  ASSUME PlansInv, NEW p \in Placed, NEW q \in Placed, HopOf(p) = HopOf(q)
  PROVE  p = q
<1> PICK sol : sol = Solved
  OBVIOUS
<1>1. /\ IsSolution(sol) /\ p[2] \in SlotsOf(sol) /\ q[2] \in SlotsOf(sol)
      /\ p = <<worker_at(sol, p[2]), p[2]>> /\ q = <<worker_at(sol, q[2]), q[2]>>
      /\ hop_at(sol, p[2]) = hop_at(sol, q[2])
  BY PlacedSlots DEF PlansInv
<1>2. p[2] = q[2]
  BY <1>1, HopsDiffer
<1> QED BY <1>1, <1>2

LEMMA RoutesOfPlansMeet ==
  ASSUME PlansInv
  PROVE  RoutesMeet
<1> PICK sol : sol = Solved
  OBVIOUS
<1>1. ASSUME NEW p \in Placed, NEW out \in RoutingsOf(p).output
      PROVE  \E q \in Placed :
               /\ AddressOf(q) = out.destination
               /\ RoutingsOf(q).input = [source |-> AddressOf(p), tensors |-> out.tensors]
  <2> PICK s : s = p[2]
    OBVIOUS
  <2>1. /\ IsSolution(sol) /\ s \in SlotsOf(sol)
        /\ AddressOf(p) = address(sol, s) /\ out \in output_routings(sol, s[1], s[2])
    BY <1>1, PlacedSlots DEF PlansInv
  <2>2. /\ s = <<s[1], s[2]>> /\ s[1] \in DOMAIN sol /\ IsFlow(sol[s[1]])
        /\ s[2] \in {0} \cup Receiving(sol[s[1]])
    BY <2>1, ASlot
  <2> PICK k, i : k = s[1] /\ i = s[2]
    OBVIOUS
  <2>3. i # SinkIndex(sol[k])
    BY <2>1 DEF output_routings
  <2>4. i \in Sending(sol[k])
    BY <2>2, <2>3 DEF Sending, Receiving
  <2> PICK j : j = next(sol[k], i)
    OBVIOUS
  <2>5. /\ out = [destination |-> address(sol, <<k, j>>), tensors |-> tensors_from(sol[k], i)]
        /\ input_routing(sol, k, j) = [source |-> address(sol, s), tensors |-> tensors_from(sol[k], i)]
    BY <2>1, <2>2, <2>4, RouteEnds
  <2>6. <<k, j>> \in SlotsOf(sol)
    BY <2>2, <2>4, Chain, SlotOf
  <2> PICK q : q = <<worker_at(sol, <<k, j>>), <<k, j>>>>
    OBVIOUS
  <2>7. /\ q \in Placed /\ AddressOf(q) = address(sol, <<k, j>>)
        /\ RoutingsOf(q).input = input_routing(sol, k, j)
    BY <1>1, <2>6, PlacedSlots
  <2> QED BY <2>1, <2>5, <2>7
<1>2. ASSUME NEW q \in Placed, RoutingsOf(q).input.source.hop # ExternalHop
      PROVE  \E p \in Placed :
               /\ AddressOf(p) = RoutingsOf(q).input.source
               /\ \E out \in RoutingsOf(p).output : out.destination = AddressOf(q)
  <2> PICK s : s = q[2]
    OBVIOUS
  <2>1. /\ IsSolution(sol) /\ s \in SlotsOf(sol)
        /\ AddressOf(q) = address(sol, s) /\ RoutingsOf(q).input = input_routing(sol, s[1], s[2])
    BY PlacedSlots DEF PlansInv
  <2>2. /\ s = <<s[1], s[2]>> /\ s[1] \in DOMAIN sol /\ IsFlow(sol[s[1]])
        /\ s[2] \in {0} \cup Receiving(sol[s[1]])
    BY <2>1, ASlot
  <2> PICK k, j : k = s[1] /\ j = s[2]
    OBVIOUS
  <2>3. j # 0
    BY <1>2, <2>1 DEF input_routing
  <2> PICK i : i = before(sol[k], j)
    OBVIOUS
  <2>4. i \in Sending(sol[k]) /\ next(sol[k], i) = j
    BY <2>2, <2>3, Chain
  <2>5. /\ output_routings(sol, k, i)
             = {[destination |-> address(sol, s), tensors |-> tensors_from(sol[k], i)]}
        /\ input_routing(sol, k, j).source = address(sol, <<k, i>>)
    BY <2>1, <2>2, <2>4, RouteEnds
  <2>6. <<k, i>> \in SlotsOf(sol)
    BY <2>2, <2>4, SlotOf DEF Sending, Receiving
  <2> PICK p : p = <<worker_at(sol, <<k, i>>), <<k, i>>>>
    OBVIOUS
  <2>7. /\ p \in Placed /\ AddressOf(p) = address(sol, <<k, i>>)
        /\ RoutingsOf(p).output = output_routings(sol, k, i)
    BY <2>6, PlacedSlots
  <2> PICK out : out = [destination |-> address(sol, s), tensors |-> tensors_from(sol[k], i)]
    OBVIOUS
  <2>8. out \in RoutingsOf(p).output /\ out.destination = AddressOf(q)
    BY <2>1, <2>5, <2>7
  <2>9. AddressOf(p) = RoutingsOf(q).input.source
    BY <2>1, <2>5, <2>7
  <2> QED BY <2>7, <2>8, <2>9
<1> QED BY <1>1, <1>2, Zenon DEF RoutesMeet
-----------------------------------------------------------------------------
(* What the optimizer's answers are turned into.                           *)

LEMMA LenOf ==
  ASSUME NEW n \in Nat, NEW f, DOMAIN f = 1 .. n, f = [i \in 1 .. n |-> f[i]]
  PROVE  Len(f) = n
<1> PICK S : S = {f[i] : i \in 1 .. n}
  OBVIOUS
<1>1. f \in [1 .. n -> S]
  OBVIOUS
<1>2. f \in Seq(S)
  BY <1>1
<1> QED BY <1>2

\* An assignment is one of the record's shape that cuts its model well.
LEMMA CutFacts ==
  ASSUME NEW a \in WellCut
  PROVE  /\ a.variant \in DOMAIN Models
         /\ components(a) = {a.component_of[l] : l \in DOMAIN a.component_of}
         /\ components(a) \subseteq 1 .. MaxComponents
         /\ \A k \in components(a) : a.worker_of[k] \in Workers
         /\ DOMAIN a.component_of = Models[a.variant].topology.layers
         /\ well_cut(Models[a.variant].topology, a)
<1> DEFINE shaped(t, v, c) ==
      {b \in {[variant |-> v, component_of |-> c, worker_of |-> w] :
                w \in [{c[l] : l \in t.layers} -> Workers]} : well_cut(t, b)}
<1>1. WellCut = UNION {UNION {shaped(Models[v].topology, v, c) :
                                c \in [Models[v].topology.layers -> 1 .. MaxComponents]} :
                         v \in DOMAIN Models}
  BY DEF WellCut, Assignments
<1>2. PICK v \in DOMAIN Models :
        \E c \in [Models[v].topology.layers -> 1 .. MaxComponents] :
          a \in shaped(Models[v].topology, v, c)
  <2> HIDE DEF shaped
  <2> QED BY <1>1
<1> PICK t : t = Models[v].topology
  OBVIOUS
<1> PICK c \in [t.layers -> 1 .. MaxComponents] : a \in shaped(t, v, c)
  BY <1>2
<1>3. PICK w \in [{c[l] : l \in t.layers} -> Workers] :
        a = [variant |-> v, component_of |-> c, worker_of |-> w]
  OBVIOUS
<1>4. well_cut(t, a)
  OBVIOUS
<1>5. a.variant = v /\ a.component_of = c /\ a.worker_of = w
  BY <1>3
<1> HIDE DEF shaped
<1>6. c \in [t.layers -> 1 .. MaxComponents]
  OBVIOUS
<1>7. components(a) = {c[l] : l \in t.layers} /\ DOMAIN c = t.layers
  BY <1>3, <1>5, <1>6 DEF components
<1>8. {c[l] : l \in t.layers} \subseteq 1 .. MaxComponents
  BY <1>6
<1>9. \A k \in components(a) : a.worker_of[k] \in Workers
  BY <1>5, <1>7
<1> QED BY <1>4, <1>5, <1>7, <1>8, <1>9

\* The active components are numbered without gaps.
LEMMA LastOfCut ==
  ASSUME NEW a \in WellCut, components(a) # {}
  PROVE  component_last(a) \in Nat \ {0} /\ components(a) = 1 .. component_last(a)
<1> PICK C : C = components(a)
  OBVIOUS
<1>1. C \subseteq 1 .. MaxComponents /\ MaxComponents \in Nat /\ C # {}
  BY CutFacts, MaxComponentsAssumption
<1>2. C = 1 .. Cardinality(C)
  BY CutFacts DEF well_cut, component_sequence_is_prefix
<1>3. Cardinality(C) \in Nat
  <2>1. IsFiniteSet(1 .. MaxComponents)
    BY <1>1, FS_Interval
  <2>2. IsFiniteSet(C)
    BY <1>1, <2>1, FS_Subset
  <2> QED BY <2>2, FS_CardinalityType
<1>4. Max(C) \in C /\ \A k \in C : k <= Max(C)
  <2>1. C \subseteq Nat /\ \A k \in C : k <= MaxComponents
    BY <1>1
  <2> QED BY <1>1, <2>1, MaxIsGreatest
<1> PICK n \in Nat : n = Cardinality(C)
  BY <1>3
<1> PICK m : m = Max(C)
  OBVIOUS
<1>5. C = 1 .. n /\ m \in 1 .. n /\ n >= 1
  BY <1>1, <1>2, <1>4
<1>6. n <= m
  <2>1. n \in 1 .. n
    BY <1>5
  <2>2. n \in C
    BY <1>5, <2>1
  <2> QED BY <1>4, <2>2
<1>7. m = n
  BY <1>5, <1>6
<1> QED BY <1>5, <1>7 DEF component_last

\* A component between the first and the last has a layer that is executed.
LEMMA MiddleExecutes ==
  ASSUME NEW a \in WellCut, NEW k \in components(a), k # 1, k # component_last(a)
  PROVE  layers_of(a, k) \ boundary(Models[a.variant].topology) # {}
<1> PICK t : t = Models[a.variant].topology
  OBVIOUS
<1>1. PICK l \in DOMAIN a.component_of : a.component_of[l] = k
  BY CutFacts
<1>2. l \notin t.inputs /\ l \notin t.outputs
  BY <1>1, CutFacts DEF well_cut, input_layers_on_first_component, output_layers_on_last_component
<1> QED BY <1>1, <1>2 DEF layers_of, boundary

\* The flow solution of an answer, whatever number, backends and priorities it gets.
IsSolutionOf(fs, a) ==
  /\ "components" \in DOMAIN fs
  /\ DOMAIN fs.components = 1 .. component_last(a)
  /\ fs.components = [k \in 1 .. component_last(a) |-> fs.components[k]]
  /\ \A k \in 1 .. component_last(a) :
       /\ fs.components[k].worker = a.worker_of[k]
       /\ fs.components[k].layers = layers_of(a, k) \ boundary(Models[a.variant].topology)
  /\ fs.ingress = a.worker_of[1] /\ fs.sink = a.worker_of[component_last(a)]

LEMMA FlowOfAnswer ==
  ASSUME NEW a \in WellCut, NEW fs, IsSolutionOf(fs, a), executable_components(fs) # {}
  PROVE  /\ IsFlow(fs) /\ Len(fs.components) = component_last(a)
         /\ components(a) = 1 .. component_last(a)
         /\ \A k \in 1 .. component_last(a) :
              k \in {1, component_last(a)} \cup executable_components(fs)
<1> PICK t : t = Models[a.variant].topology
  OBVIOUS
<1> PICK last : last = component_last(a)
  OBVIOUS
<1>1. components(a) # {}
  <2>1. PICK k \in 1 .. last : layers_of(a, k) \ boundary(t) # {}
    BY DEF IsSolutionOf, executable_components
  <2>2. PICK l \in DOMAIN a.component_of : TRUE
    BY <2>1 DEF layers_of
  <2> QED BY <2>2, CutFacts
<1>2. last \in Nat \ {0} /\ components(a) = 1 .. last
  BY <1>1, LastOfCut
<1>3. Len(fs.components) = last
  BY <1>2, LenOf DEF IsSolutionOf
<1>4. ASSUME NEW k \in 1 .. last, k # 1, k # last PROVE k \in executable_components(fs)
  <2>1. layers_of(a, k) \ boundary(t) # {}
    BY <1>2, <1>4, MiddleExecutes
  <2> QED BY <2>1 DEF executable_components, IsSolutionOf
<1> QED BY <1>2, <1>3, <1>4 DEF IsFlow, IsSolutionOf

LEMMA ExtractedFlow ==
  ASSUME NEW a \in WellCut, NEW n
  PROVE  IsSolutionOf([Extracted[a] EXCEPT !.flow = n], a)
<1> PICK t : t = Models[a.variant].topology
  OBVIOUS
<1> PICK last : last = component_last(a)
  OBVIOUS
<1> PICK fs : fs = [Extracted[a] EXCEPT !.flow = n]
  OBVIOUS
<1>1. Extracted[a] = extract_flow(Models, 1, a)
  BY DEF Extracted
<1>2. /\ "components" \in DOMAIN fs
      /\ fs.components = [k \in 1 .. last |-> extract_component(t, a, k)]
      /\ fs.ingress = a.worker_of[1] /\ fs.sink = a.worker_of[last]
  BY <1>1 DEF extract_flow
<1>3. \A k \in 1 .. last :
        /\ extract_component(t, a, k).worker = a.worker_of[k]
        /\ extract_component(t, a, k).layers = layers_of(a, k) \ boundary(t)
  BY DEF extract_component
<1>4. /\ DOMAIN fs.components = 1 .. last
      /\ \A k \in 1 .. last : fs.components[k] = extract_component(t, a, k)
  BY <1>2
<1>5. fs.components = [k \in 1 .. last |-> fs.components[k]]
  BY <1>2
<1>6. \A k \in 1 .. last :
        /\ fs.components[k].worker = a.worker_of[k]
        /\ fs.components[k].layers = layers_of(a, k) \ boundary(t)
  BY <1>3, <1>4
<1> QED BY <1>2, <1>4, <1>5, <1>6 DEF IsSolutionOf
-----------------------------------------------------------------------------
(* Reachability, which its definition counts in rounds: no layer is in an  *)
(* earlier component than one it is reached from.                          *)

AreRounds(f, edges, from, rounds) ==
  f = [n \in 0 .. rounds |->
         IF n = 0 THEN {from}
         ELSE f[n - 1] \cup {e.target : e \in {d \in edges : d.source \in f[n - 1]}}]

\* The rounds are defined, however many there are.
LEMMA RoundsExist ==
  ASSUME NEW edges, NEW from, NEW rounds \in Nat
  PROVE  \E f : AreRounds(f, edges, from, rounds)
<1> DEFINE step(X) == X \cup {e.target : e \in {d \in edges : d.source \in X}}
           are_rounds(n, f) == f = [m \in 0 .. n |-> IF m = 0 THEN {from} ELSE step(f[m - 1])]
           Undefined == {n \in Nat : ~ \E f : are_rounds(n, f)}
<1>1. Undefined = {}
  <2>1. SUFFICES ASSUME Undefined # {} PROVE FALSE
    OBVIOUS
  <2>2. PICK b \in Undefined : \A n \in Undefined : b <= n
    BY <2>1, LeastNatural
  <2> HIDE DEF step
  <2>3. b \in Nat /\ b # 0
    <3>1. are_rounds(0, [m \in 0 .. 0 |-> {from}])
      OBVIOUS
    <3>2. 0 \notin Undefined
      BY <3>1
    <3> QED BY <2>2, <3>2
  <2>4. b - 1 \notin Undefined /\ b - 1 \in Nat
    <3> HIDE DEF Undefined
    <3> QED BY <2>2, <2>3
  <2>5. PICK f : are_rounds(b - 1, f)
    BY <2>4
  <2> PICK g : g = [m \in 0 .. b |-> IF m = b THEN step(f[b - 1]) ELSE f[m]]
    OBVIOUS
  <2>6. ASSUME NEW m \in 0 .. b
        PROVE  g[m] = IF m = 0 THEN {from} ELSE step(g[m - 1])
    <3>1. CASE m = b
      <4>1. b - 1 \in 0 .. b /\ b - 1 # b
        BY <2>3
      <4>2. g[b - 1] = f[b - 1] /\ g[b] = step(f[b - 1])
        BY <3>1, <4>1
      <4> QED BY <2>3, <3>1, <4>2
    <3>2. CASE m # b /\ m # 0
      <4>1. m \in 0 .. b - 1 /\ m - 1 \in 0 .. b - 1 /\ m - 1 \in 0 .. b /\ m - 1 # b
        BY <2>3, <3>2
      <4>2. g[m] = f[m] /\ g[m - 1] = f[m - 1]
        BY <3>2, <4>1
      <4>3. f[m] = step(f[m - 1])
        BY <2>5, <3>2, <4>1
      <4> QED BY <3>2, <4>2, <4>3
    <3>3. CASE m = 0
      <4>1. g[0] = f[0] /\ f[0] = {from}
        BY <2>3, <2>5, <3>3
      <4> QED BY <3>3, <4>1
    <3> QED BY <3>1, <3>2, <3>3
  <2>7. DOMAIN g = 0 .. b /\ g = [m \in 0 .. b |-> g[m]]
    OBVIOUS
  <2>8. are_rounds(b, g)
    BY <2>6, <2>7
  <2> QED BY <2>2, <2>3, <2>8
<1>2. \E f : are_rounds(rounds, f)
  BY <1>1
<1> QED BY <1>2 DEF AreRounds

\* A way that starts within X and ends outside leaves it over an edge.
LEMMA WayOut ==
  ASSUME NEW t, NEW X, NEW from \in X, NEW to, to \notin X, IsFiniteSet(t.layers),
         is_reachable(t, from, to)
  PROVE  \E e \in t.edges : e.source \in X /\ e.target \notin X
<1> PICK rounds : rounds = Cardinality(t.layers)
  OBVIOUS
<1>0. rounds \in Nat
  BY FS_CardinalityType
<1>1. PICK f : AreRounds(f, t.edges, from, rounds) /\ to \in f[rounds]
  <2>1. \E f : AreRounds(f, t.edges, from, rounds)
    BY <1>0, RoundsExist
  <2> QED BY <2>1, Zenon DEF is_reachable, AreRounds
<1> DEFINE Outside == {n \in 0 .. rounds : ~ f[n] \subseteq X}
<1>2. PICK b \in Outside : \A n \in Outside : b <= n
  <2>1. Outside \subseteq Nat
    BY <1>0
  <2>2. rounds \in Outside
    BY <1>0, <1>1
  <2> HIDE DEF Outside
  <2> QED BY <2>1, <2>2, LeastNatural
<1>3. b # 0
  <2>1. f[0] = {from}
    BY <1>0, <1>1 DEF AreRounds
  <2> QED BY <2>1
<1>4. b \in 0 .. rounds /\ b - 1 \in 0 .. rounds /\ b - 1 \notin Outside
  <2>1. b \in 0 .. rounds
    OBVIOUS
  <2> HIDE DEF Outside
  <2> QED BY <1>0, <1>2, <1>3, <2>1
<1>5. f[b - 1] \subseteq X
  BY <1>4
<1>6. f[b] = f[b - 1] \cup {e.target : e \in {d \in t.edges : d.source \in f[b - 1]}}
  BY <1>1, <1>3, <1>4 DEF AreRounds
<1>7. PICK l \in f[b] : l \notin X
  OBVIOUS
<1>8. PICK e \in t.edges : e.source \in f[b - 1] /\ l = e.target
  BY <1>5, <1>6, <1>7
<1> QED BY <1>5, <1>7, <1>8

LEMMA ReachableIsLater ==
  ASSUME NEW t, NEW c, NEW from \in t.layers, NEW to, IsFiniteSet(t.layers),
         \A l \in t.layers : c[l] \in Nat,
         \A e \in t.edges : e.source \in t.layers /\ e.target \in t.layers
                            /\ c[e.source] <= c[e.target],
         is_reachable(t, from, to)
  PROVE  to \in t.layers /\ c[from] <= c[to]
<1> PICK Later : Later = {l \in t.layers : c[from] <= c[l]}
  OBVIOUS
<1>1. from \in Later
  OBVIOUS
<1>2. SUFFICES ASSUME to \notin Later PROVE FALSE
  OBVIOUS
<1>3. PICK e \in t.edges : e.source \in Later /\ e.target \notin Later
  BY <1>1, <1>2, WayOut
<1>4. /\ c[from] \in Nat /\ c[e.source] \in Nat /\ c[e.target] \in Nat /\ e.target \in t.layers
      /\ c[from] <= c[e.source] /\ c[e.source] <= c[e.target]
  BY <1>3
<1> QED BY <1>3, <1>4

-----------------------------------------------------------------------------
(* Closures, which definitions count in as many rounds as there are        *)
(* elements.                                                               *)

\* Sets that grow by a step, as often as is asked for.
Grow(f, N, S, first, step) ==
  /\ f \in [0 .. N -> SUBSET S]
  /\ f[0] = first
  /\ \A k \in 1 .. N : f[k] = f[k - 1] \cup step[f[k - 1]]

LEMMA GrowthExists ==
  ASSUME NEW S, NEW first \in SUBSET S, NEW step \in [SUBSET S -> SUBSET S], NEW N \in Nat
  PROVE  \E f : Grow(f, N, S, first, step)
<1> PICK P : P = {n \in 0 .. N : \E f : Grow(f, n, S, first, step)}
  OBVIOUS
<1>1. 0 \in P
  <2>1. Grow([m \in 0 .. 0 |-> first], 0, S, first, step)
    BY DEF Grow
  <2> QED BY <2>1
<1>2. ASSUME NEW n \in 0 .. N, n # N, n \in P PROVE n + 1 \in P
  <2>1. PICK f : Grow(f, n, S, first, step)
    BY <1>2
  <2> PICK last : last = f[n] \cup step[f[n]]
    OBVIOUS
  <2>2. f \in [0 .. n -> SUBSET S] /\ f[n] \in SUBSET S /\ last \in SUBSET S
    BY <2>1 DEF Grow
  <2> PICK g : g = [m \in 0 .. n + 1 |-> IF m = n + 1 THEN last ELSE f[m]]
    OBVIOUS
  <2>3. /\ \A m \in 0 .. n : g[m] = f[m]
        /\ g[n + 1] = last
    BY <2>2
  <2>4. g \in [0 .. n + 1 -> SUBSET S]
    BY <2>2
  <2>5. g[0] = first
    BY <2>1, <2>3 DEF Grow
  <2>6. ASSUME NEW m \in 1 .. n + 1 PROVE g[m] = g[m - 1] \cup step[g[m - 1]]
    <3>1. CASE m = n + 1
      <4>1. g[m] = last /\ g[m - 1] = f[n]
        BY <2>3, <3>1
      <4> QED BY <4>1
    <3>2. CASE m # n + 1
      <4>1. m \in 1 .. n /\ m \in 0 .. n /\ m - 1 \in 0 .. n
        BY <3>2
      <4>2. f[m] = f[m - 1] \cup step[f[m - 1]]
        BY <2>1, <4>1 DEF Grow
      <4> QED BY <2>3, <4>1, <4>2
    <3> QED BY <3>1, <3>2
  <2>7. Grow(g, n + 1, S, first, step)
    BY <2>4, <2>5, <2>6 DEF Grow
  <2> QED BY <1>2, <2>7
<1>3. N \in P
  <2>1. P \in SUBSET (0 .. N)
    OBVIOUS
  <2>2. \A n \in 0 .. N : n # N /\ n \in P => n + 1 \in P
    BY <1>2
  <2>3. \A n \in 0 .. N : n \in P
    BY <1>1, <2>1, <2>2, UpTo
  <2> QED BY <2>3
<1> QED BY <1>3

Grown(f, N, S, first, step) ==
  /\ IsFiniteSet(S) /\ N = Cardinality(S) /\ step \in [SUBSET S -> SUBSET S]
  /\ Grow(f, N, S, first, step)

\* After as many rounds as there are elements, nothing more is added.
LEMMA GrowthEnds ==
  ASSUME NEW S, NEW first, NEW step, NEW N, NEW f, Grown(f, N, S, first, step)
  PROVE  step[f[N]] \subseteq f[N] /\ first \subseteq f[N]
<1> USE DEF Grown
<1>0. N \in Nat
  BY FS_CardinalityType
<1>1. \A k \in 0 .. N : /\ f[k] \in SUBSET S /\ step[f[k]] \in SUBSET S
                        /\ IsFiniteSet(f[k]) /\ Cardinality(f[k]) \in Nat
  <2> SUFFICES ASSUME NEW k \in 0 .. N
               PROVE  /\ f[k] \in SUBSET S /\ step[f[k]] \in SUBSET S
                      /\ IsFiniteSet(f[k]) /\ Cardinality(f[k]) \in Nat
    OBVIOUS
  <2>1. f[k] \in SUBSET S
    BY DEF Grow
  <2>2. IsFiniteSet(f[k])
    BY <2>1, FS_Subset
  <2> QED BY <2>1, <2>2, FS_CardinalityType
<1> PICK P : P = {k \in 0 .. N : /\ first \subseteq f[k]
                                 /\ Cardinality(f[k]) >= k \/ step[f[k]] \subseteq f[k]}
  OBVIOUS
<1>2. 0 \in P
  <2>1. 0 \in 0 .. N
    BY <1>0
  <2> QED BY <1>1, <2>1 DEF Grow
<1>3. ASSUME NEW k \in 0 .. N, k # N, k \in P PROVE k + 1 \in P
  <2>1. k + 1 \in 0 .. N /\ k + 1 \in 1 .. N /\ k \in Nat
    BY <1>0, <1>3
  <2>2. f[k + 1] = f[k] \cup step[f[k]]
    BY <2>1 DEF Grow
  <2>3. CASE step[f[k]] \subseteq f[k]
    <3>1. f[k + 1] = f[k]
      BY <2>2, <2>3
    <3> QED BY <1>3, <2>1, <2>3, <3>1
  <2>4. CASE ~ step[f[k]] \subseteq f[k]
    <3>1. Cardinality(f[k]) >= k
      BY <1>3, <2>4
    <3>2. f[k] \in SUBSET f[k + 1] /\ f[k] # f[k + 1] /\ IsFiniteSet(f[k + 1])
      BY <1>1, <2>1, <2>2, <2>4
    <3>3. Cardinality(f[k]) <= Cardinality(f[k + 1]) /\ Cardinality(f[k + 1]) # Cardinality(f[k])
      BY <3>2, FS_Subset
    <3>4. Cardinality(f[k]) \in Nat /\ Cardinality(f[k + 1]) \in Nat
      BY <1>1, <2>1
    <3>5. Cardinality(f[k + 1]) >= k + 1
      BY <2>1, <3>1, <3>3, <3>4
    <3> QED BY <1>3, <2>1, <2>2, <3>5
  <2> QED BY <2>3, <2>4
<1>4. N \in P
  <2>1. P \in SUBSET (0 .. N)
    OBVIOUS
  <2>2. \A k \in 0 .. N : k # N /\ k \in P => k + 1 \in P
    BY <1>3
  <2>3. \A k \in 0 .. N : k \in P
    BY <1>0, <1>2, <2>1, <2>2, UpTo
  <2> QED BY <1>0, <2>3
<1>5. N \in 0 .. N
  BY <1>0
<1>6. CASE Cardinality(f[N]) >= N
  <2>1. f[N] \in SUBSET S /\ Cardinality(f[N]) \in Nat /\ step[f[N]] \in SUBSET S
    BY <1>1, <1>5
  <2>2. Cardinality(f[N]) <= Cardinality(S)
    BY <2>1, FS_Subset
  <2>3. Cardinality(f[N]) = Cardinality(S)
    BY <1>0, <1>6, <2>1, <2>2
  <2>4. f[N] = S
    BY <2>1, <2>3, FS_Subset
  <2> QED BY <1>4, <2>1, <2>4
<1> QED BY <1>4, <1>6

-----------------------------------------------------------------------------
(* The layers of a topology.                                               *)

\* Whatever an edge leads to from what is reached is reached.
LEMMA ReachedIsClosed ==
  ASSUME NEW t, NEW l \in t.layers, IsFiniteSet(t.layers), \A e \in t.edges : e.target \in t.layers
  PROVE  /\ l \in get_reachable_from_layer(t, l)
         /\ \A e \in t.edges : e.source \in get_reachable_from_layer(t, l)
                                 => e.target \in get_reachable_from_layer(t, l)
<1> DEFINE led(X) == {e.target : e \in {d \in t.edges : d.source \in X}}
<1>a. PICK N : N = Cardinality(t.layers)
  OBVIOUS
<1>0. N \in Nat
  BY <1>a, FS_CardinalityType
<1>1. PICK f : AreRounds(f, t.edges, l, N) /\ get_reachable_from_layer(t, l) = f[N]
  <2>1. \E f : AreRounds(f, t.edges, l, N)
    BY <1>0, RoundsExist
  <2> QED BY <1>a, <2>1, Zenon DEF get_reachable_from_layer, AreRounds
<1>s. PICK step : step = [X \in SUBSET t.layers |-> led(X)]
  OBVIOUS
<1>2. /\ step \in [SUBSET t.layers -> SUBSET t.layers]
      /\ \A X \in SUBSET t.layers : step[X] = led(X)
  BY <1>s
<1>3. f = [n \in 0 .. N |-> IF n = 0 THEN {l} ELSE f[n - 1] \cup led(f[n - 1])]
  BY <1>1, Zenon DEF AreRounds
<1>t. \A X : X \in SUBSET t.layers => led(X) \in SUBSET t.layers
  OBVIOUS
<1>c. \A e \in t.edges : \A X : e.source \in X => e.target \in led(X)
  OBVIOUS
<1> HIDE DEF led
<1>4. /\ f[0] = {l} /\ f = [n \in 0 .. N |-> f[n]]
      /\ \A n \in 1 .. N : f[n] = f[n - 1] \cup led(f[n - 1])
  <2>1. 0 \in 0 .. N /\ \A n \in 1 .. N : n # 0 /\ n \in 0 .. N
    BY <1>0
  <2> QED BY <1>3, <2>1
<1>5. \A n \in 0 .. N : f[n] \in SUBSET t.layers
  <2>0. PICK P : P = {n \in 0 .. N : f[n] \in SUBSET t.layers}
    OBVIOUS
  <2>1. P \in SUBSET (0 .. N) /\ 0 \in P
    BY <1>0, <1>4, <2>0
  <2>2. ASSUME NEW n \in 0 .. N, n # N, n \in P PROVE n + 1 \in P
    <3>1. n + 1 \in 1 .. N /\ n + 1 \in 0 .. N /\ (n + 1) - 1 = n
      BY <1>0, <2>2
    <3>2. f[n + 1] = f[n] \cup led(f[n])
      BY <1>4, <3>1
    <3> QED BY <1>t, <2>0, <2>2, <3>1, <3>2
  <2>3. \A n \in 0 .. N : n # N /\ n \in P => n + 1 \in P
    BY <2>2
  <2>4. \A n \in 0 .. N : n \in P
    BY <1>0, <2>1, <2>3, UpTo
  <2> QED BY <2>0, <2>4
<1>6. Grow(f, N, t.layers, {l}, step)
  <2>1. f \in [0 .. N -> SUBSET t.layers]
    BY <1>4, <1>5
  <2>2. ASSUME NEW n \in 1 .. N PROVE f[n] = f[n - 1] \cup step[f[n - 1]]
    <3>1. n - 1 \in 0 .. N
      BY <1>0
    <3> QED BY <1>2, <1>4, <1>5, <3>1
  <2> QED BY <1>4, <2>1, <2>2 DEF Grow
<1>7. step[f[N]] \subseteq f[N] /\ {l} \subseteq f[N]
  <2>1. step \in [SUBSET t.layers -> SUBSET t.layers]
    BY <1>2
  <2>2. PICK S, first : S = t.layers /\ first = {l}
    OBVIOUS
  <2>3. Grown(f, N, S, first, step)
    BY <1>a, <1>6, <2>1, <2>2 DEF Grown
  <2>4. step[f[N]] \subseteq f[N] /\ first \subseteq f[N]
    BY <2>3, GrowthEnds
  <2> QED BY <2>2, <2>4
<1>8. f[N] \in SUBSET t.layers
  BY <1>0, <1>5
<1> QED BY <1>1, <1>2, <1>c, <1>7, <1>8

\* What is between layers is an edge, and what a layer leads to is a layer.
LEMMA TopologyOfFile ==
  ASSUME NEW g, IsModelFile(g), NEW t, t = build_model_topology(g)
  PROVE  /\ t.inputs = {INPUT_LAYER_NAME} /\ t.outputs = {OUTPUT_LAYER_NAME}
         /\ t.layers \subseteq {INPUT_LAYER_NAME, OUTPUT_LAYER_NAME} \cup DOMAIN g.nodes
         /\ INPUT_LAYER_NAME \in t.layers /\ IsFiniteSet(t.layers)
         /\ \A e \in t.edges :
              /\ e.source \in t.layers /\ e.target \in t.layers
              /\ e.tensors # {}
              /\ e.tensors = find_layer_outputs(g, e.source) \cap find_layer_inputs(g, e.target)
         /\ \A p \in t.layers : \A q \in {INPUT_LAYER_NAME, OUTPUT_LAYER_NAME} \cup DOMAIN g.nodes :
              p # q /\ find_layer_outputs(g, p) \cap find_layer_inputs(g, q) # {} =>
                q \in t.layers /\ \E e \in t.edges : e.source = p /\ e.target = q
         /\ \A X \in SUBSET t.layers : INPUT_LAYER_NAME \in X /\ X # t.layers =>
              \E e \in t.edges : e.source \in X /\ e.target \notin X
<1> PICK In, Out : In = INPUT_LAYER_NAME /\ Out = OUTPUT_LAYER_NAME
  OBVIOUS
<1> PICK whole : whole = whole_topology(g)
  OBVIOUS
<1> PICK all : all = {In, Out} \cup DOMAIN g.nodes
  OBVIOUS
<1>1. /\ whole.layers = all /\ whole.inputs = {In} /\ whole.outputs = {Out}
      /\ whole.edges = add_topology_edges(g, all)
  BY DEF whole_topology, add_topology_nodes
<1>2. /\ \A e \in whole.edges :
           /\ e.source \in all /\ e.target \in all /\ e.tensors # {}
           /\ e.tensors = find_layer_outputs(g, e.source) \cap find_layer_inputs(g, e.target)
      /\ \A p, q \in all : p # q /\ find_layer_outputs(g, p) \cap find_layer_inputs(g, q) # {} =>
           \E e \in whole.edges : e.source = p /\ e.target = q
  <2>1. ASSUME NEW e \in whole.edges
        PROVE  /\ e.source \in all /\ e.target \in all /\ e.tensors # {}
               /\ e.tensors = find_layer_outputs(g, e.source) \cap find_layer_inputs(g, e.target)
    <3>1. PICK pair \in all \X all :
            /\ e = [source |-> pair[1], target |-> pair[2],
                    tensors |-> find_layer_outputs(g, pair[1]) \cap find_layer_inputs(g, pair[2])]
            /\ find_layer_outputs(g, pair[1]) \cap find_layer_inputs(g, pair[2]) # {}
      BY <1>1 DEF add_topology_edges
    <3> QED BY <3>1
  <2>2. ASSUME NEW p \in all, NEW q \in all, p # q,
               find_layer_outputs(g, p) \cap find_layer_inputs(g, q) # {}
        PROVE  \E e \in whole.edges : e.source = p /\ e.target = q
    <3> PICK pair : pair = <<p, q>>
      OBVIOUS
    <3>1. pair \in {x \in all \X all :
                      /\ x[1] # x[2]
                      /\ find_layer_outputs(g, x[1]) \cap find_layer_inputs(g, x[2]) # {}}
      BY <2>2
    <3> PICK e : e = [source |-> pair[1], target |-> pair[2],
                      tensors |-> find_layer_outputs(g, pair[1]) \cap find_layer_inputs(g, pair[2])]
      OBVIOUS
    <3>2. e \in whole.edges
      BY <1>1, <3>1 DEF add_topology_edges
    <3> QED BY <3>2
  <2> QED BY <2>1, <2>2
<1>3. IsFiniteSet(all)
  <2>1. IsFiniteSet({In, Out})
    <3>1. IsFiniteSet({} \cup {In})
      BY FS_EmptySet, FS_AddElement
    <3>2. IsFiniteSet(({} \cup {In}) \cup {Out})
      BY <3>1, FS_AddElement
    <3>3. ({} \cup {In}) \cup {Out} = {In, Out}
      OBVIOUS
    <3> QED BY <3>2, <3>3
  <2>2. IsFiniteSet(DOMAIN g.nodes)
    BY DEF IsModelFile
  <2> QED BY <2>1, <2>2, FS_Union
<1> PICK reached : reached = get_reachable_from_layer(whole, In)
  OBVIOUS
<1>4. In \in reached /\ \A e \in whole.edges : e.source \in reached => e.target \in reached
  <2>1. In \in whole.layers /\ IsFiniteSet(whole.layers) /\ \A e \in whole.edges : e.target \in whole.layers
    BY <1>1, <1>2, <1>3
  <2> QED BY <2>1, ReachedIsClosed
<1> PICK removed : removed = unreachable_layers(whole)
  OBVIOUS
<1>5. removed = all \ reached
  BY <1>1 DEF unreachable_layers
<1>6. /\ t.layers = all \ removed /\ t.inputs = {In} /\ t.outputs = {Out}
      /\ t.edges = {e \in whole.edges : {e.source, e.target} \cap removed = {}}
  <2>1. t = [whole EXCEPT !.layers = @ \ removed,
                          !.edges = {e \in @ : {e.source, e.target} \cap removed = {}}]
    BY DEF build_model_topology, clear_topology, remove_layers_from_iterable
  <2>2. "layers" \in DOMAIN whole /\ "edges" \in DOMAIN whole
    BY DEF whole_topology
  <2> QED BY <1>1, <2>1, <2>2
<1>7. \A l : l \in t.layers <=> l \in all /\ l \in reached
  BY <1>5, <1>6
<1>8. \A e : e \in t.edges <=> e \in whole.edges /\ e.source \in reached /\ e.target \in reached
  BY <1>2, <1>5, <1>6
<1>9. ASSUME NEW p \in t.layers, NEW q \in all,
             p # q, find_layer_outputs(g, p) \cap find_layer_inputs(g, q) # {}
      PROVE  q \in t.layers /\ \E e \in t.edges : e.source = p /\ e.target = q
  <2>1. p \in all /\ p \in reached
    BY <1>7
  <2>2. PICK e \in whole.edges : e.source = p /\ e.target = q
    BY <1>2, <1>9, <2>1
  <2> QED BY <1>4, <1>7, <1>8, <2>1, <2>2
<1>10. IsFiniteSet(t.layers)
  BY <1>3, <1>6, FS_Subset
<1>11. \A e \in t.edges :
         /\ e.source \in t.layers /\ e.target \in t.layers /\ e.tensors # {}
         /\ e.tensors = find_layer_outputs(g, e.source) \cap find_layer_inputs(g, e.target)
  BY <1>2, <1>7, <1>8
<1>12. t.layers \subseteq all /\ In \in t.layers
  BY <1>4, <1>7
<1>13. ASSUME NEW X \in SUBSET t.layers, In \in X, X # t.layers
       PROVE  \E e \in t.edges : e.source \in X /\ e.target \notin X
  <2>1. PICK l \in t.layers : l \notin X
    BY <1>13
  <2>2. is_reachable(whole, In, l)
    <3>1. l \in get_reachable_from_layer(whole, In)
      BY <1>7
    <3> QED BY <3>1, Zenon DEF is_reachable, get_reachable_from_layer
  <2>3. IsFiniteSet(whole.layers)
    BY <1>1, <1>3
  <2>4. PICK e \in whole.edges : e.source \in X /\ e.target \notin X
    BY <1>13, <2>1, <2>2, <2>3, WayOut
  <2>5. e.source \in reached
    BY <1>7, <2>4
  <2> QED BY <1>4, <1>8, <2>4, <2>5
<1> QED BY <1>6, <1>9, <1>10, <1>11, <1>12, <1>13

\* A way goes on.
LEMMA ReachableFurther ==
  ASSUME NEW t, NEW a \in t.layers, NEW b, NEW c, IsFiniteSet(t.layers),
         \A e \in t.edges : e.target \in t.layers,
         is_reachable(t, a, b), is_reachable(t, b, c)
  PROVE  is_reachable(t, a, c)
<1> PICK X : X = get_reachable_from_layer(t, a)
  OBVIOUS
<1>1. \A l : l \in X <=> is_reachable(t, a, l)
  BY Zenon DEF is_reachable, get_reachable_from_layer
<1>2. \A e \in t.edges : e.source \in X => e.target \in X
  BY ReachedIsClosed
<1>3. ASSUME c \notin X PROVE FALSE
  <2>1. b \in X
    BY <1>1
  <2>2. PICK e \in t.edges : e.source \in X /\ e.target \notin X
    BY <1>3, <2>1, WayOut
  <2> QED BY <1>2, <2>2
<1> QED BY <1>1, <1>3

IsDeepening(t, depth, N) ==
  /\ IsFiniteSet(t.layers) /\ N \in Nat
  /\ \A l \in t.layers : depth[l] \in 0 .. N
  /\ \A e \in t.edges : /\ e.source \in t.layers /\ e.target \in t.layers
                        /\ depth[e.source] < depth[e.target]

\* What is reached from another layer comes after it.
LEMMA ReachedIsAfter ==
  ASSUME NEW t, NEW depth, NEW N, IsDeepening(t, depth, N),
         NEW l \in t.layers, NEW other, other # l, is_reachable(t, l, other)
  PROVE  other \in t.layers /\ depth[l] < depth[other]
<1> PICK X : X = {m \in t.layers : m = l \/ depth[l] < depth[m]}
  OBVIOUS
<1>1. SUFFICES ASSUME other \notin X PROVE FALSE
  OBVIOUS
<1>2. PICK e \in t.edges : e.source \in X /\ e.target \notin X
  BY <1>1, WayOut DEF IsDeepening
<1>3. /\ depth[l] \in Nat /\ depth[e.source] \in Nat /\ depth[e.target] \in Nat
      /\ depth[e.source] < depth[e.target] /\ e.target \in t.layers
  BY <1>2 DEF IsDeepening
<1>4. depth[l] <= depth[e.source]
  BY <1>2, <1>3
<1> QED BY <1>2, <1>3, <1>4

\* Of the readers of a tensor, a last one comes after any.
LEMMA LastReader ==
  ASSUME NEW t, NEW depth, NEW N, IsDeepening(t, depth, N),
         NEW e \in t.edges, NEW x \in e.tensors
  PROVE  \E l \in maximal_destinations(t, x) : is_reachable(t, e.target, l)
<1> PICK from : from = e.target
  OBVIOUS
<1> PICK Readers : Readers = {l \in destinations(t, x) : is_reachable(t, from, l)}
  OBVIOUS
<1> PICK Depths : Depths = {depth[l] : l \in Readers}
  OBVIOUS
<1>1. /\ IsFiniteSet(t.layers) /\ N \in Nat /\ from \in t.layers
      /\ \A l \in t.layers : depth[l] \in Nat /\ depth[l] <= N
      /\ \A d \in t.edges : d.target \in t.layers
  BY DEF IsDeepening
<1>2. destinations(t, x) \subseteq t.layers
  BY <1>1 DEF destinations
<1>3. from \in Readers
  <2>1. from \in get_reachable_from_layer(t, from)
    BY <1>1, ReachedIsClosed
  <2>2. is_reachable(t, from, from)
    BY <2>1, Zenon DEF is_reachable, get_reachable_from_layer
  <2>3. from \in destinations(t, x)
    BY DEF destinations
  <2> QED BY <2>2, <2>3
<1>4. Depths \subseteq Nat /\ Depths # {} /\ \A r \in Depths : r <= N
  BY <1>1, <1>2, <1>3
<1>5. Max(Depths) \in Depths /\ \A r \in Depths : r <= Max(Depths)
  BY <1>1, <1>4, MaxIsGreatest
<1>6. PICK l \in Readers : \A m \in Readers : depth[m] <= depth[l]
  BY <1>5
<1>7. ASSUME NEW other \in destinations(t, x), other # l, is_reachable(t, l, other)
      PROVE  FALSE
  <2>1. l \in t.layers /\ is_reachable(t, from, l)
    BY <1>2
  <2>2. is_reachable(t, from, other)
    BY <1>1, <1>7, <2>1, ReachableFurther
  <2>3. other \in Readers
    BY <1>7, <2>2
  <2>4. other \in t.layers /\ depth[l] < depth[other]
    BY <1>7, <2>1, ReachedIsAfter
  <2> QED BY <1>1, <1>6, <2>1, <2>3, <2>4
<1>8. l \in maximal_destinations(t, x)
  BY <1>7 DEF maximal_destinations
<1> QED BY <1>8

\* Layers other than the boundary, nothing into the inputs or out of the outputs, no
\* tensor of two layers, and of a tensor's readers one that no other comes after,
\* wherever one starts; and a way of tensors from the inputs to the outputs.
IsDataFlow(t) ==
  /\ IsFiniteSet(t.layers) /\ boundary(t) \subseteq t.layers /\ t.layers \ boundary(t) # {}
  /\ t.inputs \cap t.outputs = {}
  /\ \A e \in t.edges : /\ e.source \in t.layers \ t.outputs
                       /\ e.target \in t.layers \ t.inputs
  /\ \A e, d \in t.edges : e.tensors \cap d.tensors # {} => e.source = d.source
  /\ \A e \in t.edges : \A x \in e.tensors :
       \E l \in maximal_destinations(t, x) : is_reachable(t, e.target, l)
  /\ \A e \in t.edges : e.tensors # {}
  /\ \E from \in t.inputs : \E to \in t.outputs : is_reachable(t, from, to)

\* The topology that the model manager builds of a model file is what the optimizer
\* relies on.
THEOREM ModelFilesAreDataFlows ==
  ASSUME NEW g, IsModelFile(g)
  PROVE  IsDataFlow(build_model_topology(g))
<1> PICK t : t = build_model_topology(g)
  OBVIOUS
<1> PICK In, Out : In = INPUT_LAYER_NAME /\ Out = OUTPUT_LAYER_NAME /\ In # Out
  BY DEF INPUT_LAYER_NAME, OUTPUT_LAYER_NAME
<1> PICK S : S = DOMAIN g.nodes
  OBVIOUS
<1> PICK N : N = Cardinality(S)
  OBVIOUS
<1> PICK made, read : /\ made = [l \in t.layers \cup S |-> find_layer_outputs(g, l)]
                      /\ read = [l \in t.layers \cup S |-> find_layer_inputs(g, l)]
  OBVIOUS
<1>1. /\ IsFiniteSet(S) /\ In \notin S /\ Out \notin S
      /\ \A m, n \in S : g.nodes[m].outputs \cap g.nodes[n].outputs # {} => m = n
      /\ \A n \in S : g.nodes[n].outputs \cap (g.inputs \cup g.initializers) = {}
      /\ Out \in get_reachable_from_layer(t, In)
  BY TopologyOfFile DEF IsModelFile, EveryLayerCounts
<1>2. /\ t.layers \subseteq {In, Out} \cup S /\ In \in t.layers /\ IsFiniteSet(t.layers)
      /\ t.inputs = {In} /\ t.outputs = {Out}
  BY TopologyOfFile
<1>3. /\ \A n \in S : made[n] = g.nodes[n].outputs /\ read[n] = g.nodes[n].inputs \ g.initializers
      /\ made[In] = g.inputs \ g.initializers /\ read[In] = {}
      /\ Out \in t.layers => made[Out] = {} /\ read[Out] = g.outputs
  <2>1. \A n \in S : n # In /\ n # Out
    BY <1>1
  <2> QED BY <1>2, <2>1 DEF find_layer_outputs, find_layer_inputs
<1>4. \A e \in t.edges : /\ e.source \in t.layers /\ e.target \in t.layers /\ e.tensors # {}
                         /\ e.tensors = made[e.source] \cap read[e.target]
  BY TopologyOfFile
<1>5. is_reachable(t, In, Out)
  BY <1>1, Zenon DEF is_reachable, get_reachable_from_layer
<1>6. Out \in t.layers
  <2>1. ASSUME Out \notin t.layers PROVE FALSE
    <3>1. PICK e \in t.edges : e.target \notin t.layers
      BY <1>2, <1>5, <2>1, WayOut
    <3> QED BY <1>4, <3>1
  <2> QED BY <2>1
<1>7. \A e \in t.edges : /\ e.source \in {In} \cup S /\ e.target \in {Out} \cup S
                         /\ e.source # Out /\ e.target # In
  <2>1. ASSUME NEW e \in t.edges
        PROVE  /\ e.source \in {In} \cup S /\ e.target \in {Out} \cup S
               /\ e.source # Out /\ e.target # In
    <3>1. /\ e.source \in {In, Out} \cup S /\ e.target \in {In, Out} \cup S
          /\ made[e.source] # {} /\ read[e.target] # {}
      BY <1>2, <1>4
    <3>2. made[Out] = {} /\ read[In] = {}
      BY <1>3, <1>6
    <3> QED BY <3>1, <3>2
  <2> QED BY <2>1
<1>8. ASSUME NEW e \in t.edges, NEW d \in t.edges, e.tensors \cap d.tensors # {}
      PROVE  e.source = d.source
  <2>1. PICK x : x \in made[e.source] /\ x \in made[d.source]
    BY <1>4, <1>8
  <2>2. \A n \in S : x \in made[n] => x \notin made[In]
    BY <1>1, <1>3
  <2>3. \A m, n \in S : x \in made[m] /\ x \in made[n] => m = n
    BY <1>1, <1>3
  <2> QED BY <1>7, <2>1, <2>2, <2>3
<1>9. t.layers \ {In, Out} # {}
  <2>1. PICK e \in t.edges : e.source = In
    <3> PICK X : X = {In}
      OBVIOUS
    <3>1. PICK e \in t.edges : e.source \in X /\ e.target \notin X
      BY <1>2, <1>5, WayOut
    <3> QED BY <3>1
  <2>2. CASE e.target # Out
    BY <1>4, <1>7, <2>1, <2>2
  <2>3. CASE e.target = Out
    <3>1. PICK x : x \in g.outputs
      BY <1>3, <1>4, <1>6, <2>3
    <3>2. PICK l \in t.layers \ boundary(t) : x \in g.nodes[l].outputs
      BY <3>1 DEF IsModelFile
    <3> QED BY <1>2, <3>2 DEF boundary
  <2> QED BY <2>2, <2>3
<1>10. PICK place : /\ \A n \in S : place[n] \in 1 .. N
                    /\ \A m, n \in S : g.nodes[m].outputs \cap g.nodes[n].inputs # {} => place[m] < place[n]
  BY DEF IsModelFile
<1> PICK depth : depth = [l \in t.layers |-> IF l = In THEN 0 ELSE IF l = Out THEN N + 1 ELSE place[l]]
  OBVIOUS
<1>11. IsDeepening(t, depth, N + 1)
  <2>1. N \in Nat
    BY <1>1, FS_CardinalityType
  <2>2. /\ depth[In] = 0 /\ depth[Out] = N + 1
        /\ \A n \in S : n \in t.layers => depth[n] = place[n] /\ depth[n] \in 1 .. N
    BY <1>1, <1>2, <1>6, <1>10
  <2>3. ASSUME NEW e \in t.edges PROVE depth[e.source] < depth[e.target]
    <3>1. CASE e.source \in S /\ e.target \in S
      <4>1. g.nodes[e.source].outputs \cap g.nodes[e.target].inputs # {}
        BY <1>3, <1>4, <3>1
      <4> QED BY <1>4, <1>10, <2>2, <3>1, <4>1
    <3>2. CASE e.source = In
      BY <1>4, <1>7, <2>1, <2>2, <3>2
    <3>3. CASE e.target = Out
      <4>1. CASE e.source = In
        BY <2>1, <2>2, <3>3, <4>1
      <4>2. CASE e.source \in S
        <5>1. depth[e.source] \in 1 .. N
          BY <1>4, <2>2, <4>2
        <5> QED BY <2>1, <2>2, <3>3, <5>1
      <4> QED BY <1>7, <4>1, <4>2
    <3> QED BY <1>7, <3>1, <3>2, <3>3
  <2>4. \A l \in t.layers : depth[l] \in 0 .. N + 1
    BY <1>2, <2>1, <2>2
  <2> QED BY <1>2, <1>4, <2>1, <2>3, <2>4 DEF IsDeepening
<1>12. \A e \in t.edges : \A x \in e.tensors :
         \E l \in maximal_destinations(t, x) : is_reachable(t, e.target, l)
  BY <1>11, LastReader
<1> QED BY <1>2, <1>4, <1>5, <1>6, <1>7, <1>8, <1>9, <1>12 DEF IsDataFlow, boundary

LEMMA ModelFacts ==
  ASSUME NEW v \in DOMAIN Models
  PROVE  /\ IsDataFlow(Models[v].topology)
         /\ Models[v].tensor_routes = tensor_routes(Models[v].topology)
<1>1. Models[v] = Model(StaticProfileOf[v])
  BY DEF Models
<1> PICK profile : profile = StaticProfileOf[v]
  OBVIOUS
<1> PICK m : m = optimizer_model(profile)
  OBVIOUS
<1>2. "tensor_routes" \notin DOMAIN m /\ "topology" \in DOMAIN m /\ m.topology = profile.topology
  BY DEF optimizer_model
<1>3. /\ Model(profile).topology = m.topology
      /\ Model(profile).tensor_routes = tensor_routes(profile.topology)
  BY <1>2 DEF Model
<1>4. IsDataFlow(Models[v].topology)
  <2>1. v \in DOMAIN Files
    BY DEF Models
  <2> QED BY <2>1, FilesAreModels, ModelFilesAreDataFlows
<1> QED BY <1>1, <1>2, <1>3, <1>4

\* A tensor crosses a cut from a layer before it to a layer after it, although the
\* optimizer only looks at readers that no other one comes after.
LEMMA CrossesCut ==
  ASSUME NEW a \in WellCut, NEW k \in Nat, NEW x
  PROVE  x \in cut_tensors(Models[a.variant].tensor_routes, a, k)
           <=> \E e \in Models[a.variant].topology.edges :
                 /\ x \in e.tensors
                 /\ a.component_of[e.source] <= k /\ k < a.component_of[e.target]
<1> PICK t : t = Models[a.variant].topology
  OBVIOUS
<1> PICK c : c = a.component_of
  OBVIOUS
<1>1. IsDataFlow(t) /\ Models[a.variant].tensor_routes = tensor_routes(t)
  BY CutFacts, ModelFacts
<1>2. /\ \A l \in t.layers : c[l] \in Nat
      /\ \A e \in t.edges : /\ e.source \in t.layers /\ e.target \in t.layers
                            /\ c[e.source] <= c[e.target]
  <2>1. \A l \in t.layers : c[l] \in Nat
    BY CutFacts
  <2>2. \A e \in t.edges : c[e.source] <= c[e.target]
    BY CutFacts DEF well_cut, layer_assignments_respect_precedence
  <2> QED BY <1>1, <2>1, <2>2 DEF IsDataFlow
<1>3. /\ DOMAIN tensor_routes(t) = Tensors(t)
      /\ \A y \in Tensors(t) : /\ tensor_routes(t)[y].source = source(t, y)
                               /\ tensor_routes(t)[y].maximal_destinations = maximal_destinations(t, y)
  BY DEF tensor_routes
<1>4. ASSUME NEW e \in t.edges, x \in e.tensors
      PROVE  x \in Tensors(t) /\ source(t, x) = e.source
  <2>1. PICK d \in t.edges : x \in d.tensors /\ source(t, x) = d.source
    BY <1>4 DEF source
  <2>2. d.tensors \cap e.tensors # {}
    BY <1>4, <2>1
  <2>3. d.source = e.source
    BY <1>1, <2>2 DEF IsDataFlow
  <2> QED BY <1>4, <2>1, <2>3 DEF Tensors
<1>5. ASSUME x \in cut_tensors(tensor_routes(t), a, k)
      PROVE  \E e \in t.edges : x \in e.tensors /\ c[e.source] <= k /\ k < c[e.target]
  <2>1. x \in Tensors(t) /\ tensor_crossing(a, tensor_routes(t)[x], k)
    BY <1>3, <1>5 DEF cut_tensors
  <2>2. PICK l \in maximal_destinations(t, x) : destination_crossing(a, source(t, x), l, k)
    BY <1>3, <2>1 DEF tensor_crossing
  <2>3. PICK e \in t.edges : x \in e.tensors /\ e.target = l
    BY <2>2 DEF maximal_destinations, destinations
  <2> QED BY <1>4, <2>2, <2>3 DEF destination_crossing
<1>6. ASSUME NEW e \in t.edges, x \in e.tensors, c[e.source] <= k, k < c[e.target]
      PROVE  x \in cut_tensors(tensor_routes(t), a, k)
  <2>1. PICK l \in maximal_destinations(t, x) : is_reachable(t, e.target, l)
    BY <1>1, <1>6 DEF IsDataFlow
  <2>2. c[e.target] <= c[l] /\ l \in t.layers
    <3>1. IsFiniteSet(t.layers) /\ e.target \in t.layers
      BY <1>1, <1>2 DEF IsDataFlow
    <3> QED BY <1>2, <2>1, <3>1, ReachableIsLater
  <2>3. k < c[l]
    <3>1. c[e.target] \in Nat /\ c[l] \in Nat
      BY <1>2, <2>2
    <3> QED BY <1>6, <2>2, <3>1
  <2>4. destination_crossing(a, source(t, x), l, k)
    BY <1>4, <1>6, <2>3 DEF destination_crossing
  <2>5. x \in Tensors(t) /\ tensor_crossing(a, tensor_routes(t)[x], k)
    BY <1>3, <1>4, <1>6, <2>1, <2>4 DEF tensor_crossing
  <2> QED BY <1>3, <2>5 DEF cut_tensors
<1> QED BY <1>1, <1>5, <1>6
-----------------------------------------------------------------------------
(* The tensors a flow solution routes.                                     *)

\* Its tensors are those of its answer.
Carries(fs, a) ==
  /\ fs.variant = a.variant
  /\ \A k \in 1 .. component_last(a) :
       LET contract == component_tensor_contract(Models[a.variant].topology, layers_of(a, k)) IN
       fs.components[k].inputs = contract.inputs /\ fs.components[k].outputs = contract.outputs
  /\ \A k \in 1 .. component_last(a) - 1 :
       fs.cuts[k] = cut_tensors(Models[a.variant].tensor_routes, a, k)

\* A solution of the answer, under some number.
IsFlowOf(fs, a) == \E n \in Nat : fs = [Extracted[a] EXCEPT !.flow = n]

LEMMA ExtractedCarries ==
  ASSUME NEW a \in WellCut, NEW fs, IsFlowOf(fs, a)
  PROVE  Carries(fs, a) /\ {"variant", "cuts"} \subseteq DOMAIN fs
<1> PICK t : t = Models[a.variant].topology
  OBVIOUS
<1> PICK last : last = component_last(a)
  OBVIOUS
<1> PICK n \in Nat : fs = [Extracted[a] EXCEPT !.flow = n]
  BY DEF IsFlowOf
<1>1. Extracted[a] = extract_flow(Models, 1, a)
  BY DEF Extracted
<1>2. /\ {"variant", "cuts"} \subseteq DOMAIN fs /\ fs.variant = a.variant
      /\ fs.components = [k \in 1 .. last |-> extract_component(t, a, k)]
      /\ fs.cuts = [k \in 1 .. last - 1 |-> cut_tensors(Models[a.variant].tensor_routes, a, k)]
  BY <1>1 DEF extract_flow
<1>3. ASSUME NEW k \in 1 .. last
      PROVE  /\ fs.components[k].inputs = component_tensor_contract(t, layers_of(a, k)).inputs
             /\ fs.components[k].outputs = component_tensor_contract(t, layers_of(a, k)).outputs
  <2>1. fs.components[k] = extract_component(t, a, k)
    BY <1>2
  <2> QED BY <2>1 DEF extract_component
<1>4. \A k \in 1 .. last - 1 : fs.cuts[k] = cut_tensors(Models[a.variant].tensor_routes, a, k)
  BY <1>2
<1> QED BY <1>2, <1>3, <1>4 DEF Carries

\* All but the first and the last component execute something, and so does one of them.
LEMMA Shape ==
  ASSUME NEW a \in WellCut, NEW fs, IsSolutionOf(fs, a)
  PROVE  /\ IsFlow(fs) /\ component_last(a) \in Nat \ {0}
         /\ components(a) = 1 .. component_last(a) /\ SinkIndex(fs) = component_last(a) + 1
         /\ executable_components(fs) \subseteq 1 .. component_last(a)
         /\ 2 .. component_last(a) - 1 \subseteq executable_components(fs)
         /\ FirstExecuted(fs) \in {1, 2} /\ FirstExecuted(fs) \in executable_components(fs)
         /\ LastExecuted(fs) \in {component_last(a) - 1, component_last(a)}
         /\ LastExecuted(fs) \in executable_components(fs)
         /\ \A i \in executable_components(fs) :
              FirstExecuted(fs) <= i /\ i <= LastExecuted(fs)
<1> PICK t : t = Models[a.variant].topology
  OBVIOUS
<1> PICK last : last = component_last(a)
  OBVIOUS
<1>1. IsDataFlow(t) /\ DOMAIN a.component_of = t.layers
  BY CutFacts, ModelFacts
<1>2. PICK l \in t.layers : l \notin boundary(t)
  BY <1>1 DEF IsDataFlow
<1> PICK k : k = a.component_of[l]
  OBVIOUS
<1>3. k \in components(a) /\ l \in layers_of(a, k)
  BY <1>1, CutFacts DEF layers_of
<1>4. last \in Nat \ {0} /\ components(a) = 1 .. last
  BY <1>3, LastOfCut
<1>5. k \in executable_components(fs)
  <2>1. fs.components[k].layers = layers_of(a, k) \ boundary(t) /\ k \in DOMAIN fs.components
    BY <1>3, <1>4 DEF IsSolutionOf
  <2> QED BY <1>2, <1>3, <2>1 DEF executable_components
<1>6. /\ IsFlow(fs) /\ Len(fs.components) = last
      /\ \A i \in 1 .. last : i \in {1, last} \cup executable_components(fs)
  BY <1>5, FlowOfAnswer
<1> PICK E : E = executable_components(fs)
  OBVIOUS
<1> PICK F, L : F = FirstExecuted(fs) /\ L = LastExecuted(fs)
  OBVIOUS
<1>7. E \subseteq 1 .. last /\ F \in E /\ L \in E /\ \A i \in E : F <= i /\ i <= L
  BY <1>6, ExecutedEnds
<1>8. ASSUME NEW i \in 2 .. last - 1 PROVE i \in E
  BY <1>4, <1>6
<1>9. F \in {1, 2}
  <2>1. F > 2 => 2 \in E
    BY <1>4, <1>7, <1>8
  <2> QED BY <1>4, <1>7, <2>1
<1>10. L \in {last - 1, last}
  <2>1. L < last - 1 => last - 1 \in E
    BY <1>4, <1>7, <1>8
  <2> QED BY <1>4, <1>7, <2>1
<1>11. SinkIndex(fs) = last + 1
  BY <1>6 DEF SinkIndex
<1> QED BY <1>4, <1>6, <1>7, <1>8, <1>9, <1>10, <1>11

\* What arrives at a slot.
received(fs, i) ==
  IF i = 0 THEN input_tensors(fs)
  ELSE IF i = SinkIndex(fs) THEN result_tensors(fs)
  ELSE IF i = 1 THEN fs.components[1].inputs
  ELSE fs.cuts[i - 1]

LEMMA ReceivedTensors ==
  ASSUME NEW a \in WellCut, NEW sol, NEW k, IsSolutionOf(sol[k], a),
         NEW i \in {0} \cup Receiving(sol[k])
  PROVE  input_routing(sol, k, i).tensors = received(sol[k], i)
<1> PICK fs : fs = sol[k]
  OBVIOUS
<1> PICK last : last = component_last(a)
  OBVIOUS
<1> PICK E : E = executable_components(fs)
  OBVIOUS
<1> PICK F, L : F = FirstExecuted(fs) /\ L = LastExecuted(fs)
  OBVIOUS
<1>1. /\ IsFlow(fs) /\ last \in Nat \ {0} /\ SinkIndex(fs) = last + 1
      /\ E \subseteq 1 .. last /\ 2 .. last - 1 \subseteq E
      /\ F \in {1, 2} /\ F \in E /\ L \in {last - 1, last} /\ L \in E
      /\ \A j \in E : F <= j /\ j <= L
  BY Shape
<1>2. CASE i = 0
  BY <1>2 DEF input_routing, received
<1>3. CASE i = SinkIndex(fs)
  <2>1. i # 0 /\ L # 0
    BY <1>1, <1>3
  <2> QED BY <1>3, <2>1 DEF input_routing, tensors_from, received
<1>4. CASE i # 0 /\ i # SinkIndex(fs)
  <2> PICK from : from = previous(fs, i)
    OBVIOUS
  <2>1. i \in E
    BY <1>4 DEF Receiving
  <2>2. from \in {0} \cup E /\ from < i /\ \A j \in E : j < i => j <= from
    BY <1>1, <2>1, PreviousInChain DEF Sending
  <2>3. input_routing(sol, k, i).tensors = tensors_from(fs, from)
    BY <1>4 DEF input_routing
  <2>4. CASE i = F
    <3>1. from = 0
      BY <1>1, <2>2, <2>4
    <3>2. tensors_from(fs, from) = input_tensors(fs)
      BY <3>1 DEF tensors_from
    <3>3. i = 1 \/ i = 2
      BY <1>1, <2>4
    <3> QED BY <1>4, <2>3, <2>4, <3>2, <3>3 DEF received, input_tensors
  <2>5. CASE i # F
    <3>1. i - 1 \in E
      BY <1>1, <2>1, <2>5
    <3>2. from = i - 1
      BY <1>1, <2>1, <2>2, <3>1
    <3>3. from # 0 /\ from # L /\ i # 1
      BY <1>1, <2>1, <3>1, <3>2
    <3> QED BY <1>4, <2>3, <3>2, <3>3 DEF tensors_from, received
  <2> QED BY <2>4, <2>5
<1> QED BY <1>2, <1>3, <1>4
\* Where the layers of an answer are, and which its components execute.
LEMMA LayersOfAnswer ==
  ASSUME NEW a \in WellCut, NEW fs, IsSolutionOf(fs, a),
         NEW t, t = Models[a.variant].topology,
         NEW c, c = a.component_of, NEW last, last = component_last(a)
  PROVE  /\ \A l \in t.layers : c[l] \in 1 .. last
         /\ \A e \in t.edges : /\ e.source \in t.layers /\ e.source \notin t.outputs
                               /\ e.target \in t.layers /\ e.target \notin t.inputs
                               /\ c[e.source] <= c[e.target]
         /\ \A l \in t.inputs : l \in t.layers /\ l \notin t.outputs /\ c[l] = 1
         /\ \A l \in t.outputs : l \in t.layers /\ l \notin t.inputs /\ c[l] = last
         /\ \A k, l : l \in layers_of(a, k) <=> l \in t.layers /\ c[l] = k
         /\ \A k \in 1 .. last : \A l :
              l \in fs.components[k].layers
                <=> l \in t.layers /\ c[l] = k /\ l \notin t.inputs /\ l \notin t.outputs
<1>1. IsDataFlow(t) /\ DOMAIN c = t.layers
  BY CutFacts, ModelFacts
<1>2. components(a) = 1 .. last
  BY Shape
<1>3. \A l \in t.layers : c[l] \in 1 .. last
  BY <1>1, <1>2, CutFacts
<1>4. /\ \A l \in t.inputs : c[l] = 1
      /\ \A l \in t.outputs : c[l] = last
      /\ \A e \in t.edges : c[e.source] <= c[e.target]
  BY CutFacts DEF well_cut, input_layers_on_first_component, output_layers_on_last_component,
                  layer_assignments_respect_precedence
<1>5. /\ \A e \in t.edges : /\ e.source \in t.layers /\ e.source \notin t.outputs
                            /\ e.target \in t.layers /\ e.target \notin t.inputs
      /\ \A l \in t.inputs : l \in t.layers /\ l \notin t.outputs
      /\ \A l \in t.outputs : l \in t.layers /\ l \notin t.inputs
  BY <1>1 DEF IsDataFlow, boundary
<1>6. \A k, l : l \in layers_of(a, k) <=> l \in t.layers /\ c[l] = k
  BY <1>1 DEF layers_of
<1>7. ASSUME NEW k \in 1 .. last, NEW l
      PROVE  l \in fs.components[k].layers
               <=> l \in t.layers /\ c[l] = k /\ l \notin t.inputs /\ l \notin t.outputs
  <2>1. fs.components[k].layers = layers_of(a, k) \ boundary(t)
    BY DEF IsSolutionOf
  <2> QED BY <1>6, <2>1 DEF boundary
<1> QED BY <1>3, <1>4, <1>5, <1>6, <1>7

\* What a component reads or passes on of its own inputs, and what it makes.
LEMMA ContractOfAnswer ==
  ASSUME NEW a \in WellCut, NEW fs, IsSolutionOf(fs, a), Carries(fs, a),
         NEW t, t = Models[a.variant].topology,
         NEW c, c = a.component_of, NEW last, last = component_last(a),
         NEW k \in 1 .. last, NEW x
  PROVE  /\ x \in fs.components[k].inputs
              <=> \E e \in t.edges : /\ x \in e.tensors
                                     /\ \/ c[e.target] = k /\ c[e.source] # k
                                        \/ c[e.source] = k /\ e.source \in t.inputs
         /\ x \in fs.components[k].outputs
              <=> \E e \in t.edges : /\ x \in e.tensors
                                     /\ \/ c[e.source] = k /\ c[e.target] # k
                                        \/ c[e.target] = k /\ e.target \in t.outputs
         /\ x \in extract_incoming(t, fs.components[k].layers)
              <=> \E e \in t.edges : /\ x \in e.tensors
                                     /\ e.target \in fs.components[k].layers
                                     /\ e.source \notin fs.components[k].layers
         /\ x \in extract_outgoing(t, fs.components[k].layers)
              <=> \E e \in t.edges : /\ x \in e.tensors
                                     /\ e.source \in fs.components[k].layers
                                     /\ e.target \notin fs.components[k].layers
<1> PICK contract : contract = component_tensor_contract(t, layers_of(a, k))
  OBVIOUS
<1>1. fs.components[k].inputs = contract.inputs /\ fs.components[k].outputs = contract.outputs
  BY DEF Carries
<1>2. /\ \A e \in t.edges : e.source \in t.layers /\ e.target \in t.layers
      /\ \A l : l \in layers_of(a, k) <=> l \in t.layers /\ c[l] = k
  BY LayersOfAnswer
<1> PICK layers : layers = layers_of(a, k)
  OBVIOUS
<1>3. x \in contract.inputs
        <=> \E e \in t.edges : /\ x \in e.tensors
                               /\ \/ e.target \in layers /\ e.source \notin layers
                                  \/ e.source \in layers /\ e.source \in t.inputs
  BY DEF component_tensor_contract
<1>4. x \in contract.outputs
        <=> \E e \in t.edges : /\ x \in e.tensors
                               /\ \/ e.source \in layers /\ e.target \notin layers
                                  \/ e.target \in layers /\ e.target \in t.outputs
  BY DEF component_tensor_contract
<1>5. x \in fs.components[k].inputs
        <=> \E e \in t.edges : /\ x \in e.tensors
                               /\ \/ c[e.target] = k /\ c[e.source] # k
                                  \/ c[e.source] = k /\ e.source \in t.inputs
  BY <1>1, <1>2, <1>3
<1>6. x \in fs.components[k].outputs
        <=> \E e \in t.edges : /\ x \in e.tensors
                               /\ \/ c[e.source] = k /\ c[e.target] # k
                                  \/ c[e.target] = k /\ e.target \in t.outputs
  BY <1>1, <1>2, <1>4
<1>7. \A executed :
        /\ x \in extract_incoming(t, executed)
             <=> \E e \in t.edges : /\ x \in e.tensors
                                    /\ e.target \in executed /\ e.source \notin executed
        /\ x \in extract_outgoing(t, executed)
             <=> \E e \in t.edges : /\ x \in e.tensors
                                    /\ e.source \in executed /\ e.target \notin executed
  BY DEF extract_incoming, extract_outgoing, TensorsOf
<1> QED BY <1>5, <1>6, <1>7

\* The first to read gets what the callers are told to send.
LEMMA InputTensors ==
  ASSUME NEW a \in WellCut, NEW fs, IsSolutionOf(fs, a), Carries(fs, a)
  PROVE  input_tensors(fs) = input_tensor_properties(Models[a.variant].topology)
<1> PICK t, c, last : /\ t = Models[a.variant].topology /\ c = a.component_of
                      /\ last = component_last(a)
  OBVIOUS
<1> PICK E : E = executable_components(fs)
  OBVIOUS
<1>1. /\ last \in Nat \ {0} /\ E \subseteq 1 .. last /\ E # {}
      /\ FirstExecuted(fs) \in {1, 2} /\ FirstExecuted(fs) \in E
      /\ \A i \in E : FirstExecuted(fs) <= i
  BY Shape DEF IsFlow
<1>2. /\ \A l \in t.layers : c[l] \in 1 .. last
      /\ \A e \in t.edges : /\ e.source \in t.layers /\ e.source \notin t.outputs
                            /\ e.target \in t.layers /\ e.target \notin t.inputs
                            /\ c[e.source] <= c[e.target]
      /\ \A l \in t.inputs : l \in t.layers /\ l \notin t.outputs /\ c[l] = 1
      /\ \A l \in t.outputs : c[l] = last
      /\ \A l : l \in fs.components[1].layers
                  <=> l \in t.layers /\ c[l] = 1 /\ l \notin t.inputs /\ l \notin t.outputs
  BY <1>1, LayersOfAnswer
<1>3. \A x : x \in input_tensor_properties(t)
               <=> \E e \in t.edges : x \in e.tensors /\ e.source \in t.inputs
  BY DEF input_tensor_properties
<1>4. CASE FirstExecuted(fs) = 1
  <2>1. input_tensors(fs) = fs.components[1].inputs
    BY <1>4 DEF input_tensors
  <2>2. ASSUME NEW x
        PROVE x \in fs.components[1].inputs
                <=> \E e \in t.edges : x \in e.tensors /\ e.source \in t.inputs
    <3>1. x \in fs.components[1].inputs
            <=> \E e \in t.edges : /\ x \in e.tensors
                                   /\ \/ c[e.target] = 1 /\ c[e.source] # 1
                                      \/ c[e.source] = 1 /\ e.source \in t.inputs
      BY <1>1, ContractOfAnswer
    <3>2. \A e \in t.edges : c[e.target] = 1 => c[e.source] = 1
      <4> SUFFICES ASSUME NEW e \in t.edges, c[e.target] = 1 PROVE c[e.source] = 1
        OBVIOUS
      <4>1. c[e.source] \in 1 .. last /\ c[e.source] <= c[e.target]
        BY <1>2
      <4> QED BY <1>1, <4>1
    <3> QED BY <1>2, <3>1, <3>2
  <2> QED BY <1>3, <2>1, <2>2
<1>5. CASE FirstExecuted(fs) = 2
  <2>1. last >= 2 /\ 1 \in 1 .. last - 1 /\ 1 \notin E
    BY <1>1, <1>5
  <2>2. input_tensors(fs) = cut_tensors(Models[a.variant].tensor_routes, a, 1)
    <3>1. input_tensors(fs) = fs.cuts[1]
      BY <1>5 DEF input_tensors
    <3> QED BY <2>1, <3>1 DEF Carries
  <2>3. \A l \in t.layers : c[l] = 1 => l \in t.inputs \/ l \in t.outputs
    <3>1. 1 \in DOMAIN fs.components
      BY <1>1 DEF IsSolutionOf
    <3>2. fs.components[1].layers = {}
      BY <2>1, <3>1 DEF executable_components
    <3> QED BY <1>2, <3>2
  <2>4. ASSUME NEW e \in t.edges
        PROVE  c[e.source] <= 1 /\ 1 < c[e.target] <=> e.source \in t.inputs
    <3>1. c[e.source] \in 1 .. last /\ c[e.target] \in 1 .. last
      BY <1>2
    <3>2. ASSUME c[e.source] <= 1 PROVE e.source \in t.inputs
      <4>1. c[e.source] = 1
        BY <1>1, <3>1, <3>2
      <4> QED BY <1>2, <2>3, <4>1
    <3>3. ASSUME e.source \in t.inputs PROVE c[e.source] <= 1 /\ 1 < c[e.target]
      <4>1. c[e.source] = 1
        BY <1>2, <3>3
      <4>2. c[e.target] # 1
        <5>1. c[e.target] = 1 => e.target \in t.outputs
          BY <1>2, <2>3
        <5> QED BY <1>1, <1>2, <2>1, <5>1
      <4> QED BY <1>1, <3>1, <4>1, <4>2
    <3> QED BY <3>2, <3>3
  <2>5. \A x : x \in input_tensors(fs)
                 <=> \E e \in t.edges : /\ x \in e.tensors
                                        /\ c[e.source] <= 1 /\ 1 < c[e.target]
    BY <2>2, CrossesCut
  <2> QED BY <1>3, <2>4, <2>5
<1> QED BY <1>1, <1>4, <1>5
\* An executing component receives all it reads, whatever it reads it for.
LEMMA InputsAreReceived ==
  ASSUME NEW a \in WellCut, NEW fs, IsSolutionOf(fs, a), Carries(fs, a),
         NEW i \in executable_components(fs)
  PROVE  /\ fs.components[i].inputs \subseteq received(fs, i)
         /\ extract_incoming(Models[a.variant].topology, fs.components[i].layers)
              \subseteq fs.components[i].inputs
<1> PICK t, c, last : /\ t = Models[a.variant].topology /\ c = a.component_of
                      /\ last = component_last(a)
  OBVIOUS
<1>1. /\ last \in Nat \ {0} /\ i \in 1 .. last /\ SinkIndex(fs) = last + 1
  BY Shape
<1>2. /\ \A l \in t.layers : c[l] \in 1 .. last
      /\ \A e \in t.edges : /\ e.source \in t.layers /\ e.source \notin t.outputs
                            /\ e.target \in t.layers /\ e.target \notin t.inputs
                            /\ c[e.source] <= c[e.target]
      /\ \A l \in t.inputs : c[l] = 1
      /\ \A l : l \in fs.components[i].layers
                  <=> l \in t.layers /\ c[l] = i /\ l \notin t.inputs /\ l \notin t.outputs
  BY <1>1, LayersOfAnswer
<1>3. ASSUME NEW x \in fs.components[i].inputs PROVE x \in received(fs, i)
  <2>1. CASE i = 1
    BY <1>1, <2>1 DEF received
  <2>2. CASE i # 1
    <3>1. PICK e \in t.edges : /\ x \in e.tensors
                               /\ \/ c[e.target] = i /\ c[e.source] # i
                                  \/ c[e.source] = i /\ e.source \in t.inputs
      BY <1>1, ContractOfAnswer
    <3>2. c[e.target] = i /\ c[e.source] # i
      BY <1>2, <2>2, <3>1
    <3>3. c[e.source] \in 1 .. last /\ c[e.source] <= c[e.target]
      BY <1>2
    <3>4. c[e.source] <= i - 1 /\ i - 1 < c[e.target]
      BY <1>1, <3>2, <3>3
    <3>5. i - 1 \in 1 .. last - 1 /\ i - 1 \in Nat
      BY <1>1, <2>2
    <3>6. x \in fs.cuts[i - 1]
      <4>1. x \in cut_tensors(Models[a.variant].tensor_routes, a, i - 1)
        BY <3>1, <3>4, <3>5, CrossesCut
      <4> QED BY <3>5, <4>1 DEF Carries
    <3>7. received(fs, i) = fs.cuts[i - 1]
      BY <1>1, <2>2 DEF received
    <3> QED BY <3>6, <3>7
  <2> QED BY <2>1, <2>2
<1>4. ASSUME NEW x \in extract_incoming(t, fs.components[i].layers)
      PROVE  x \in fs.components[i].inputs
  <2>1. PICK e \in t.edges : /\ x \in e.tensors /\ e.target \in fs.components[i].layers
                             /\ e.source \notin fs.components[i].layers
    <3>1. x \in extract_incoming(t, fs.components[i].layers)
            <=> \E e \in t.edges : /\ x \in e.tensors
                                   /\ e.target \in fs.components[i].layers
                                   /\ e.source \notin fs.components[i].layers
      BY <1>1, ContractOfAnswer
    <3> QED BY <1>4, <3>1
  <2>2. \/ c[e.target] = i /\ c[e.source] # i
        \/ c[e.source] = i /\ e.source \in t.inputs
    BY <1>2, <2>1
  <2> QED BY <1>1, <2>1, <2>2, ContractOfAnswer
<1> QED BY <1>3, <1>4

\* A component passes on what it received, and what it made itself.
LEMMA SentIsReceivedOrMade ==
  ASSUME NEW a \in WellCut, NEW fs, IsSolutionOf(fs, a), Carries(fs, a),
         NEW i \in executable_components(fs), NEW x \in tensors_from(fs, i)
  PROVE  \/ x \in received(fs, i)
         \/ x \in extract_outgoing(Models[a.variant].topology, fs.components[i].layers)
<1> PICK t, c, last : /\ t = Models[a.variant].topology /\ c = a.component_of
                      /\ last = component_last(a)
  OBVIOUS
<1> PICK L : L = LastExecuted(fs)
  OBVIOUS
<1>1. /\ last \in Nat \ {0} /\ i \in 1 .. last /\ SinkIndex(fs) = last + 1
      /\ L \in {last - 1, last} /\ L \in 1 .. last /\ i <= L
  BY Shape
<1>2. /\ \A l \in t.layers : c[l] \in 1 .. last
      /\ \A e \in t.edges : /\ e.source \in t.layers /\ e.source \notin t.outputs
                            /\ e.target \in t.layers /\ e.target \notin t.inputs
                            /\ c[e.source] <= c[e.target]
      /\ \A l \in t.inputs : c[l] = 1
      /\ \A l \in t.outputs : c[l] = last
      /\ \A l : l \in fs.components[i].layers
                  <=> l \in t.layers /\ c[l] = i /\ l \notin t.inputs /\ l \notin t.outputs
  <2>1. /\ \A l \in t.layers : c[l] \in 1 .. last
        /\ \A l \in t.inputs : c[l] = 1
        /\ \A l \in t.outputs : c[l] = last
    <3>1. \A l \in t.layers : c[l] \in 1 .. last
      BY LayersOfAnswer
    <3>2. \A l \in t.inputs : l \in t.layers /\ l \notin t.outputs /\ c[l] = 1
      BY LayersOfAnswer
    <3>3. \A l \in t.outputs : l \in t.layers /\ l \notin t.inputs /\ c[l] = last
      BY LayersOfAnswer
    <3> QED BY <3>1, <3>2, <3>3
  <2>2. \A e \in t.edges : /\ e.source \in t.layers /\ e.source \notin t.outputs
                           /\ e.target \in t.layers /\ e.target \notin t.inputs
                           /\ c[e.source] <= c[e.target]
    BY LayersOfAnswer
  <2>3. \A l : l \in fs.components[i].layers
                  <=> l \in t.layers /\ c[l] = i /\ l \notin t.inputs /\ l \notin t.outputs
    BY <1>1, LayersOfAnswer
  <2> QED BY <2>1, <2>2, <2>3
<1>3. PICK e \in t.edges : /\ x \in e.tensors /\ c[e.source] <= i
                           /\ i < c[e.target] \/ e.target \in t.outputs
  <2>1. CASE i = L /\ L = last
    <3>1. x \in fs.components[i].outputs
      BY <1>1, <2>1, Shape DEF tensors_from, result_tensors, IsSolutionOf
    <3>2. PICK e \in t.edges : /\ x \in e.tensors
                               /\ \/ c[e.source] = i /\ c[e.target] # i
                                  \/ c[e.target] = i /\ e.target \in t.outputs
      BY <1>1, <3>1, ContractOfAnswer
    <3>3. c[e.source] \in 1 .. last /\ c[e.target] \in 1 .. last /\ c[e.source] <= c[e.target]
      BY <1>2
    <3>4. c[e.source] <= i /\ e.target \in t.outputs
      BY <1>1, <2>1, <3>2, <3>3
    <3> QED BY <3>2, <3>4
  <2>2. CASE ~ (i = L /\ L = last)
    <3>1. i \in 1 .. last - 1 /\ i \in Nat
      BY <1>1, <2>2
    <3>2. tensors_from(fs, i) = fs.cuts[i]
      <4>1. i # 0 /\ Len(fs.components) = last
        BY <1>1, Shape DEF SinkIndex, IsFlow
      <4>2. i = L => L # Len(fs.components)
        BY <2>2, <4>1
      <4> QED BY <4>1, <4>2 DEF tensors_from, result_tensors
    <3>3. x \in cut_tensors(Models[a.variant].tensor_routes, a, i)
      BY <3>1, <3>2 DEF Carries
    <3>4. PICK e \in t.edges : x \in e.tensors /\ c[e.source] <= i /\ i < c[e.target]
      BY <3>1, <3>3, CrossesCut
    <3> QED BY <3>4
  <2> QED BY <2>1, <2>2
<1>4. c[e.source] \in 1 .. last /\ c[e.target] \in 1 .. last /\ c[e.source] <= c[e.target]
  BY <1>2
<1>5. e.source \in t.layers /\ e.source \notin t.outputs
  BY <1>2
<1>6. CASE c[e.source] < i
  <2>1. i - 1 \in 1 .. last - 1 /\ i - 1 \in Nat /\ i # 1
    BY <1>1, <1>4, <1>6
  <2>2. c[e.source] <= i - 1 /\ i - 1 < c[e.target]
    BY <1>1, <1>2, <1>3, <1>4, <1>6
  <2>3. x \in fs.cuts[i - 1]
    <3>1. x \in cut_tensors(Models[a.variant].tensor_routes, a, i - 1)
      BY <1>3, <2>1, <2>2, CrossesCut
    <3> QED BY <2>1, <3>1 DEF Carries
  <2> QED BY <1>1, <2>1, <2>3 DEF received
<1>7. CASE c[e.source] = i /\ e.source \in t.inputs
  <2>1. i = 1
    BY <1>2, <1>7
  <2>2. x \in fs.components[i].inputs
    BY <1>1, <1>3, <1>7, ContractOfAnswer
  <2> QED BY <1>1, <2>1, <2>2 DEF received
<1>8. CASE c[e.source] = i /\ e.source \notin t.inputs
  <2>1. e.source \in fs.components[i].layers
    BY <1>2, <1>5, <1>8
  <2>2. e.target \notin fs.components[i].layers
    BY <1>1, <1>2, <1>3, <1>4
  <2> QED BY <1>1, <1>3, <2>1, <2>2, ContractOfAnswer
<1> QED BY <1>1, <1>3, <1>4, <1>6, <1>7, <1>8

\* The sink receives every result of the model.
LEMMA ResultsAreReceived ==
  ASSUME NEW a \in WellCut, NEW fs, IsSolutionOf(fs, a), Carries(fs, a),
         NEW e \in Models[a.variant].topology.edges,
         e.target \in Models[a.variant].topology.outputs, NEW x \in e.tensors
  PROVE  x \in result_tensors(fs)
<1> PICK t, c, last : /\ t = Models[a.variant].topology /\ c = a.component_of
                      /\ last = component_last(a)
  OBVIOUS
<1> PICK E, L : E = executable_components(fs) /\ L = LastExecuted(fs)
  OBVIOUS
<1>1. /\ last \in Nat \ {0} /\ L \in {last - 1, last} /\ L \in 1 .. last
      /\ E \subseteq 1 .. last /\ L \in E /\ Len(fs.components) = last
      /\ \A j \in E : j <= L
  BY Shape DEF SinkIndex, IsFlow
<1>2. /\ \A l \in t.layers : c[l] \in 1 .. last
      /\ e.source \in t.layers /\ e.source \notin t.outputs
      /\ c[e.source] <= c[e.target] /\ c[e.target] = last
      /\ \A l \in t.inputs : c[l] = 1
      /\ \A l : l \in fs.components[last].layers
                  <=> l \in t.layers /\ c[l] = last /\ l \notin t.inputs /\ l \notin t.outputs
  <2>1. /\ \A l \in t.layers : c[l] \in 1 .. last
        /\ \A l \in t.inputs : c[l] = 1
        /\ \A l \in t.outputs : c[l] = last
    BY LayersOfAnswer
  <2>2. \A d \in t.edges : /\ d.source \in t.layers /\ d.source \notin t.outputs
                           /\ c[d.source] <= c[d.target]
    BY LayersOfAnswer
  <2>3. \A l : l \in fs.components[last].layers
                  <=> l \in t.layers /\ c[l] = last /\ l \notin t.inputs /\ l \notin t.outputs
    BY <1>1, LayersOfAnswer
  <2> QED BY <2>1, <2>2, <2>3
<1>3. c[e.source] \in 1 .. last
  BY <1>2
<1>4. CASE L = last
  <2>1. result_tensors(fs) = fs.components[last].outputs
    BY <1>1, <1>4 DEF result_tensors
  <2>2. last \in 1 .. last
    BY <1>1
  <2>3. x \in fs.components[last].outputs
    BY <1>2, <2>2, ContractOfAnswer
  <2> QED BY <2>1, <2>3
<1>5. CASE L = last - 1
  <2>1. last - 1 \in 1 .. last - 1 /\ last - 1 \in Nat /\ last # 1
    BY <1>1, <1>5
  <2>2. result_tensors(fs) = fs.cuts[last - 1]
    BY <1>1, <1>5, <2>1 DEF result_tensors
  <2>3. c[e.source] # last
    <3>1. last \notin E
      BY <1>1, <1>5
    <3>2. fs.components[last].layers = {}
      <4>1. last \in DOMAIN fs.components
        BY <1>1 DEF IsSolutionOf
      <4> QED BY <3>1, <4>1 DEF executable_components
    <3>3. c[e.source] = last => e.source \in t.inputs
      BY <1>2, <3>2
    <3> QED BY <1>2, <2>1, <3>3
  <2>4. c[e.source] <= last - 1 /\ last - 1 < c[e.target]
    BY <1>1, <1>2, <1>3, <2>3
  <2>5. x \in cut_tensors(Models[a.variant].tensor_routes, a, last - 1)
    BY <2>1, <2>4, CrossesCut
  <2> QED BY <2>1, <2>2, <2>5 DEF Carries
<1> QED BY <1>1, <1>4, <1>5
-----------------------------------------------------------------------------
(* The behaviours.                                                         *)

FlowSolutions == {[Extracted[a] EXCEPT !.flow = n] : a \in WellCut, n \in Nat}

\* Every flow of the solution is that of an answer placeable in the context.
AnswersInv ==
  /\ network \in Networks
  /\ answers \in Seq(WellCut) /\ requests \in Seq(Requests) /\ solution \in Seq(FlowSolutions)
  /\ Len(requests) = Len(answers) /\ Len(solution) = Len(answers)
  /\ \A k \in 1 .. Len(answers) :
       /\ placeable(context, requests[k], answers[k])
       /\ IsFlowOf(solution[k], answers[k])

Inv == AnswersInv /\ PlansInv

\* Backends and priorities change nothing else of a solution.
IsSolved(new, fs, last, priorities) ==
  /\ "components" \in DOMAIN new /\ DOMAIN new.components = 1 .. last
  /\ new.components = [i \in 1 .. last |-> new.components[i]]
  /\ new.ingress = fs.ingress /\ new.sink = fs.sink
  /\ new.variant = fs.variant /\ new.cuts = fs.cuts /\ new.flow = fs.flow
  /\ \A i \in 1 .. last :
       /\ new.components[i].worker = fs.components[i].worker
       /\ new.components[i].layers = fs.components[i].layers
       /\ new.components[i].inputs = fs.components[i].inputs
       /\ new.components[i].outputs = fs.components[i].outputs
       /\ new.components[i].priority = priorities[i]

PrioritiesOf(k) ==
  [i \in 1 .. component_last(answers[k]) |-> ByFlow(1)[<<k, i>>]]

LEMMA SolvedOf ==
  ASSUME AnswersInv
  PROVE  /\ DOMAIN Solved = 1 .. Len(answers)
         /\ \A k \in 1 .. Len(answers) :
              /\ answers[k] \in WellCut /\ IsFlowOf(solution[k], answers[k])
              /\ IsSolutionOf(solution[k], answers[k])
              /\ IsSolved(Solved[k], solution[k], component_last(answers[k]), PrioritiesOf(k))
<1> PICK backend, priority :
      Solved = extract_execution(backend, priority, solution) /\ priority = ByFlow(1)
  BY Zenon DEF Solved
<1> DEFINE executed(c, s) ==
      [worker |-> c.worker, layers |-> c.layers, inputs |-> c.inputs,
       outputs |-> c.outputs, backend |-> backend[c.worker], priority |-> priority[s]]
<1> PICK n \in Nat : n = Len(answers)
  BY DEF AnswersInv
<1>1. DOMAIN solution = 1 .. n
  BY DEF AnswersInv
<1>2. DOMAIN Solved = 1 .. n
      /\ \A k \in 1 .. n : Solved[k] =
           [solution[k] EXCEPT !.components =
              [i \in DOMAIN solution[k].components |->
                 executed(solution[k].components[i], <<k, i>>)]]
  BY <1>1 DEF extract_execution
<1>3. ASSUME NEW k \in 1 .. n
      PROVE  answers[k] \in WellCut /\ IsFlowOf(solution[k], answers[k])
  BY DEF AnswersInv
<1>4. ASSUME NEW k \in 1 .. n
      PROVE  IsSolutionOf(solution[k], answers[k])
  <2> PICK a : a = answers[k]
    OBVIOUS
  <2>1. PICK m \in Nat : solution[k] = [Extracted[a] EXCEPT !.flow = m]
    BY <1>3 DEF IsFlowOf
  <2>2. IsSolutionOf([Extracted[a] EXCEPT !.flow = m], a)
    BY <1>3, ExtractedFlow
  <2> QED BY <2>1, <2>2, Zenon
<1>5. ASSUME NEW k \in 1 .. n
      PROVE  IsSolved(Solved[k], solution[k], component_last(answers[k]), PrioritiesOf(k))
  <2> PICK fs : fs = solution[k]
    OBVIOUS
  <2> PICK last : last = component_last(answers[k])
    OBVIOUS
  <2> PICK made : made = [i \in DOMAIN fs.components |-> executed(fs.components[i], <<k, i>>)]
    OBVIOUS
  <2>1. "components" \in DOMAIN fs /\ DOMAIN fs.components = 1 .. last
    BY <1>4 DEF IsSolutionOf
  <2>2. Solved[k] = [fs EXCEPT !.components = made]
    <3> HIDE DEF executed
    <3> QED BY <1>2, ZenonT(40)
  <2>3. ASSUME NEW i \in 1 .. last
        PROVE  /\ made[i].worker = fs.components[i].worker
               /\ made[i].layers = fs.components[i].layers
               /\ made[i].inputs = fs.components[i].inputs
               /\ made[i].outputs = fs.components[i].outputs
               /\ made[i].priority = PrioritiesOf(k)[i]
    <3> PICK c, s : c = fs.components[i] /\ s = <<k, i>>
      OBVIOUS
    <3>1. made[i] = executed(c, s)
      BY <2>1
    <3>2. /\ executed(c, s).worker = c.worker /\ executed(c, s).layers = c.layers
          /\ executed(c, s).inputs = c.inputs /\ executed(c, s).outputs = c.outputs
          /\ executed(c, s).priority = priority[s]
      OBVIOUS
    <3>3. PrioritiesOf(k)[i] = priority[s]
      BY DEF PrioritiesOf
    <3> QED BY <3>1, <3>2, <3>3, Zenon
  <2> HIDE DEF executed
  <2>4. DOMAIN made = 1 .. last /\ made = [i \in 1 .. last |-> made[i]]
    BY <2>1
  <2> PICK new : new = Solved[k]
    OBVIOUS
  <2>5. /\ "components" \in DOMAIN new /\ new.components = made
        /\ new.ingress = fs.ingress /\ new.sink = fs.sink
        /\ new.variant = fs.variant /\ new.cuts = fs.cuts /\ new.flow = fs.flow
    BY <2>1, <2>2
  <2>6. IsSolved(new, fs, last, PrioritiesOf(k))
    <3>1. /\ DOMAIN new.components = 1 .. last
          /\ new.components = [i \in 1 .. last |-> new.components[i]]
      BY <2>4, <2>5
    <3>2. \A i \in 1 .. last :
            /\ new.components[i].worker = fs.components[i].worker
            /\ new.components[i].layers = fs.components[i].layers
            /\ new.components[i].inputs = fs.components[i].inputs
            /\ new.components[i].outputs = fs.components[i].outputs
            /\ new.components[i].priority = PrioritiesOf(k)[i]
      <4> SUFFICES ASSUME NEW i \in 1 .. last
                   PROVE  /\ new.components[i].worker = fs.components[i].worker
                          /\ new.components[i].layers = fs.components[i].layers
                          /\ new.components[i].inputs = fs.components[i].inputs
                          /\ new.components[i].outputs = fs.components[i].outputs
                          /\ new.components[i].priority = PrioritiesOf(k)[i]
        OBVIOUS
      <4>1. new.components[i] = made[i]
        BY <2>5, Zenon
      <4>2. /\ made[i].worker = fs.components[i].worker
            /\ made[i].layers = fs.components[i].layers
            /\ made[i].inputs = fs.components[i].inputs
            /\ made[i].outputs = fs.components[i].outputs
            /\ made[i].priority = PrioritiesOf(k)[i]
        BY <2>3
      <4> HIDE <2>3
      <4> QED BY <4>1, <4>2, Zenon
    <3> QED BY <2>5, <3>1, <3>2, Zenon DEF IsSolved
  <2> QED BY <2>6
<1> QED BY <1>2, <1>3, <1>4, <1>5

LEMMA SolvedFlows ==
  ASSUME AnswersInv
  PROVE  /\ DOMAIN Solved = 1 .. Len(answers)
         /\ \A k \in 1 .. Len(answers) : IsSolutionOf(Solved[k], answers[k])
<1> SUFFICES ASSUME NEW k \in 1 .. Len(answers) PROVE IsSolutionOf(Solved[k], answers[k])
  BY SolvedOf
<1> PICK fs, a, new : fs = solution[k] /\ a = answers[k] /\ new = Solved[k]
  OBVIOUS
<1> PICK last : last = component_last(a)
  OBVIOUS
<1>1. IsSolutionOf(fs, a) /\ IsSolved(new, fs, last, PrioritiesOf(k))
  BY SolvedOf
<1>2. /\ fs.ingress = a.worker_of[1] /\ fs.sink = a.worker_of[last]
      /\ \A i \in 1 .. last :
           /\ fs.components[i].worker = a.worker_of[i]
           /\ fs.components[i].layers = layers_of(a, i) \ boundary(Models[a.variant].topology)
  BY <1>1, Zenon DEF IsSolutionOf
<1>3. /\ "components" \in DOMAIN new /\ DOMAIN new.components = 1 .. last
      /\ new.components = [i \in 1 .. last |-> new.components[i]]
      /\ new.ingress = fs.ingress /\ new.sink = fs.sink
      /\ \A i \in 1 .. last : /\ new.components[i].worker = fs.components[i].worker
                              /\ new.components[i].layers = fs.components[i].layers
  BY <1>1, Zenon DEF IsSolved
<1>4. \A i \in 1 .. last :
        /\ new.components[i].worker = a.worker_of[i]
        /\ new.components[i].layers = layers_of(a, i) \ boundary(Models[a.variant].topology)
  <2> SUFFICES ASSUME NEW i \in 1 .. last
               PROVE  /\ new.components[i].worker = a.worker_of[i]
                      /\ new.components[i].layers
                           = layers_of(a, i) \ boundary(Models[a.variant].topology)
    OBVIOUS
  <2> PICK executes : executes = layers_of(a, i) \ boundary(Models[a.variant].topology)
    OBVIOUS
  <2>1. fs.components[i].worker = a.worker_of[i] /\ fs.components[i].layers = executes
    BY <1>2, Zenon
  <2>2. /\ new.components[i].worker = fs.components[i].worker
        /\ new.components[i].layers = fs.components[i].layers
    BY <1>3, Zenon
  <2> QED BY <2>1, <2>2, Zenon
<1>5. new.ingress = a.worker_of[1] /\ new.sink = a.worker_of[last]
  BY <1>2, <1>3, Zenon
<1> QED BY <1>3, <1>4, <1>5, Zenon DEF IsSolutionOf

LEMMA InitInv == Init => Inv
<1> SUFFICES ASSUME Init PROVE Inv
  OBVIOUS
<1>1. /\ answers \in Seq(WellCut) /\ requests \in Seq(Requests) /\ solution \in Seq(FlowSolutions)
      /\ Len(requests) = 0 /\ Len(answers) = 0 /\ Len(solution) = 0 /\ plans = <<>>
  BY DEF Init
<1> QED BY <1>1 DEF Init, Inv, AnswersInv, PlansInv

LEMMA AddFlowStep ==
  ASSUME AnswersInv, AddFlow
  PROVE  AnswersInv' /\ PlansInv'
<1>1. PICK r \in Requests : \E a \in Admissible[network][r] :
        /\ requests' = Append(requests, r)
        /\ answers' = Append(answers, a)
        /\ solution' = Append(solution, [Extracted[a] EXCEPT !.flow = Len(solution) + 1])
  BY DEF AddFlow
<1>2. PICK a \in Admissible[network][r] :
        /\ requests' = Append(requests, r)
        /\ answers' = Append(answers, a)
        /\ solution' = Append(solution, [Extracted[a] EXCEPT !.flow = Len(solution) + 1])
  BY <1>1
<1>3. network' = network /\ plans' = <<>>
  BY DEF AddFlow
<1>4. a \in WellCut /\ placeable(context, r, a)
  <2>1. Admissible[network][r] = {b \in WellCut : placeable(context, r, b)}
    BY DEF AnswersInv, Admissible, context
  <2> QED BY <2>1
<1>5. context' = context
  BY <1>3 DEF context
<1> PICK n \in Nat : n = Len(answers)
  BY DEF AnswersInv
<1> PICK fs : fs = [Extracted[a] EXCEPT !.flow = Len(solution) + 1]
  OBVIOUS
<1>6. fs \in FlowSolutions /\ IsFlowOf(fs, a)
  <2>1. PICK m \in Nat : m = Len(solution) + 1
    BY DEF AnswersInv
  <2>2. fs = [Extracted[a] EXCEPT !.flow = m]
    BY <2>1
  <2>3. fs \in FlowSolutions
    BY <1>4, <2>2 DEF FlowSolutions
  <2>4. IsFlowOf(fs, a)
    BY <2>2 DEF IsFlowOf
  <2> QED BY <2>3, <2>4
<1>7. /\ requests \in Seq(Requests) /\ answers \in Seq(WellCut) /\ solution \in Seq(FlowSolutions)
      /\ Len(requests) = n /\ Len(solution) = n /\ Len(answers) = n
  BY DEF AnswersInv
<1>8. /\ requests' \in Seq(Requests) /\ answers' \in Seq(WellCut) /\ solution' \in Seq(FlowSolutions)
      /\ Len(requests') = n + 1 /\ Len(answers') = n + 1 /\ Len(solution') = n + 1
  BY <1>2, <1>4, <1>6, <1>7
<1>9. /\ \A k \in 1 .. n : /\ requests'[k] = requests[k] /\ answers'[k] = answers[k]
                           /\ solution'[k] = solution[k]
      /\ requests'[n + 1] = r /\ answers'[n + 1] = a /\ solution'[n + 1] = fs
  BY <1>2, <1>4, <1>6, <1>7
<1>10. ASSUME NEW k \in 1 .. n + 1
       PROVE  /\ placeable(context, requests'[k], answers'[k])
              /\ IsFlowOf(solution'[k], answers'[k])
  <2>1. CASE k \in 1 .. n
    BY <1>9, <2>1 DEF AnswersInv
  <2>2. CASE k = n + 1
    BY <1>4, <1>6, <1>9, <2>2
  <2> QED BY <2>1, <2>2
<1>11. \A k \in 1 .. Len(answers') :
         /\ placeable(context, requests[k], answers[k])'
         /\ IsFlowOf(solution[k], answers[k])'
  <2>1. \A c, q, b : c = context' /\ q = context => (c = q)
    BY <1>5
  <2> QED BY <1>5, <1>8, <1>10
<1> QED BY <1>3, <1>8, <1>11 DEF AnswersInv, PlansInv

LEMMA ConvertStep ==
  ASSUME AnswersInv, Convert
  PROVE  PlansInv'
<1>1. convertible(Solved) /\ plans' = worker_plans(Solved)
      /\ UNCHANGED <<network, requests, answers, solution>>
  BY DEF Convert
<1>2. Solved' = Solved
  BY <1>1 DEF Solved, ByFlow
<1>3. IsSolution(Solved)
  <2>1. DOMAIN Solved = 1 .. Len(answers) /\ Len(answers) \in Nat
    BY SolvedFlows DEF AnswersInv
  <2>2. ASSUME NEW k \in DOMAIN Solved PROVE IsFlow(Solved[k])
    <3>1. executable_components(Solved[k]) # {}
      BY <1>1 DEF convertible
    <3>2. answers[k] \in WellCut /\ IsSolutionOf(Solved[k], answers[k])
      BY <2>1, SolvedFlows DEF AnswersInv
    <3> QED BY <3>1, <3>2, FlowOfAnswer
  <2> QED BY <2>1, <2>2 DEF IsSolution
<1>4. \A sol : /\ sol = Solved' /\ sol = Solved /\ IsSolution(sol)
               /\ plans' = worker_plans(sol) /\ consistent_schemes(sol)
               => PlansInv'
  BY DEF PlansInv
<1>5. consistent_schemes(Solved)
  BY <1>1 DEF convertible
<1> QED BY <1>1, <1>2, <1>3, <1>4, <1>5

LEMMA Invariance == Spec => []Inv
<1>1. Init => Inv
  BY InitInv
<1>2. Inv /\ [Next]_vars => Inv'
  <2> SUFFICES ASSUME Inv, [Next]_vars PROVE Inv'
    OBVIOUS
  <2>1. CASE AddFlow
    BY <2>1, AddFlowStep DEF Inv
  <2>2. CASE Convert
    <3>1. AnswersInv'
      BY <2>2 DEF Inv, AnswersInv, Convert, context
    <3> QED BY <2>2, <3>1, ConvertStep DEF Inv
  <2>3. CASE UNCHANGED vars
    BY <2>3 DEF Inv, AnswersInv, PlansInv, vars, context, Solved, ByFlow
  <2> QED BY <2>1, <2>2, <2>3 DEF Next
<1> QED BY <1>1, <1>2, PTL DEF Spec

-----------------------------------------------------------------------------
(* A route leaves a component for itself or the one that follows it, as no *)
(* component but the first and the last executes nothing.                  *)

LEMMA RoutesOfPlansFollow ==
  ASSUME AnswersInv, PlansInv
  PROVE  RoutesFollowConnections
<1> SUFFICES ASSUME NEW p \in Placed, NEW out \in RoutingsOf(p).output, NEW q \in Placed,
                    AddressOf(q) = out.destination
             PROVE  p[1] = q[1] \/ <<p[1], q[1]>> \in context.connections
  BY DEF RoutesFollowConnections
<1> PICK sol : sol = Solved
  OBVIOUS
<1> PICK k, i : k = p[2][1] /\ i = p[2][2]
  OBVIOUS
<1>1. /\ IsSolution(sol) /\ p[2] \in SlotsOf(sol)
      /\ p = <<worker_at(sol, p[2]), p[2]>> /\ q = <<worker_at(sol, q[2]), q[2]>>
      /\ out \in output_routings(sol, k, i)
  BY PlacedSlots DEF PlansInv
<1>2. /\ p[2] = <<k, i>> /\ k \in DOMAIN sol /\ IsFlow(sol[k])
      /\ i \in {0} \cup Receiving(sol[k])
  BY <1>1, ASlot
<1>3. i \in Sending(sol[k])
  <2>1. i # SinkIndex(sol[k])
    BY <1>1 DEF output_routings
  <2> QED BY <1>2, <2>1 DEF Sending, Receiving
<1> PICK fs : fs = sol[k]
  OBVIOUS
<1> PICK j : j = next(fs, i)
  OBVIOUS
<1>4. /\ j \in Receiving(fs) /\ j > i
      /\ \A m \in executable_components(fs) : m > i => j <= m
  BY <1>2, <1>3, NextInChain
<1>5. q = <<worker_at(sol, <<k, j>>), <<k, j>>>>
  <2> PICK there : there = <<worker_at(sol, <<k, j>>), <<k, j>>>>
    OBVIOUS
  <2>1. out.destination = address(sol, <<k, j>>)
    BY <1>1, <1>2, <1>3, RouteEnds
  <2>2. there \in Placed /\ AddressOf(there) = address(sol, <<k, j>>)
    <3>1. plans # <<>> /\ <<k, j>> \in SlotsOf(sol)
      BY <1>2, <1>4, SlotOf, PlacedSlots
    <3> QED BY <3>1, PlacedSlots
  <2>3. HopOf(q) = HopOf(there)
    BY <2>1, <2>2 DEF HopOf, AddressOf
  <2> QED BY <2>2, <2>3, HopsOfPlansDiffer
<1> PICK a : a = answers[k]
  OBVIOUS
<1> PICK last : last = component_last(a)
  OBVIOUS
<1>6. /\ a \in WellCut /\ IsSolutionOf(fs, a) /\ executable_components(fs) # {}
      /\ placeable(context, requests[k], a)
  BY <1>1, <1>2, SolvedFlows DEF AnswersInv, IsFlow
<1>7. /\ Len(fs.components) = last /\ components(a) = 1 .. last /\ last \in Nat
      /\ \A m \in 1 .. last : m \in {1, last} \cup executable_components(fs)
      /\ executable_components(fs) \subseteq 1 .. last
  BY <1>2, <1>6, FlowOfAnswer, ExecutedEnds DEF IsFlow
<1>8. last >= 1
  BY <1>6, <1>7
<1> PICK x : x = IF i = 0 THEN 1 ELSE i
  OBVIOUS
<1> PICK y : y = IF j = SinkIndex(fs) THEN last ELSE j
  OBVIOUS
<1>9. worker_at(sol, <<k, i>>) = a.worker_of[x]
  <2>1. i # SinkIndex(fs) /\ (i # 0 => i \in 1 .. last)
    BY <1>2, <1>3, <1>7, SlotsApart DEF Sending
  <2> QED BY <1>6, <2>1 DEF worker_at, IsSolutionOf
<1>10. worker_at(sol, <<k, j>>) = a.worker_of[y]
  <2>1. j # 0 /\ (j # SinkIndex(fs) => j \in 1 .. last)
    BY <1>2, <1>4, <1>7, SlotsApart DEF Receiving
  <2> QED BY <1>6, <2>1 DEF worker_at, IsSolutionOf
<1>11. x \in 1 .. last /\ y \in 1 .. last /\ (y = x \/ y = x + 1)
  <2>1. /\ i \in 0 .. last /\ j \in 1 .. last + 1 /\ SinkIndex(fs) = last + 1
    BY <1>3, <1>4, <1>7 DEF Sending, Receiving, SinkIndex
  <2>2. x \in 1 .. last /\ y \in 1 .. last /\ x <= y
    BY <1>4, <1>7, <1>8, <2>1
  <2>3. ASSUME y > x + 1 PROVE FALSE
    <3>1. x + 1 \in 1 .. last /\ x + 1 # 1 /\ x + 1 # last
      BY <2>2, <2>3
    <3>2. x + 1 \in executable_components(fs) /\ x + 1 > i
      BY <1>7, <2>1, <3>1
    <3>3. j <= x + 1
      BY <1>4, <3>2
    <3> QED BY <2>1, <2>2, <2>3, <3>1, <3>3
  <2> QED BY <2>2, <2>3
<1>12. CASE y = x
  BY <1>1, <1>2, <1>5, <1>9, <1>10, <1>12
<1>13. CASE y = x + 1
  <2>1. y \in components(a) \ {1} /\ x = y - 1
    BY <1>7, <1>11, <1>13
  <2>2. \/ a.worker_of[x] = a.worker_of[y]
        \/ <<a.worker_of[x], a.worker_of[y]>> \in context.connections
    BY <1>6, <2>1 DEF placeable, transition_marginals
  <2>3. p[1] = a.worker_of[x] /\ q[1] = a.worker_of[y]
    <3>1. p[1] = worker_at(sol, <<k, i>>)
      BY <1>1, <1>2
    <3>2. q[1] = worker_at(sol, <<k, j>>)
      BY <1>5
    <3> QED BY <1>9, <1>10, <3>1, <3>2, Zenon
  <2> QED BY <1>1, <2>2, <2>3
<1> QED BY <1>11, <1>12, <1>13

-----------------------------------------------------------------------------
(* What the extraction and the conversion check of a solution.             *)

LEMMA SolvedCarries ==
  ASSUME AnswersInv, NEW k \in 1 .. Len(answers)
  PROVE  Carries(Solved[k], answers[k]) /\ Solved[k].variant = answers[k].variant
<1> PICK fs, a, new : fs = solution[k] /\ a = answers[k] /\ new = Solved[k]
  OBVIOUS
<1> PICK last : last = component_last(a)
  OBVIOUS
<1>1. a \in WellCut /\ IsFlowOf(fs, a) /\ IsSolved(new, fs, last, PrioritiesOf(k))
  BY SolvedOf
<1>2. Carries(fs, a)
  BY <1>1, ExtractedCarries
<1>3. /\ new.variant = fs.variant /\ new.cuts = fs.cuts
      /\ \A i \in 1 .. last : /\ new.components[i].inputs = fs.components[i].inputs
                              /\ new.components[i].outputs = fs.components[i].outputs
  BY <1>1, Zenon DEF IsSolved
<1>4. new.variant = a.variant /\ fs.variant = a.variant
  BY <1>2, <1>3, Zenon DEF Carries
<1>5. \A i \in 1 .. last :
        LET contract == component_tensor_contract(Models[a.variant].topology, layers_of(a, i)) IN
        new.components[i].inputs = contract.inputs /\ new.components[i].outputs = contract.outputs
  <2> SUFFICES ASSUME NEW i \in 1 .. last, NEW contract,
                      contract = component_tensor_contract(Models[a.variant].topology, layers_of(a, i))
               PROVE  /\ new.components[i].inputs = contract.inputs
                      /\ new.components[i].outputs = contract.outputs
    BY ZenonT(40)
  <2>1. /\ fs.components[i].inputs = contract.inputs
        /\ fs.components[i].outputs = contract.outputs
    BY <1>2, Zenon DEF Carries
  <2> QED BY <1>3, <2>1, Zenon
<1>6. \A i \in 1 .. last - 1 : new.cuts[i] = cut_tensors(Models[a.variant].tensor_routes, a, i)
  BY <1>2, <1>3, Zenon DEF Carries
<1> QED BY <1>4, <1>5, <1>6, Zenon DEF Carries

LEMMA ContextFacts ==
  ASSUME AnswersInv
  PROVE  context.models = Models
BY DEF AnswersInv, context, ContextOf, Context

\* Nothing is executed at a worker that only relays, and the endpoints are where
\* the request wants them.
LEMMA PlacementsAreKept ==
  ASSUME AnswersInv, NEW k \in 1 .. Len(answers)
  PROVE  placements_are_kept(requests[k], solution[k])
<1> PICK fs, a, r : fs = solution[k] /\ a = answers[k] /\ r = requests[k]
  OBVIOUS
<1> PICK last : last = component_last(a)
  OBVIOUS
<1> PICK t : t = Models[a.variant].topology
  OBVIOUS
<1>1. /\ a \in WellCut /\ IsSolutionOf(fs, a) /\ r \in Requests /\ placeable(context, r, a)
  BY SolvedOf DEF AnswersInv
<1>2. components(a) = 1 .. last
  BY <1>1, Shape
<1>3. /\ r.ingress.fixed => fs.ingress = r.ingress.worker
      /\ r.sink.fixed => fs.sink = r.sink.worker
  BY <1>1 DEF placeable, endpoint_placement, IsSolutionOf
<1>4. ASSUME NEW i \in 1 .. last, fs.components[i].worker \in r.relay
      PROVE  fs.components[i].layers = {}
  <2> PICK w : w = a.worker_of[i]
    OBVIOUS
  <2>1. fs.components[i].worker = w /\ fs.components[i].layers = layers_of(a, i) \ boundary(t)
    BY <1>1 DEF IsSolutionOf
  <2>2. r.relay = {w}
    BY <1>1, <1>4, <2>1 DEF Requests, Request
  <2>3. ASSUME NEW l \in layers_of(a, i) PROVE l \in boundary(t)
    <3>1. l \in DOMAIN a.component_of /\ a.component_of[l] = i
      BY DEF layers_of
    <3>2. l \in available(context, r, a.variant, w)
      BY <1>1, <3>1 DEF placeable, supported
    <3>3. l \in boundary(context.models[a.variant].topology)
      BY <2>2, <3>2 DEF available
    <3> QED BY <3>3, ContextFacts
  <2> QED BY <2>1, <2>3
<1>5. DOMAIN fs.components = 1 .. last
  BY <1>1 DEF IsSolutionOf
<1> QED BY <1>3, <1>4, <1>5 DEF placements_are_kept

LEMMA PrioritiesArePositive ==
  ASSUME NEW k \in DOMAIN answers, components(answers[k]) = 1 .. component_last(answers[k]),
         NEW i \in 1 .. component_last(answers[k])
  PROVE  PrioritiesOf(k)[i] \in {1, 2}
<1>1. <<k, i>> \in UNION {{f} \X components(answers[f]) : f \in DOMAIN answers}
  <2>1. <<k, i>> \in {k} \X components(answers[k])
    OBVIOUS
  <2> QED BY <2>1
<1>2. ByFlow(1)[<<k, i>>] \in {1, 2}
  BY <1>1 DEF ByFlow
<1> QED BY <1>2 DEF PrioritiesOf

LEMMA FlowSolutionsAreValid ==
  ASSUME AnswersInv, NEW k \in 1 .. Len(answers)
  PROVE  flow_solution_is_valid(Models[answers[k].variant].topology, answers[k], Solved[k])
<1> PICK fs, a, new : fs = solution[k] /\ a = answers[k] /\ new = Solved[k]
  OBVIOUS
<1> PICK last : last = component_last(a)
  OBVIOUS
<1> PICK t : t = Models[a.variant].topology
  OBVIOUS
<1>1. /\ a \in WellCut /\ IsSolutionOf(new, a) /\ IsSolved(new, fs, last, PrioritiesOf(k))
  BY SolvedOf, SolvedFlows
<1>2. /\ last \in Nat \ {0} /\ components(a) = 1 .. last /\ SinkIndex(new) = last + 1
      /\ IsFlow(new) /\ DOMAIN new.components = 1 .. last
  BY <1>1, Shape DEF IsSolutionOf
<1>3. Len(new.components) = last
  BY <1>2 DEF SinkIndex, IsFlow
<1>4. new.components # <<>>
  BY <1>2
<1>5. 1 \in 1 .. last /\ last \in 1 .. last
  BY <1>2
<1>6. new.components[1].worker = new.ingress /\ new.components[last].worker = new.sink
  BY <1>1, <1>5 DEF IsSolutionOf
<1>7. ASSUME NEW i \in 1 .. last PROVE new.components[i].priority > 0
  <2>1. PrioritiesOf(k)[i] \in {1, 2}
    <3>1. k \in DOMAIN answers
      BY DEF AnswersInv
    <3> QED BY <1>2, <3>1, PrioritiesArePositive
  <2>2. new.components[i].priority = PrioritiesOf(k)[i]
    BY <1>1, Zenon DEF IsSolved
  <2> QED BY <2>1, <2>2
<1>8. t.inputs \cap t.outputs = {}
  BY <1>1, CutFacts, ModelFacts DEF IsDataFlow
<1> QED BY <1>2, <1>3, <1>4, <1>6, <1>7, <1>8 DEF flow_solution_is_valid

\* No component between two that execute something executes nothing.
LEMMA FlowsAreCollapsible ==
  ASSUME NEW a \in WellCut, NEW fs, IsSolutionOf(fs, a)
  PROVE  collapsible(fs)
<1> PICK last : last = component_last(a)
  OBVIOUS
<1> PICK E, L : E = executable_components(fs) /\ L = LastExecuted(fs)
  OBVIOUS
<1>1. /\ IsFlow(fs) /\ last \in Nat \ {0} /\ E \subseteq 1 .. last /\ 2 .. last - 1 \subseteq E
      /\ L \in {last - 1, last} /\ L \in E /\ \A j \in E : j <= L
      /\ SinkIndex(fs) = last + 1
  BY Shape
<1>2. ASSUME NEW i \in E \ {L}, NEW j \in i .. next(fs, i) - 1
      PROVE  j = i
  <2> PICK n : n = next(fs, i)
    OBVIOUS
  <2>1. n \in E \cup {last + 1} /\ n > i /\ \A m \in E : m > i => n <= m
    BY <1>1, NextInChain DEF Sending, Receiving
  <2>2. i + 1 \in E
    BY <1>1
  <2>3. n <= i + 1
    BY <1>1, <2>1, <2>2
  <2> QED BY <1>1, <2>1, <2>3
<1> QED BY <1>2 DEF collapsible

LEMMA AnswersOfInvAccepted ==
  ASSUME AnswersInv
  PROVE  AnswersAreAccepted
<1> SUFFICES ASSUME NEW k \in DOMAIN solution
             PROVE  /\ placements_are_kept(requests[k], solution[k])
                    /\ flow_solution_is_valid(Topology(k), answers[k], Solved[k])
                    /\ executable_components(solution[k]) # {}
                    /\ collapsible(solution[k])
  BY DEF AnswersAreAccepted
<1>1. k \in 1 .. Len(answers)
  BY DEF AnswersInv
<1>2. /\ answers[k] \in WellCut /\ IsFlowOf(solution[k], answers[k])
      /\ IsSolutionOf(solution[k], answers[k])
  BY <1>1, SolvedOf
<1>3. Topology(k) = Models[answers[k].variant].topology
  <2>1. solution[k].variant = answers[k].variant
    BY <1>2, ExtractedCarries DEF Carries
  <2> QED BY <2>1 DEF Topology
<1>4. executable_components(solution[k]) # {}
  BY <1>2, Shape DEF IsFlow
<1> QED BY <1>1, <1>2, <1>3, <1>4, PlacementsAreKept, FlowSolutionsAreValid, FlowsAreCollapsible

-----------------------------------------------------------------------------
(* The context that travels.                                               *)

LEMMA HopsOfSlots ==
  ASSUME AnswersInv, PlansInv, NEW p \in Placed
  PROVE  \E k \in 1 .. Len(answers) : \E i \in {0} \cup Receiving(Solved[k]) :
           /\ plans # <<>> /\ p[2] = <<k, i>> /\ p[1] = worker_at(Solved, p[2])
           /\ Topology(p[2][1]) = Models[answers[k].variant].topology
           /\ Received(p) = received(Solved[k], i)
           /\ HopOf(p).kind = "ingress" <=> i = 0
           /\ HopOf(p).kind = "sink" <=> i = SinkIndex(Solved[k])
           /\ HopOf(p).kind = "partition" <=> i \in executable_components(Solved[k])
           /\ HopOf(p).kind = "partition" => HopOf(p).of = partition_id(Solved[k], i)
<1> PICK sol, s : sol = Solved /\ s = p[2]
  OBVIOUS
<1>1. /\ plans # <<>> /\ IsSolution(sol) /\ s \in SlotsOf(sol) /\ p[1] = worker_at(sol, s)
      /\ HopOf(p) = hop_at(sol, s)
      /\ RoutingsOf(p).input = input_routing(sol, s[1], s[2])
  BY PlacedSlots DEF PlansInv
<1> PICK k, i : k = s[1] /\ i = s[2]
  OBVIOUS
<1> PICK new : new = sol[k]
  OBVIOUS
<1>2. s = <<k, i>> /\ k \in DOMAIN sol /\ IsFlow(new) /\ i \in {0} \cup Receiving(new)
  BY <1>1, ASlot
<1>3. k \in 1 .. Len(answers)
  BY <1>2, SolvedFlows
<1>4. answers[k] \in WellCut /\ IsSolutionOf(new, answers[k]) /\ IsFlowOf(solution[k], answers[k])
  BY <1>3, SolvedFlows, SolvedOf
<1>5. Topology(k) = Models[answers[k].variant].topology
  <2>1. solution[k].variant = answers[k].variant
    BY <1>4, ExtractedCarries DEF Carries
  <2> QED BY <2>1 DEF Topology
<1>6. Received(p) = received(new, i)
  <2>1. Received(p) = input_routing(sol, k, i).tensors
    BY <1>1 DEF Received
  <2>2. input_routing(sol, k, i).tensors = received(sol[k], i)
    BY <1>2, <1>4, ReceivedTensors
  <2> QED BY <2>1, <2>2
<1>7. /\ 0 \notin executable_components(new) /\ SinkIndex(new) \notin executable_components(new)
      /\ SinkIndex(new) # 0
  BY <1>2, SlotsApart DEF Sending, Receiving
<1>8. /\ HopOf(p).kind = "ingress" <=> i = 0
      /\ HopOf(p).kind = "sink" <=> i = SinkIndex(new)
      /\ HopOf(p).kind = "partition" <=> i \in executable_components(new)
      /\ HopOf(p).kind = "partition" => HopOf(p).of = partition_id(new, i)
  <2>1. /\ ingress_id(sol, k).kind = "ingress" /\ sink_id(sol, k).kind = "sink"
        /\ replica_id(sol, s).kind = "partition" /\ replica_id(sol, s).of = partition_id(new, i)
    BY DEF ingress_id, sink_id, endpoint_id, replica_id
  <2>2. /\ i = 0 => HopOf(p) = ingress_id(sol, k)
        /\ i = SinkIndex(new) => HopOf(p) = sink_id(sol, k)
        /\ i \in executable_components(new) => HopOf(p) = replica_id(sol, s)
        /\ i = 0 \/ i = SinkIndex(new) \/ i \in executable_components(new)
    BY <1>1, HopKinds
  <2> QED BY <1>7, <2>1, <2>2
<1> QED BY <1>1, <1>2, <1>3, <1>5, <1>6, <1>8

\* The scheme a worker has for a partition is its component's, also if another flow
\* shares the partition.
LEMMA SchemeOfPartition ==
  ASSUME NEW sol, IsSolution(sol), consistent_schemes(sol),
         NEW k \in DOMAIN sol, NEW i \in executable_components(sol[k]),
         NEW w, w = worker_at(sol, <<k, i>>)
  PROVE  (CHOOSE s \in worker_plans(sol)[w].schemes : s.partition = partition_id(sol[k], i)).inputs
           = sol[k].components[i].inputs
<1> PICK s : s = <<k, i>>
  OBVIOUS
<1>1. IsFlow(sol[k]) /\ i # 0 /\ i # SinkIndex(sol[k])
  <2>1. IsFlow(sol[k])
    BY DEF IsSolution
  <2> QED BY <2>1, SlotsApart DEF Sending, Receiving
<1>2. s \in SlotsOf(sol)
  BY SlotOf DEF Receiving
<1>3. w = sol[k].components[i].worker /\ w \in involved_workers(sol)
  BY <1>1, <1>2, Placement DEF worker_at
<1>4. s \in executable_slots(sol, w)
  BY <1>2, <1>3, ExecutableSlot DEF executable_slots
<1> PICK own : own = [partition |-> partition_id(sol[k], i),
                      inputs |-> sol[k].components[i].inputs,
                      outputs |-> sol[k].components[i].outputs]
  OBVIOUS
<1>5. own \in schemes(sol, w)
  BY <1>4 DEF schemes
<1>6. worker_plans(sol)[w].schemes = schemes(sol, w)
  <2>1. worker_plans(sol)[w] = worker_plan(sol, w)
    BY <1>3 DEF worker_plans
  <2> QED BY <2>1 DEF worker_plan
<1> PICK c : c = CHOOSE p \in schemes(sol, w) : p.partition = partition_id(sol[k], i)
  OBVIOUS
<1>7. own.partition = partition_id(sol[k], i)
  OBVIOUS
<1>8. c \in schemes(sol, w) /\ c.partition = partition_id(sol[k], i)
  <2> HIDE DEF schemes
  <2> QED BY <1>5, <1>7
<1>9. c = own
  BY <1>3, <1>5, <1>7, <1>8 DEF consistent_schemes
<1>10. c.inputs = sol[k].components[i].inputs
  <2>1. own.inputs = sol[k].components[i].inputs
    OBVIOUS
  <2> QED BY <1>9, <2>1, Zenon
<1>11. (CHOOSE p \in worker_plans(sol)[w].schemes : p.partition = partition_id(sol[k], i)) = c
  <2> HIDE DEF schemes, worker_plans, partition_id
  <2> QED BY <1>6, Zenon
<1> QED
  <2> HIDE DEF schemes, worker_plans, partition_id
  <2> QED BY <1>10, <1>11, Zenon

LEMMA ContextOfPlansIsCarried ==
  ASSUME AnswersInv, PlansInv
  PROVE  ContextIsCarried
<1> SUFFICES ASSUME NEW p \in Placed
             PROVE  LET t == Topology(p[2][1])
                        hop == HopOf(p)
                    IN
                    /\ \A out \in RoutingsOf(p).output :
                         out.tensors \subseteq Received(p) \cup Made(p)
                    /\ hop.kind = "partition" =>
                         LET scheme == CHOOSE s \in plans[p[1]].schemes : s.partition = hop.of
                         IN /\ scheme.inputs \subseteq Received(p)
                            /\ extract_incoming(t, hop.of.layers) \subseteq scheme.inputs
                    /\ hop.kind = "sink" =>
                         UNION {e.tensors : e \in {d \in t.edges : d.target \in t.outputs}}
                           \subseteq Received(p)
                    /\ hop.kind = "ingress" => Received(p) = input_tensor_properties(t)
  BY Zenon DEF ContextIsCarried
<1>1. PICK k \in 1 .. Len(answers) : \E i \in {0} \cup Receiving(Solved[k]) :
           /\ plans # <<>> /\ p[2] = <<k, i>> /\ p[1] = worker_at(Solved, p[2])
           /\ Topology(p[2][1]) = Models[answers[k].variant].topology
           /\ Received(p) = received(Solved[k], i)
           /\ HopOf(p).kind = "ingress" <=> i = 0
           /\ HopOf(p).kind = "sink" <=> i = SinkIndex(Solved[k])
           /\ HopOf(p).kind = "partition" <=> i \in executable_components(Solved[k])
           /\ HopOf(p).kind = "partition" => HopOf(p).of = partition_id(Solved[k], i)
  BY HopsOfSlots
<1> PICK sol, fs, a : sol = Solved /\ fs = Solved[k] /\ a = answers[k]
  OBVIOUS
<1> PICK t : t = Topology(p[2][1])
  OBVIOUS
<1>2. PICK i \in {0} \cup Receiving(fs) :
           /\ plans # <<>> /\ p[2] = <<k, i>> /\ p[1] = worker_at(sol, p[2])
           /\ t = Models[a.variant].topology
           /\ Received(p) = received(fs, i)
           /\ HopOf(p).kind = "ingress" <=> i = 0
           /\ HopOf(p).kind = "sink" <=> i = SinkIndex(fs)
           /\ HopOf(p).kind = "partition" <=> i \in executable_components(fs)
           /\ HopOf(p).kind = "partition" => HopOf(p).of = partition_id(fs, i)
  BY <1>1
<1>3. /\ a \in WellCut /\ IsSolutionOf(fs, a) /\ Carries(fs, a) /\ k \in DOMAIN sol
  BY SolvedOf, SolvedFlows, SolvedCarries
<1>4. IsSolution(sol) /\ consistent_schemes(sol) /\ plans = worker_plans(sol)
  BY <1>2 DEF PlansInv
<1>5. IsFlow(fs)
  BY <1>3, <1>4 DEF IsSolution
<1>6. partition_id(fs, i).layers = fs.components[i].layers
  BY DEF partition_id
<1>7. ASSUME NEW out \in RoutingsOf(p).output
      PROVE  out.tensors \subseteq Received(p) \cup Made(p)
  <2>1. out \in output_routings(sol, k, i)
    BY <1>2, PlacedSlots
  <2>2. i # SinkIndex(fs) /\ out.tensors = tensors_from(fs, i)
    BY <2>1 DEF output_routings
  <2>3. CASE i = 0
    BY <1>2, <2>2, <2>3 DEF tensors_from, received
  <2>4. CASE i \in executable_components(fs)
    <3>1. Made(p) = extract_outgoing(t, fs.components[i].layers)
      BY <1>2, <1>6, <2>4 DEF Made
    <3>2. \A x \in tensors_from(fs, i) :
            x \in received(fs, i) \/ x \in extract_outgoing(t, fs.components[i].layers)
      BY <1>2, <1>3, <2>4, SentIsReceivedOrMade
    <3> QED BY <1>2, <2>2, <3>1, <3>2
  <2> QED BY <2>2, <2>3, <2>4 DEF Receiving
<1>8. ASSUME HopOf(p).kind = "partition", NEW scheme,
             scheme = CHOOSE s \in plans[p[1]].schemes : s.partition = HopOf(p).of
      PROVE  /\ scheme.inputs \subseteq Received(p)
             /\ extract_incoming(t, HopOf(p).of.layers) \subseteq scheme.inputs
  <2>1. i \in executable_components(fs) /\ HopOf(p).of = partition_id(fs, i)
    BY <1>2, <1>8
  <2>2. scheme.inputs = fs.components[i].inputs
    <3> PICK w : w = worker_at(sol, <<k, i>>)
      OBVIOUS
    <3>1. scheme = CHOOSE s \in worker_plans(sol)[w].schemes : s.partition = partition_id(sol[k], i)
      BY <1>2, <1>4, <1>8, <2>1
    <3> QED BY <1>3, <1>4, <2>1, <3>1, SchemeOfPartition
  <2>3. /\ fs.components[i].inputs \subseteq received(fs, i)
        /\ extract_incoming(t, fs.components[i].layers) \subseteq fs.components[i].inputs
    BY <1>2, <1>3, <2>1, InputsAreReceived
  <2> QED BY <1>2, <1>6, <2>1, <2>2, <2>3
<1>9. ASSUME HopOf(p).kind = "sink"
      PROVE  UNION {e.tensors : e \in {d \in t.edges : d.target \in t.outputs}} \subseteq Received(p)
  <2>1. Received(p) = result_tensors(fs)
    BY <1>2, <1>5, <1>9, SlotsApart DEF received, Receiving
  <2>2. \A e \in t.edges : e.target \in t.outputs => \A x \in e.tensors : x \in result_tensors(fs)
    BY <1>2, <1>3, ResultsAreReceived
  <2> QED BY <2>1, <2>2
<1>10. ASSUME HopOf(p).kind = "ingress"
       PROVE  Received(p) = input_tensor_properties(t)
  <2>1. Received(p) = input_tensors(fs)
    BY <1>2, <1>10 DEF received
  <2> QED BY <1>2, <1>3, <2>1, InputTensors
<1> QED BY <1>7, <1>8, <1>9, <1>10
-----------------------------------------------------------------------------
(* Every route carries something, since tensors lead through the model.    *)

LEMMA WayThrough ==
  ASSUME NEW a \in WellCut, NEW t, t = Models[a.variant].topology,
         NEW X, t.inputs \subseteq X, t.outputs \cap X = {}
  PROVE  \E e \in t.edges : /\ e.source \in X /\ e.target \notin X
                            /\ \E x : x \in e.tensors
<1>1. IsDataFlow(t)
  BY CutFacts, ModelFacts
<1>2. PICK from \in t.inputs : \E to \in t.outputs : is_reachable(t, from, to)
  BY <1>1 DEF IsDataFlow
<1>3. PICK to \in t.outputs : is_reachable(t, from, to)
  BY <1>2
<1>4. from \in X /\ to \notin X /\ IsFiniteSet(t.layers)
  BY <1>1 DEF IsDataFlow
<1>5. PICK e \in t.edges : e.source \in X /\ e.target \notin X
  BY <1>3, <1>4, WayOut
<1>6. e.tensors # {}
  BY <1>1 DEF IsDataFlow
<1> QED BY <1>5, <1>6

LEMMA RoutesCarry ==
  ASSUME NEW a \in WellCut, NEW fs, IsSolutionOf(fs, a), Carries(fs, a), NEW i \in Sending(fs)
  PROVE  tensors_from(fs, i) # {}
<1> PICK t, c, last : /\ t = Models[a.variant].topology /\ c = a.component_of
                      /\ last = component_last(a)
  OBVIOUS
<1> PICK L : L = LastExecuted(fs)
  OBVIOUS
<1>1. /\ last \in Nat \ {0} /\ L \in 1 .. last /\ executable_components(fs) \subseteq 1 .. last
      /\ \A j \in executable_components(fs) : j <= L
  BY Shape
<1>2. /\ \A l \in t.inputs : l \in t.layers /\ l \notin t.outputs /\ c[l] = 1
      /\ \A l \in t.outputs : l \in t.layers /\ l \notin t.inputs /\ c[l] = last
  <2>1. \A l \in t.inputs : l \in t.layers /\ l \notin t.outputs /\ c[l] = 1
    BY LayersOfAnswer
  <2>2. \A l \in t.outputs : l \in t.layers /\ l \notin t.inputs /\ c[l] = last
    BY LayersOfAnswer
  <2> QED BY <2>1, <2>2
<1>3. \A e \in t.edges : e.source \in t.layers /\ e.target \in t.layers
  BY LayersOfAnswer
<1>4. \A l \in t.layers : c[l] \in 1 .. last
  BY LayersOfAnswer
<1>5. CASE i = 0
  <2>1. PICK e \in t.edges : e.source \in t.inputs /\ \E x : x \in e.tensors
    <3>1. t.outputs \cap t.inputs = {}
      BY <1>2
    <3> QED BY <3>1, WayThrough
  <2>2. tensors_from(fs, i) = input_tensor_properties(t)
    BY <1>5, InputTensors DEF tensors_from
  <2> QED BY <2>1, <2>2 DEF input_tensor_properties
<1>6. CASE i = L
  <2> PICK X : X = t.layers \ t.outputs
    OBVIOUS
  <2>1. t.inputs \subseteq X /\ t.outputs \cap X = {}
    BY <1>2
  <2>2. PICK e \in t.edges : e.target \notin X /\ \E x : x \in e.tensors
    BY <2>1, WayThrough
  <2>3. e.target \in t.outputs
    BY <1>3, <2>2
  <2>4. PICK x : x \in e.tensors
    BY <2>2
  <2>5. x \in result_tensors(fs)
    BY <2>3, <2>4, ResultsAreReceived
  <2>6. tensors_from(fs, i) = result_tensors(fs)
    BY <1>1, <1>6 DEF tensors_from
  <2> QED BY <2>5, <2>6
<1>7. CASE i # 0 /\ i # L
  <2>1. i \in 1 .. last - 1 /\ i \in Nat
    BY <1>1, <1>7 DEF Sending
  <2> PICK X : X = {l \in t.layers : c[l] <= i}
    OBVIOUS
  <2>2. t.inputs \subseteq X /\ t.outputs \cap X = {}
    BY <1>1, <1>2, <2>1
  <2>3. PICK e \in t.edges : e.source \in X /\ e.target \notin X /\ \E x : x \in e.tensors
    BY <2>2, WayThrough
  <2>4. c[e.source] <= i /\ i < c[e.target]
    <3>1. c[e.target] \in 1 .. last /\ ~ c[e.target] <= i /\ c[e.source] <= i
      BY <1>3, <1>4, <2>3
    <3> QED BY <2>1, <3>1
  <2>5. PICK x : x \in e.tensors
    BY <2>3
  <2>6. x \in cut_tensors(Models[a.variant].tensor_routes, a, i)
    BY <2>1, <2>4, <2>5, CrossesCut
  <2>7. tensors_from(fs, i) = cut_tensors(Models[a.variant].tensor_routes, a, i)
    BY <1>7, <2>1 DEF tensors_from, Carries
  <2> QED BY <2>6, <2>7
<1> QED BY <1>5, <1>6, <1>7

-----------------------------------------------------------------------------
(* The plan of a worker is one that arrives and that the worker accepts.   *)

\* Its slots are those placed on the worker, of which some execute something.
LEMMA SlotsOfWorkerPlan ==
  ASSUME NEW sol, NEW w
  PROVE  LET executed == executable_slots(sol, w)
             slots == executed \cup ingress_slots(sol, w) \cup sink_slots(sol, w)
             plan == worker_plan(sol, w)
         IN /\ DOMAIN plan.executable_hops = executed /\ DOMAIN plan.hop_addresses = slots
            /\ DOMAIN plan.endpoint_hops = slots \ executed /\ DOMAIN plan.routings = slots
            /\ plan.schemes = schemes(sol, w)
BY DEF worker_plan

LEMMA EntriesOfExecuted ==
  ASSUME NEW sol, NEW w, NEW s \in executable_slots(sol, w)
  PROVE  LET plan == worker_plan(sol, w)
             component == sol[s[1]].components[s[2]]
         IN /\ plan.executable_hops[s] = replica_id(sol, s)
            /\ plan.priority_keys[s] = address(sol, s)
            /\ plan.priorities[s] = component.priority
<1> PICK executed, plan : executed = executable_slots(sol, w) /\ plan = worker_plan(sol, w)
  OBVIOUS
<1>1. /\ plan.executable_hops = [t \in executed |-> replica_id(sol, t)]
      /\ plan.priority_keys = [t \in executed |-> address(sol, t)]
      /\ plan.priorities = [t \in executed |-> sol[t[1]].components[t[2]].priority]
  BY DEF worker_plan
<1>2. plan.priorities[s] = sol[s[1]].components[s[2]].priority
  BY <1>1
<1> QED BY <1>1, <1>2

LEMMA AllocationOfExecuted ==
  ASSUME NEW sol, NEW w, NEW s \in executable_slots(sol, w)
  PROVE  worker_plan(sol, w).allocations[s]
           = [use_gpu |-> sol[s[1]].components[s[2]].backend = "gpu"]
<1> PICK executed, plan : executed = executable_slots(sol, w) /\ plan = worker_plan(sol, w)
  OBVIOUS
<1> DEFINE allocation(t) == [use_gpu |-> sol[t[1]].components[t[2]].backend = "gpu"]
<1>1. plan.allocations = [t \in executed |-> allocation(t)]
  BY DEF worker_plan
<1>2. plan.allocations[s] = allocation(s)
  <2> HIDE DEF allocation
  <2> QED BY <1>1
<1> QED BY <1>2

LEMMA EntriesOfSlots ==
  ASSUME NEW sol, NEW w,
         NEW s \in executable_slots(sol, w) \cup ingress_slots(sol, w) \cup sink_slots(sol, w)
  PROVE  LET plan == worker_plan(sol, w) IN
         /\ plan.hop_addresses[s] = address(sol, s)
         /\ s \notin executable_slots(sol, w) => plan.endpoint_hops[s] = hop_at(sol, s)
         /\ plan.routings[s].input = input_routing(sol, s[1], s[2])
         /\ plan.routings[s].output = output_routings(sol, s[1], s[2])
<1> PICK executed, slots, plan :
      /\ executed = executable_slots(sol, w) /\ plan = worker_plan(sol, w)
      /\ slots = executed \cup ingress_slots(sol, w) \cup sink_slots(sol, w)
  OBVIOUS
<1>1. /\ plan.endpoint_hops = [t \in slots \ executed |-> hop_at(sol, t)]
      /\ plan.hop_addresses = [t \in slots |-> address(sol, t)]
  BY DEF worker_plan
<1>2. plan.routings = [t \in slots |-> [input |-> input_routing(sol, t[1], t[2]),
                                        output |-> output_routings(sol, t[1], t[2])]]
  BY DEF worker_plan
<1>3. /\ plan.routings[s].input = input_routing(sol, s[1], s[2])
      /\ plan.routings[s].output = output_routings(sol, s[1], s[2])
  BY <1>2
<1> QED BY <1>1, <1>3

LEMMA RouteArrives ==
  ASSUME NEW sol, IsSolution(sol), NEW k \in DOMAIN sol, NEW i \in Sending(sol[k])
  PROVE  input_routing(sol, k, next(sol[k], i))
           = [source |-> address(sol, <<k, i>>), tensors |-> tensors_from(sol[k], i)]
BY RouteEnds

LEMMA RouteLeaves ==
  ASSUME NEW sol, IsSolution(sol), NEW k \in DOMAIN sol, NEW i \in Sending(sol[k]),
         NEW o \in output_routings(sol, k, i)
  PROVE  o = [destination |-> address(sol, <<k, next(sol[k], i)>>),
              tensors |-> tensors_from(sol[k], i)]
BY RouteEnds

\* An address says of what kind its hop is.
LEMMA Addresses ==
  ASSUME NEW sol, IsSolution(sol), NEW s \in SlotsOf(sol)
  PROVE  /\ IsAddress(address(sol, s)) /\ address(sol, s).hop = hop_at(sol, s)
         /\ hop_at(sol, s) # ExternalHop
         /\ s[2] = 0 => hop_at(sol, s).kind = "ingress"
         /\ s[2] = SinkIndex(sol[s[1]]) => hop_at(sol, s).kind = "sink"
         /\ s[2] \in executable_components(sol[s[1]]) =>
              hop_at(sol, s) = replica_id(sol, s) /\ hop_at(sol, s).kind = "partition"
<1> PICK h : h = hop_at(sol, s)
  OBVIOUS
<1>1. /\ s[2] = 0 => h = ingress_id(sol, s[1])
      /\ s[2] = SinkIndex(sol[s[1]]) => h = sink_id(sol, s[1])
      /\ s[2] \in executable_components(sol[s[1]]) => h = replica_id(sol, s)
      /\ \/ s[2] = 0 \/ s[2] = SinkIndex(sol[s[1]])
         \/ s[2] \in executable_components(sol[s[1]])
  BY HopKinds
<1>2. /\ ingress_id(sol, s[1]).kind = "ingress" /\ sink_id(sol, s[1]).kind = "sink"
      /\ replica_id(sol, s).kind = "partition"
  BY DEF ingress_id, sink_id, endpoint_id, replica_id
<1>3. \E kind \in {"partition", "ingress", "sink"} : \E of : \E n :
        h = [kind |-> kind, of |-> of, replica_idx |-> n]
  BY <1>1, Zenon DEF ingress_id, sink_id, endpoint_id, replica_id
<1>4. IsHop(h) /\ h # ExternalHop
  <2>1. PICK kind \in {"partition", "ingress", "sink"} : \E of : \E n :
          h = [kind |-> kind, of |-> of, replica_idx |-> n]
    BY <1>3
  <2>2. PICK of : \E n : h = [kind |-> kind, of |-> of, replica_idx |-> n]
    BY <2>1
  <2>3. PICK n : h = [kind |-> kind, of |-> of, replica_idx |-> n]
    BY <2>2
  <2>4. h = [kind |-> h.kind, of |-> h.of, replica_idx |-> h.replica_idx] /\ h.kind = kind
    BY <2>3
  <2>5. h # ExternalHop
    BY <2>4 DEF ExternalHop
  <2> QED BY <2>4, <2>5 DEF IsHop
<1>5. address(sol, s) = [flow |-> sol[s[1]].flow, hop |-> h]
  BY DEF address
<1>6. IsAddress(address(sol, s)) /\ address(sol, s).hop = h
  <2> PICK flow, at : flow = sol[s[1]].flow /\ at = address(sol, s)
    OBVIOUS
  <2>1. at = [flow |-> flow, hop |-> h]
    BY <1>5
  <2>2. at.flow = flow /\ at.hop = h
    BY <2>1
  <2> QED BY <1>4, <2>1, <2>2 DEF IsAddress
<1> QED BY <1>1, <1>2, <1>4, <1>6

\* What a hop waits for comes from a caller, an ingress or a partition; what it sends
\* goes to a partition or a sink.
LEMMA RoutesOfSlot ==
  ASSUME NEW sol, IsSolution(sol), NEW s \in SlotsOf(sol),
         \A i \in Sending(sol[s[1]]) : tensors_from(sol[s[1]], i) # {}
  PROVE  LET input == input_routing(sol, s[1], s[2]) IN
         /\ input = [source |-> input.source, tensors |-> input.tensors]
         /\ input.tensors # {} /\ IsAddress(input.source)
         /\ input.source.hop = ExternalHop
              \/ input.source.hop.kind \in {"ingress", "partition"}
         /\ \A o \in output_routings(sol, s[1], s[2]) :
              /\ o = [destination |-> o.destination, tensors |-> o.tensors]
              /\ o.tensors # {} /\ IsAddress(o.destination)
              /\ o.destination.hop.kind \in {"partition", "sink"}
         /\ \A o, q \in output_routings(sol, s[1], s[2]) : o = q
<1> PICK k, i, fs : k = s[1] /\ i = s[2] /\ fs = sol[k]
  OBVIOUS
<1>1. /\ k \in DOMAIN sol /\ IsFlow(fs) /\ i \in {0} \cup Receiving(fs)
  BY ASlot
<1>2. ASSUME NEW j \in Sending(fs)
      PROVE  /\ IsAddress(address(sol, <<k, j>>))
             /\ address(sol, <<k, j>>).hop.kind \in {"ingress", "partition"}
  <2>1. <<k, j>> \in SlotsOf(sol)
    BY <1>1, SlotOf DEF Sending, Receiving
  <2>2. j = 0 \/ j \in executable_components(sol[k])
    BY DEF Sending
  <2> QED BY <2>1, <2>2, Addresses
<1>3. ASSUME NEW j \in Receiving(fs)
      PROVE  /\ IsAddress(address(sol, <<k, j>>))
             /\ address(sol, <<k, j>>).hop.kind \in {"partition", "sink"}
  <2>1. <<k, j>> \in SlotsOf(sol)
    BY <1>1, SlotOf
  <2>2. j = SinkIndex(sol[k]) \/ j \in executable_components(sol[k])
    BY DEF Receiving
  <2> QED BY <2>1, <2>2, Addresses
<1> PICK input : input = input_routing(sol, k, i)
  OBVIOUS
<1>4. /\ input = [source |-> input.source, tensors |-> input.tensors]
      /\ input.tensors # {} /\ IsAddress(input.source)
      /\ input.source.hop = ExternalHop
           \/ input.source.hop.kind \in {"ingress", "partition"}
  <2>1. CASE i = 0
    <3> PICK from, x : from = [flow |-> fs.flow, hop |-> ExternalHop] /\ x = input_tensors(fs)
      OBVIOUS
    <3>1. input = [source |-> from, tensors |-> x]
      BY <2>1 DEF input_routing
    <3>2. x # {}
      BY DEF Sending, tensors_from
    <3>3. IsAddress(from) /\ from.hop = ExternalHop
      BY DEF IsAddress, IsHop
    <3> QED BY <3>1, <3>2, <3>3
  <2>2. CASE i # 0
    <3>1. i \in Receiving(fs)
      BY <1>1, <2>2
    <3> PICK j : j = before(fs, i)
      OBVIOUS
    <3>2. j \in Sending(fs) /\ next(fs, j) = i
      BY <1>1, <3>1, Chain
    <3> PICK from, x : from = address(sol, <<k, j>>) /\ x = tensors_from(fs, j)
      OBVIOUS
    <3>3. input = [source |-> from, tensors |-> x]
      BY <1>1, <3>2, RouteArrives
    <3>4. x # {} /\ IsAddress(from) /\ from.hop.kind \in {"ingress", "partition"}
      BY <1>2, <3>2
    <3> QED BY <3>3, <3>4
  <2> QED BY <2>1, <2>2
<1> PICK outputs : outputs = output_routings(sol, k, i)
  OBVIOUS
<1>5. /\ \A o \in outputs :
           /\ o = [destination |-> o.destination, tensors |-> o.tensors]
           /\ o.tensors # {} /\ IsAddress(o.destination)
           /\ o.destination.hop.kind \in {"partition", "sink"}
      /\ \A o, q \in outputs : o = q
  <2>1. CASE i = SinkIndex(fs)
    BY <2>1 DEF output_routings
  <2>2. CASE i # SinkIndex(fs)
    <3>1. i \in Sending(fs)
      BY <1>1, <2>2 DEF Sending, Receiving
    <3> PICK j : j = next(fs, i)
      OBVIOUS
    <3>2. j \in Receiving(fs)
      BY <1>1, <3>1, Chain
    <3> PICK to, x : to = address(sol, <<k, j>>) /\ x = tensors_from(fs, i)
      OBVIOUS
    <3>3. \A o \in outputs : o = [destination |-> to, tensors |-> x]
      BY <1>1, <3>1, RouteLeaves
    <3>4. x # {} /\ IsAddress(to) /\ to.hop.kind \in {"partition", "sink"}
      BY <1>3, <3>1, <3>2
    <3> QED BY <3>3, <3>4
  <2> QED BY <2>1, <2>2
<1> QED BY <1>4, <1>5

LEMMA WorkerPlansArePlans ==
  ASSUME NEW sol, IsSolution(sol), NEW w \in involved_workers(sol),
         \A k \in DOMAIN sol : \A i \in Sending(sol[k]) : tensors_from(sol[k], i) # {},
         \A k \in DOMAIN sol : \A i \in executable_components(sol[k]) :
           sol[k].components[i].priority \in Nat,
         NEW plan, plan = worker_plan(sol, w)
  PROVE  IsPlan(plan)
<1> PICK executed, slots :
      /\ executed = executable_slots(sol, w)
      /\ slots = executed \cup ingress_slots(sol, w) \cup sink_slots(sol, w)
  OBVIOUS
<1>1. slots = {s \in SlotsOf(sol) : worker_at(sol, s) = w} /\ executed \subseteq slots
  BY Placement
<1>2. \A s \in slots : s \in executed <=> s[2] \in executable_components(sol[s[1]])
  <2>1. ASSUME NEW s \in executed PROVE s[2] \in executable_components(sol[s[1]])
    BY ExecutableSlot DEF executable_slots
  <2>2. ASSUME NEW s \in slots, s[2] \in executable_components(sol[s[1]])
        PROVE  s \in executed
    <3>1. s \in SlotsOf(sol) /\ worker_at(sol, s) = w
      BY <1>1
    <3>2. s \in ExecutableSlots(sol)
      BY <2>2, <3>1, ExecutableSlot
    <3>3. s[2] # 0 /\ s[2] # SinkIndex(sol[s[1]])
      BY <2>2, <3>1, ASlot, SlotsApart DEF Sending, Receiving
    <3> QED BY <3>1, <3>2, <3>3 DEF worker_at, executable_slots
  <2> QED BY <2>1, <2>2
<1>3. AreSlots(slots)
  <2>1. IsFiniteSet(slots)
    BY <1>1, SlotsFinite, FS_Subset
  <2>2. \A s \in slots : s = <<s[1], s[2]>> /\ s[1] \in Nat /\ s[2] \in Nat
    BY <1>1, ASlot
  <2> QED BY <2>1, <2>2 DEF AreSlots
<1>4. /\ DOMAIN plan.executable_hops = executed /\ DOMAIN plan.hop_addresses = slots
      /\ DOMAIN plan.endpoint_hops = slots \ executed /\ DOMAIN plan.routings = slots
      /\ plan.schemes = schemes(sol, w)
  BY SlotsOfWorkerPlan
<1>5. /\ \A s \in executed :
           /\ plan.executable_hops[s] = replica_id(sol, s)
           /\ plan.priority_keys[s] = address(sol, s)
           /\ plan.priorities[s] = sol[s[1]].components[s[2]].priority
      /\ \A s \in slots :
           /\ plan.hop_addresses[s] = address(sol, s)
           /\ plan.routings[s].input = input_routing(sol, s[1], s[2])
           /\ plan.routings[s].output = output_routings(sol, s[1], s[2])
      /\ \A s \in slots \ executed : plan.endpoint_hops[s] = hop_at(sol, s)
  <2>1. \A s \in executed :
           /\ plan.executable_hops[s] = replica_id(sol, s)
           /\ plan.priority_keys[s] = address(sol, s)
           /\ plan.priorities[s] = sol[s[1]].components[s[2]].priority
    BY EntriesOfExecuted
  <2>2. \A s \in slots :
           /\ plan.hop_addresses[s] = address(sol, s)
           /\ plan.routings[s].input = input_routing(sol, s[1], s[2])
           /\ plan.routings[s].output = output_routings(sol, s[1], s[2])
    BY EntriesOfSlots
  <2>3. \A s \in slots \ executed : plan.endpoint_hops[s] = hop_at(sol, s)
    BY EntriesOfSlots
  <2> QED BY <2>1, <2>2, <2>3
<1>6. \A s \in slots : plan.hop_addresses[s].hop = hop_at(sol, s)
  BY <1>1, <1>5, Addresses
<1>7. \A s, t \in slots : plan.hop_addresses[s].hop = plan.hop_addresses[t].hop => s = t
  BY <1>1, <1>6, HopsDiffer
<1>8. ASSUME NEW s \in executed
      PROVE  /\ plan.executable_hops[s] = plan.hop_addresses[s].hop
             /\ plan.hop_addresses[s].hop.kind = "partition"
             /\ plan.priority_keys[s] = plan.hop_addresses[s]
             /\ plan.priorities[s] \in Nat
             /\ \E p \in plan.schemes : p.partition = plan.executable_hops[s].of
  <2>1. /\ s \in slots /\ s \in SlotsOf(sol) /\ s[1] \in DOMAIN sol
        /\ s[2] \in executable_components(sol[s[1]])
    BY <1>1, <1>2, ASlot
  <2>2. hop_at(sol, s) = replica_id(sol, s) /\ hop_at(sol, s).kind = "partition"
    BY <2>1, Addresses
  <2>3. \E p \in plan.schemes : p.partition = plan.executable_hops[s].of
    <3> PICK own : own = [partition |-> partition_id(sol[s[1]], s[2]),
                          inputs |-> sol[s[1]].components[s[2]].inputs,
                          outputs |-> sol[s[1]].components[s[2]].outputs]
      OBVIOUS
    <3>1. own \in schemes(sol, w)
      BY DEF schemes
    <3>2. replica_id(sol, s).of = partition_id(sol[s[1]], s[2])
      BY DEF replica_id
    <3>3. own.partition = partition_id(sol[s[1]], s[2])
      OBVIOUS
    <3>4. plan.executable_hops[s] = replica_id(sol, s)
      BY <1>5
    <3> QED BY <1>4, <3>1, <3>2, <3>3, <3>4, Zenon
  <2>4. plan.priorities[s] \in Nat
    BY <1>5, <2>1
  <2> QED BY <1>5, <1>6, <2>1, <2>2, <2>3, <2>4
<1>9. ASSUME NEW s \in slots \ executed
      PROVE  /\ plan.endpoint_hops[s] = plan.hop_addresses[s].hop
             /\ plan.hop_addresses[s].hop.kind \in {"ingress", "sink"}
  <2>1. s \in SlotsOf(sol) /\ s[2] \notin executable_components(sol[s[1]])
    BY <1>1, <1>2
  <2>2. s[2] = 0 \/ s[2] = SinkIndex(sol[s[1]])
    BY <2>1, HopKinds
  <2>3. hop_at(sol, s).kind \in {"ingress", "sink"}
    BY <2>1, <2>2, Addresses
  <2> QED BY <1>5, <1>6, <2>3
<1>10. ASSUME NEW s \in slots
       PROVE  /\ plan.routings[s].input.tensors # {}
              /\ plan.routings[s].input.source.hop = ExternalHop
                   \/ plan.routings[s].input.source.hop.kind \in {"ingress", "partition"}
              /\ \A o \in plan.routings[s].output :
                   o.tensors # {} /\ o.destination.hop.kind \in {"partition", "sink"}
              /\ \A o, q \in plan.routings[s].output : o = q
  <2> PICK input, outputs : /\ input = input_routing(sol, s[1], s[2])
                            /\ outputs = output_routings(sol, s[1], s[2])
    OBVIOUS
  <2>1. s \in SlotsOf(sol) /\ s[1] \in DOMAIN sol
    BY <1>1, ASlot
  <2>2. /\ input.tensors # {}
        /\ input.source.hop = ExternalHop
             \/ input.source.hop.kind \in {"ingress", "partition"}
        /\ \A o \in outputs : o.tensors # {} /\ o.destination.hop.kind \in {"partition", "sink"}
        /\ \A o, q \in outputs : o = q
    BY <2>1, RoutesOfSlot
  <2>3. plan.routings[s].input = input /\ plan.routings[s].output = outputs
    BY <1>5
  <2> QED BY <2>2, <2>3, Zenon
<1> PICK hops, at : hops = DOMAIN plan.executable_hops /\ at = DOMAIN plan.hop_addresses
  OBVIOUS
<1>11. /\ AreSlots(at) /\ hops \subseteq at
       /\ DOMAIN plan.endpoint_hops = at \ hops /\ DOMAIN plan.routings = at
       /\ \A s, t \in at : plan.hop_addresses[s].hop = plan.hop_addresses[t].hop => s = t
  <2>1. AreSlots(at) /\ hops \subseteq at
    BY <1>1, <1>3, <1>4
  <2>2. DOMAIN plan.endpoint_hops = at \ hops /\ DOMAIN plan.routings = at
    BY <1>1, <1>3, <1>4
  <2> QED BY <1>4, <1>7, <2>1, <2>2
<1>12. hops = executed /\ at = slots
  BY <1>4
<1>13. \A s \in hops :
          /\ plan.executable_hops[s] = plan.hop_addresses[s].hop
          /\ plan.hop_addresses[s].hop.kind = "partition"
          /\ plan.priority_keys[s] = plan.hop_addresses[s]
          /\ plan.priorities[s] \in Nat
          /\ \E p \in plan.schemes : p.partition = plan.executable_hops[s].of
  BY <1>8, <1>12
<1>14. \A s \in at \ hops :
          /\ plan.endpoint_hops[s] = plan.hop_addresses[s].hop
          /\ plan.hop_addresses[s].hop.kind \in {"ingress", "sink"}
  BY <1>9, <1>12
<1>15. \A s \in at :
          /\ plan.routings[s].input.tensors # {}
          /\ plan.routings[s].input.source.hop = ExternalHop
               \/ plan.routings[s].input.source.hop.kind \in {"ingress", "partition"}
          /\ \A o \in plan.routings[s].output :
               o.tensors # {} /\ o.destination.hop.kind \in {"partition", "sink"}
          /\ \A o, q \in plan.routings[s].output : o = q
  BY <1>10, <1>12
<1> HIDE DEF AreSlots
<1>16. IsPlan(plan) <=>
         /\ AreSlots(at) /\ hops \subseteq at
         /\ DOMAIN plan.endpoint_hops = at \ hops /\ DOMAIN plan.routings = at
         /\ \A s, t \in at : plan.hop_addresses[s].hop = plan.hop_addresses[t].hop => s = t
         /\ \A s \in hops :
               /\ plan.executable_hops[s] = plan.hop_addresses[s].hop
               /\ plan.hop_addresses[s].hop.kind = "partition"
               /\ plan.priority_keys[s] = plan.hop_addresses[s]
               /\ plan.priorities[s] \in Nat
               /\ \E p \in plan.schemes : p.partition = plan.executable_hops[s].of
         /\ \A s \in at \ hops :
               /\ plan.endpoint_hops[s] = plan.hop_addresses[s].hop
               /\ plan.hop_addresses[s].hop.kind \in {"ingress", "sink"}
         /\ \A s \in at :
               /\ plan.routings[s].input.tensors # {}
               /\ plan.routings[s].input.source.hop = ExternalHop
                    \/ plan.routings[s].input.source.hop.kind \in {"ingress", "partition"}
               /\ \A o \in plan.routings[s].output :
                    o.tensors # {} /\ o.destination.hop.kind \in {"partition", "sink"}
               /\ \A o, q \in plan.routings[s].output : o = q
  BY DEF IsPlan
<1> QED BY <1>11, <1>13, <1>14, <1>15, <1>16

LEMMA WorkersOfCut ==
  ASSUME NEW a \in WellCut, NEW k \in components(a)
  PROVE  a.worker_of[k] \in Workers
BY CutFacts, Zenon

\* A component runs on the backend that its worker is planned with.
LEMMA SolvedBackends ==
  ASSUME AnswersInv, NEW k \in 1 .. Len(answers), NEW i \in 1 .. component_last(answers[k])
  PROVE  /\ Solved[k].components[i].worker \in Workers
         /\ Solved[k].components[i].backend
              = BackendOf(Solved[k].components[i].worker \in network.lacking)
<1> PICK fs, a, last : fs = solution[k] /\ a = answers[k] /\ last = component_last(answers[k])
  OBVIOUS
<1> PICK w : w = a.worker_of[i]
  OBVIOUS
<1>1. /\ a \in WellCut /\ IsSolutionOf(fs, a)
      /\ fs.components[i].worker = w /\ DOMAIN fs.components = 1 .. last
      /\ "components" \in DOMAIN fs /\ k \in DOMAIN solution
  <2>1. a \in WellCut /\ IsSolutionOf(fs, a)
    BY SolvedOf
  <2>2. k \in DOMAIN solution
    BY DEF AnswersInv
  <2> QED BY <2>1, <2>2 DEF IsSolutionOf
<1>2. w \in Workers
  <2>1. components(a) = 1 .. last
    BY <1>1, Shape
  <2> QED BY <1>1, <2>1, WorkersOfCut
<1> PICK backend, priority :
      /\ backend = [v \in Workers |-> BackendOf(v \in network.lacking)]
      /\ Solved = extract_execution(backend, priority, solution)
  BY Zenon DEF Solved
<1> DEFINE executed(c, s) ==
      [worker |-> c.worker, layers |-> c.layers, inputs |-> c.inputs,
       outputs |-> c.outputs, backend |-> backend[c.worker], priority |-> priority[s]]
<1> PICK made : made = [j \in DOMAIN fs.components |-> executed(fs.components[j], <<k, j>>)]
  OBVIOUS
<1>3. Solved[k] = [fs EXCEPT !.components = made]
  BY <1>1 DEF extract_execution
<1>4. Solved[k].components = made
  BY <1>1, <1>3
<1>5. made[i] = executed(fs.components[i], <<k, i>>)
  <2> HIDE DEF executed
  <2> QED BY <1>1
<1>6. made[i].worker = w /\ made[i].backend = backend[w]
  BY <1>1, <1>5
<1>7. backend[w] = BackendOf(w \in network.lacking)
  <2> DEFINE of(v) == BackendOf(v \in network.lacking)
  <2>1. backend = [v \in Workers |-> of(v)]
    OBVIOUS
  <2>2. backend[w] = of(w)
    <3> HIDE DEF of
    <3> QED BY <1>2, <2>1
  <2> QED BY <2>2
<1> HIDE DEF executed
<1>8. Solved[k].components[i].worker = w /\ Solved[k].components[i].backend = backend[w]
  BY <1>4, <1>6
<1> QED BY <1>2, <1>7, <1>8, Zenon

LEMMA SessionsAreBuilt ==
  ASSUME NEW lacking, NEW allocation, NEW backend, backend = BackendOf(lacking),
         allocation = [use_gpu |-> backend = "gpu"]
  PROVE  session_is_built(ProvidersOf(lacking), allocation)
<1>1. CASE lacking
  <2>1. ~ allocation.use_gpu
    BY <1>1 DEF BackendOf
  <2> QED BY <1>1, <2>1 DEF session_is_built, provider_of, ProvidersOf
<1>2. CASE ~ lacking
  <2>1. allocation.use_gpu
    BY <1>2 DEF BackendOf
  <2> QED BY <1>2, <2>1 DEF session_is_built, provider_of, ProvidersOf
<1> QED BY <1>1, <1>2

LEMMA PlansOfInvArePlans ==
  ASSUME AnswersInv, PlansInv, NEW w \in DOMAIN plans
  PROVE  /\ plans[w] = worker_plan(Solved, w) /\ IsPlan(plans[w])
         /\ IsSolution(Solved) /\ w \in involved_workers(Solved)
         /\ \A k \in DOMAIN Solved : \A i \in Sending(Solved[k]) : tensors_from(Solved[k], i) # {}
<1> PICK sol : sol = Solved
  OBVIOUS
<1>1. plans # <<>>
  OBVIOUS
<1>2. IsSolution(sol) /\ plans = worker_plans(sol) /\ DOMAIN sol = 1 .. Len(answers)
  BY <1>1, SolvedFlows DEF PlansInv
<1>3. w \in involved_workers(sol) /\ plans[w] = worker_plan(sol, w)
  BY <1>2 DEF worker_plans
<1>4. \A k \in DOMAIN sol : \A i \in Sending(sol[k]) : tensors_from(sol[k], i) # {}
  <2> SUFFICES ASSUME NEW k \in DOMAIN sol, NEW i \in Sending(sol[k])
               PROVE  tensors_from(sol[k], i) # {}
    OBVIOUS
  <2>1. /\ answers[k] \in WellCut /\ IsSolutionOf(sol[k], answers[k])
        /\ Carries(sol[k], answers[k])
    BY <1>2, SolvedOf, SolvedFlows, SolvedCarries
  <2> QED BY <2>1, RoutesCarry
<1>5. ASSUME NEW k \in DOMAIN sol, NEW i \in executable_components(sol[k])
      PROVE  sol[k].components[i].priority \in Nat
  <2> PICK a, last : a = answers[k] /\ last = component_last(answers[k])
    OBVIOUS
  <2>1. /\ a \in WellCut /\ IsSolutionOf(sol[k], a)
        /\ IsSolved(sol[k], solution[k], last, PrioritiesOf(k))
    BY <1>2, SolvedOf, SolvedFlows
  <2>2. components(a) = 1 .. last /\ i \in 1 .. last
    BY <2>1, Shape
  <2>3. PrioritiesOf(k)[i] \in {1, 2}
    <3>1. k \in DOMAIN answers
      BY <1>2 DEF AnswersInv
    <3> QED BY <2>2, <3>1, PrioritiesArePositive
  <2>4. sol[k].components[i].priority = PrioritiesOf(k)[i]
    BY <2>1, <2>2, Zenon DEF IsSolved
  <2> QED BY <2>3, <2>4
<1>6. IsPlan(plans[w])
  BY <1>2, <1>3, <1>4, <1>5, WorkerPlansArePlans
<1> QED BY <1>2, <1>3, <1>4, <1>6

LEMMA PlansOfInvWellFormed ==
  ASSUME AnswersInv, PlansInv
  PROVE  PlansAreWellFormed
<1>1. ASSUME NEW w \in DOMAIN plans
      PROVE  /\ worker_plan_is_valid(Sent[w])
             /\ worker_accepts(to_worker_plan_dto(Sent[w]))
             /\ Sent[w] = build_worker_plan(plans[w])
  <2>1. Sent[w] = build_worker_plan(plans[w])
    BY DEF Sent
  <2>2. IsPlan(plans[w])
    BY PlansOfInvArePlans
  <2> QED BY <2>1, <2>2, SentIsValid, MessageIsAccepted
<1>2. ASSUME NEW w \in DOMAIN plans, NEW s \in DOMAIN plans[w].executable_hops,
             NEW read, read = worker_plan_from_dto(to_worker_plan_dto(Sent[w])),
             NEW component, component = Solved[s[1]].components[s[2]],
             NEW allocation, allocation = get_allocation(read, plans[w].executable_hops[s])
      PROVE  /\ get_priority_by_key(read, plans[w].hop_addresses[s]) = component.priority
             /\ allocation.use_gpu <=> component.backend = "gpu"
             /\ session_is_built(ProvidersOf(w \in network.lacking), allocation)
  <2> PICK sol, plan, k, i : sol = Solved /\ plan = plans[w] /\ k = s[1] /\ i = s[2]
    OBVIOUS
  <2>1. IsPlan(plan) /\ plan = worker_plan(sol, w) /\ IsSolution(sol)
    BY PlansOfInvArePlans
  <2>2. s \in executable_slots(sol, w)
    BY <1>2, <2>1, SlotsOfWorkerPlan
  <2>3. /\ get_priority_by_key(read, plan.hop_addresses[s]) = plan.priorities[s]
        /\ allocation = plan.allocations[s]
    <3>1. read = worker_plan_from_dto(to_worker_plan_dto(build_worker_plan(plan)))
      BY <1>2 DEF Sent
    <3>2. s \in DOMAIN plan.executable_hops
      OBVIOUS
    <3> QED BY <1>2, <2>1, <3>1, <3>2, WorkerLooksUp
  <2>4. plan.priorities[s] = component.priority
    BY <1>2, <2>1, <2>2, EntriesOfExecuted
  <2>5. plan.allocations[s] = [use_gpu |-> component.backend = "gpu"]
    BY <1>2, <2>1, <2>2, AllocationOfExecuted
  <2>6. /\ k \in 1 .. Len(answers) /\ i \in executable_components(sol[k])
        /\ component.worker = w
    <3>1. s \in ExecutableSlots(sol) /\ component.worker = w
      BY <1>2, <2>2 DEF executable_slots
    <3>2. s \in SlotsOf(sol) /\ i \in executable_components(sol[k])
      BY <2>1, <3>1, ExecutableSlot
    <3>3. k \in DOMAIN sol
      BY <2>1, <3>2, ASlot
    <3> QED BY <3>1, <3>2, <3>3, SolvedFlows
  <2>7. i \in 1 .. component_last(answers[k])
    <3>1. answers[k] \in WellCut /\ IsSolutionOf(sol[k], answers[k])
      BY <2>6, SolvedOf, SolvedFlows
    <3> QED BY <2>6, <3>1, Shape
  <2>8. component.backend = BackendOf(w \in network.lacking)
    BY <1>2, <2>6, <2>7, SolvedBackends
  <2>11. allocation = [use_gpu |-> component.backend = "gpu"]
    BY <2>3, <2>5, Zenon
  <2>9. session_is_built(ProvidersOf(w \in network.lacking), allocation)
    BY <2>8, <2>11, SessionsAreBuilt, Zenon
  <2>10. allocation.use_gpu <=> component.backend = "gpu"
    BY <2>11, Zenon
  <2> QED BY <2>3, <2>4, <2>9, <2>10
<1>3. HopsAreDeployedOnce
  BY HopsOfPlansDiffer DEF HopsAreDeployedOnce
<1> QED BY <1>1, <1>2, <1>3, Zenon DEF PlansAreWellFormed

LEMMA PlansOfInvArrive ==
  ASSUME AnswersInv, PlansInv
  PROVE  ReadPlans = Sent
<1>1. ASSUME NEW w \in DOMAIN plans
      PROVE  worker_plan_from_dto(to_worker_plan_dto(Sent[w])) = Sent[w]
  <2> PICK sol, plan : sol = Solved /\ plan = plans[w]
    OBVIOUS
  <2>1. /\ plan = worker_plan(sol, w) /\ IsPlan(plan)
        /\ IsSolution(sol)
        /\ \A k \in DOMAIN sol : \A i \in Sending(sol[k]) : tensors_from(sol[k], i) # {}
    BY PlansOfInvArePlans
  <2>2. ASSUME NEW s \in DOMAIN plan.hop_addresses,
               NEW i, i = plan.routings[s].input
        PROVE  /\ IsAddress(plan.hop_addresses[s])
               /\ i = [source |-> i.source, tensors |-> i.tensors] /\ IsAddress(i.source)
               /\ \A o \in plan.routings[s].output :
                    o = [destination |-> o.destination, tensors |-> o.tensors]
                    /\ IsAddress(o.destination)
    <3>1. s \in executable_slots(sol, w) \cup ingress_slots(sol, w) \cup sink_slots(sol, w)
      BY <2>1, SlotsOfWorkerPlan
    <3>2. s \in SlotsOf(sol) /\ s[1] \in DOMAIN sol
      BY <2>1, <3>1, Placement, ASlot
    <3>3. /\ plan.hop_addresses[s] = address(sol, s)
          /\ i = input_routing(sol, s[1], s[2])
          /\ plan.routings[s].output = output_routings(sol, s[1], s[2])
      BY <2>1, <2>2, <3>1, EntriesOfSlots
    <3>4. IsAddress(address(sol, s))
      BY <2>1, <3>2, Addresses
    <3>5. /\ i = [source |-> i.source, tensors |-> i.tensors] /\ IsAddress(i.source)
          /\ \A o \in output_routings(sol, s[1], s[2]) :
               o = [destination |-> o.destination, tensors |-> o.tensors]
               /\ IsAddress(o.destination)
      BY <2>1, <3>2, <3>3, RoutesOfSlot
    <3> QED BY <3>3, <3>4, <3>5
  <2>3. worker_plan_from_dto(to_worker_plan_dto(build_worker_plan(plan))) = build_worker_plan(plan)
    BY <2>1, <2>2, PlanArrives
  <2> QED BY <2>3 DEF Sent
<1>2. DOMAIN Sent = DOMAIN plans /\ Sent = [w \in DOMAIN plans |-> Sent[w]]
  BY DEF Sent
<1> QED BY <1>1, <1>2 DEF ReadPlans

-----------------------------------------------------------------------------
(* What is cut out of a model file.                                        *)

\* The nodes that make a tensor, unless it is given.
MakersOf(g, given, xs) == {n \in DOMAIN g.nodes : g.nodes[n].outputs \cap (xs \ given) # {}}

ReadBySet(g, X) == UNION {g.nodes[n].inputs : n \in X}

\* The least set of nodes with the makers of the outputs and of what it reads.
IsExtracted(g, given, outputs, kept) ==
  /\ kept \in SUBSET DOMAIN g.nodes
  /\ MakersOf(g, given, outputs) \subseteq kept
  /\ MakersOf(g, given, ReadBySet(g, kept)) \subseteq kept
  /\ \A X \in SUBSET DOMAIN g.nodes :
       /\ MakersOf(g, given, outputs) \subseteq X
       /\ MakersOf(g, given, ReadBySet(g, X)) \subseteq X
       => kept \subseteq X

AreTraced(f, g, given, outputs) ==
  f = [k \in 0 .. Cardinality(DOMAIN g.nodes) |->
         IF k = 0 THEN MakersOf(g, given, outputs)
         ELSE f[k - 1] \cup MakersOf(g, given, ReadBySet(g, f[k - 1]))]

LEMMA TracedIsExtracted ==
  ASSUME NEW g, IsFiniteSet(DOMAIN g.nodes), NEW given, NEW outputs,
         NEW f, AreTraced(f, g, given, outputs)
  PROVE  IsExtracted(g, given, outputs, f[Cardinality(DOMAIN g.nodes)])
<1>a. PICK N : N = Cardinality(DOMAIN g.nodes)
  OBVIOUS
<1>0. N \in Nat
  BY <1>a, FS_CardinalityType
<1>b. PICK S, first : S = DOMAIN g.nodes /\ first = MakersOf(g, given, outputs)
  OBVIOUS
<1> DEFINE back(X) == MakersOf(g, given, ReadBySet(g, X))
<1>1. first \in SUBSET S /\ \A X : back(X) \in SUBSET S
  BY <1>b DEF MakersOf
<1>2. f = [k \in 0 .. N |-> IF k = 0 THEN first ELSE f[k - 1] \cup back(f[k - 1])]
  BY <1>a, <1>b, Zenon DEF AreTraced
<1>m. \A X, Y : X \subseteq Y => back(X) \subseteq back(Y)
  BY DEF MakersOf, ReadBySet
<1>d. IsExtracted(g, given, outputs, f[N])
        <=> /\ f[N] \in SUBSET S /\ first \subseteq f[N] /\ back(f[N]) \subseteq f[N]
            /\ \A X \in SUBSET S : first \subseteq X /\ back(X) \subseteq X => f[N] \subseteq X
  BY <1>b, Zenon DEF IsExtracted
<1> HIDE DEF back
<1>3. /\ f[0] = first /\ f = [k \in 0 .. N |-> f[k]]
      /\ \A k \in 0 .. N : k # N => k + 1 \in 0 .. N /\ f[k + 1] = f[k] \cup back(f[k])
  <2>1. 0 \in 0 .. N /\ \A k \in 0 .. N : k # N => k + 1 \in 0 .. N /\ k + 1 # 0 /\ (k + 1) - 1 = k
    BY <1>0
  <2> QED BY <1>2, <2>1
<1>4. ASSUME NEW X, first \subseteq X, back(X) \subseteq X
      PROVE  \A k \in 0 .. N : f[k] \subseteq X
  <2>0. PICK P : P = {k \in 0 .. N : f[k] \subseteq X}
    OBVIOUS
  <2>1. P \in SUBSET (0 .. N) /\ 0 \in P
    BY <1>0, <1>3, <1>4, <2>0
  <2>2. ASSUME NEW k \in 0 .. N, k # N, k \in P PROVE k + 1 \in P
    <3>1. f[k] \subseteq X /\ back(f[k]) \subseteq X
      BY <1>4, <1>m, <2>0, <2>2
    <3>2. k + 1 \in 0 .. N /\ f[k + 1] = f[k] \cup back(f[k])
      BY <1>3, <2>2
    <3> QED BY <2>0, <3>1, <3>2
  <2>3. \A k \in 0 .. N : k # N /\ k \in P => k + 1 \in P
    BY <2>2
  <2>4. \A k \in 0 .. N : k \in P
    BY <1>0, <2>1, <2>3, UpTo
  <2> QED BY <2>0, <2>4
<1>5. \A k \in 0 .. N : f[k] \in SUBSET S
  <2>1. back(S) \subseteq S
    BY <1>1
  <2> QED BY <1>1, <1>4, <2>1
<1>s. PICK step : step = [X \in SUBSET S |-> back(X)]
  OBVIOUS
<1>6. step \in [SUBSET S -> SUBSET S] /\ \A X \in SUBSET S : step[X] = back(X)
  BY <1>1, <1>s
<1>7. Grow(f, N, S, first, step)
  <2>1. f \in [0 .. N -> SUBSET S]
    BY <1>3, <1>5
  <2>2. ASSUME NEW k \in 1 .. N PROVE f[k] = f[k - 1] \cup step[f[k - 1]]
    <3>1. k - 1 \in 0 .. N /\ k - 1 # N /\ (k - 1) + 1 = k
      BY <1>0
    <3> QED BY <1>3, <1>5, <1>6, <3>1
  <2> QED BY <1>3, <2>1, <2>2 DEF Grow
<1>8. step[f[N]] \subseteq f[N] /\ first \subseteq f[N]
  <2>1. Grown(f, N, S, first, step)
    BY <1>a, <1>b, <1>6, <1>7 DEF Grown
  <2> QED BY <2>1, GrowthEnds
<1>9. N \in 0 .. N
  BY <1>0
<1>10. f[N] \in SUBSET S /\ first \subseteq f[N] /\ back(f[N]) \subseteq f[N]
  BY <1>5, <1>6, <1>8, <1>9
<1>11. \A X \in SUBSET S : first \subseteq X /\ back(X) \subseteq X => f[N] \subseteq X
  BY <1>4, <1>9
<1>12. IsExtracted(g, given, outputs, f[N])
  BY <1>d, <1>10, <1>11
<1> QED BY <1>a, <1>12

\* The model that is extracted has these nodes.
LEMMA ExtractedModel ==
  ASSUME NEW g, IsFiniteSet(DOMAIN g.nodes), NEW given, NEW outputs
  PROVE  \E kept :
           /\ IsExtracted(g, given, outputs, kept)
           /\ extract_model(g, given, outputs)
                = [nodes |-> [n \in kept |-> g.nodes[n]], inputs |-> given,
                   outputs |-> outputs, initializers |-> g.initializers]
<1>a. PICK N : N = Cardinality(DOMAIN g.nodes)
  OBVIOUS
<1>0. N \in Nat
  BY <1>a, FS_CardinalityType
<1>b. PICK S, first : S = DOMAIN g.nodes /\ first = MakersOf(g, given, outputs)
  OBVIOUS
<1> DEFINE back(X) == MakersOf(g, given, ReadBySet(g, X))
<1>1. first \in SUBSET S /\ \A X : back(X) \in SUBSET S
  BY <1>b DEF MakersOf
<1>d. \A f : AreTraced(f, g, given, outputs)
        <=> f = [k \in 0 .. N |-> IF k = 0 THEN first ELSE f[k - 1] \cup back(f[k - 1])]
  BY <1>a, <1>b, Zenon DEF AreTraced
<1> HIDE DEF back
<1>2. \E f : AreTraced(f, g, given, outputs)
  <2>s. PICK step : step = [X \in SUBSET S |-> back(X)]
    OBVIOUS
  <2>1. step \in [SUBSET S -> SUBSET S] /\ \A X \in SUBSET S : step[X] = back(X)
    BY <1>1, <2>s
  <2>2. PICK f : Grow(f, N, S, first, step)
    BY <1>0, <1>1, <2>1, GrowthExists
  <2>3. f = [k \in 0 .. N |-> f[k]] /\ \A k \in 0 .. N : f[k] \in SUBSET S
    BY <2>2 DEF Grow
  <2>4. ASSUME NEW k \in 0 .. N
        PROVE  f[k] = IF k = 0 THEN first ELSE f[k - 1] \cup back(f[k - 1])
    <3>1. CASE k = 0
      BY <2>2, <3>1 DEF Grow
    <3>2. CASE k # 0
      <4>1. k \in 1 .. N /\ k - 1 \in 0 .. N
        BY <1>0, <3>2
      <4>2. f[k] = f[k - 1] \cup step[f[k - 1]]
        BY <2>2, <4>1 DEF Grow
      <4> QED BY <2>1, <2>3, <3>2, <4>1, <4>2
    <3> QED BY <3>1, <3>2
  <2>5. f = [k \in 0 .. N |-> IF k = 0 THEN first ELSE f[k - 1] \cup back(f[k - 1])]
    BY <2>3, <2>4
  <2> QED BY <1>d, <2>5
<1>3. PICK f : AreTraced(f, g, given, outputs)
               /\ extract_model(g, given, outputs)
                = [nodes |-> [n \in f[N] |-> g.nodes[n]], inputs |-> given,
                   outputs |-> outputs, initializers |-> g.initializers]
  BY <1>a, <1>2, Zenon DEF extract_model, AreTraced, MakersOf, ReadBySet
<1>4. IsExtracted(g, given, outputs, f[N])
  BY <1>a, <1>3, TracedIsExtracted
<1> QED BY <1>3, <1>4

IsPartitionFile(file, g, t, layers) ==
  /\ IsModelFile(g) /\ t = build_model_topology(g)
  /\ layers \subseteq t.layers \ boundary(t) /\ layers # {}
  /\ file = extract_model_partition(g, t, layers)

Computes(file, g, t, layers) ==
  /\ extractable(t, layers)
  /\ DOMAIN file.nodes \cap t.layers = layers
  /\ \A n \in DOMAIN file.nodes : file.nodes[n] = g.nodes[n]
  /\ ReadBy(file) \subseteq file.inputs \cup file.initializers \cup Written(file)
  /\ file.outputs \subseteq Written(file)
  /\ file.inputs \cap Written(file) = {}

\* A partition whose layers are some of the model's can be cut out, as these layers
\* and nodes that only depend on weights; it reads what it is given or makes itself,
\* makes what it is asked for, and nothing that it is given.
THEOREM PartitionFiles ==
  ASSUME NEW g, NEW t, NEW L, NEW file, IsPartitionFile(file, g, t, L)
  PROVE  Computes(file, g, t, L)
<1>0. /\ IsModelFile(g) /\ t = build_model_topology(g)
      /\ L \subseteq t.layers \ boundary(t) /\ L # {}
      /\ file = extract_model_partition(g, t, L)
  BY DEF IsPartitionFile
<1> PICK In, Out : In = INPUT_LAYER_NAME /\ Out = OUTPUT_LAYER_NAME /\ In # Out
  BY DEF INPUT_LAYER_NAME, OUTPUT_LAYER_NAME
<1> PICK S : S = DOMAIN g.nodes
  OBVIOUS
<1> PICK made, read : /\ made = [l \in t.layers \cup S |-> find_layer_outputs(g, l)]
                      /\ read = [l \in t.layers \cup S |-> find_layer_inputs(g, l)]
  OBVIOUS
<1>1. /\ IsFiniteSet(S) /\ In \notin S /\ Out \notin S
      /\ \A m, n \in S : g.nodes[m].outputs \cap g.nodes[n].outputs # {} => m = n
      /\ \A n \in S :
           /\ g.nodes[n].outputs \cap (g.nodes[n].inputs \cup g.inputs \cup g.initializers) = {}
           /\ g.nodes[n].inputs \subseteq g.inputs \cup g.initializers \cup Written(g)
      /\ \A l \in t.layers : Out \in get_reachable_from_layer(t, l)
  BY <1>0 DEF IsModelFile, EveryLayerCounts
<1>2. /\ t.layers \subseteq {In, Out} \cup S /\ In \in t.layers /\ IsFiniteSet(t.layers)
      /\ boundary(t) = {In, Out}
  BY <1>0, TopologyOfFile DEF boundary
<1>3. /\ \A n \in S : made[n] = g.nodes[n].outputs /\ read[n] = g.nodes[n].inputs \ g.initializers
      /\ made[In] = g.inputs \ g.initializers
      /\ Out \in t.layers => made[Out] = {}
  <2>1. \A n \in S : n # In /\ n # Out
    BY <1>1
  <2> QED BY <1>2, <2>1 DEF find_layer_outputs, find_layer_inputs
<1>4. \A e \in t.edges : /\ e.source \in t.layers /\ e.target \in t.layers /\ e.tensors # {}
                         /\ e.tensors = made[e.source] \cap read[e.target]
  BY <1>0, TopologyOfFile
<1>5. \A p \in t.layers : \A q \in S :
        p # q /\ made[p] \cap read[q] # {} =>
          q \in t.layers /\ \E e \in t.edges : e.source = p /\ e.target = q
  <2>1. \A p \in t.layers : \A q \in {In, Out} \cup S :
          p # q /\ find_layer_outputs(g, p) \cap find_layer_inputs(g, q) # {} =>
            q \in t.layers /\ \E e \in t.edges : e.source = p /\ e.target = q
    BY <1>0, TopologyOfFile
  <2>2. ASSUME NEW p \in t.layers, NEW q \in S, p # q, made[p] \cap read[q] # {}
        PROVE  q \in t.layers /\ \E e \in t.edges : e.source = p /\ e.target = q
    <3>1. made[p] = find_layer_outputs(g, p) /\ read[q] = find_layer_inputs(g, q)
      BY <2>2
    <3> QED BY <2>1, <2>2, <3>1
  <2> QED BY <2>2
<1>6. \A X \in SUBSET t.layers : In \in X /\ X # t.layers =>
        \E e \in t.edges : e.source \in X /\ e.target \notin X
  BY <1>0, TopologyOfFile
<1> PICK inc, out : inc = extract_incoming(t, L) /\ out = extract_outgoing(t, L)
  OBVIOUS
<1>7. /\ \A x : x \in inc <=> \E e \in t.edges : e.target \in L /\ e.source \notin L /\ x \in e.tensors
      /\ \A x : x \in out <=> \E e \in t.edges : e.source \in L /\ e.target \notin L /\ x \in e.tensors
  BY DEF extract_incoming, extract_outgoing, TensorsOf
<1>8. PICK kept : /\ IsExtracted(g, inc, out, kept)
                  /\ file = [nodes |-> [n \in kept |-> g.nodes[n]], inputs |-> inc,
                             outputs |-> out, initializers |-> g.initializers]
  <2>1. file = extract_model(g, inc, out)
    BY <1>0 DEF extract_model_partition
  <2> QED BY <1>1, <2>1, ExtractedModel
<1>9. L \subseteq S /\ L \subseteq t.layers /\ In \notin L /\ Out \notin L
  BY <1>0, <1>2
<1>10. \A x, m, n : m \in S /\ n \in S /\ x \in g.nodes[m].outputs /\ x \in g.nodes[n].outputs => m = n
  BY <1>1
\* A tensor that enters is the inputs' or of another layer.
<1>11. ASSUME NEW x \in inc, NEW n \in S, x \in g.nodes[n].outputs
       PROVE  n \in t.layers /\ n \notin L
  <2>1. PICK e \in t.edges : e.target \in L /\ e.source \notin L /\ x \in e.tensors
    BY <1>7
  <2>2. x \in made[e.source] /\ e.source \in t.layers
    BY <1>4, <2>1
  <2>3. e.source # In
    BY <1>1, <1>3, <1>11, <2>2
  <2>4. e.source # Out
    BY <1>3, <2>2
  <2>5. e.source \in S
    BY <1>2, <2>2, <2>3, <2>4
  <2>6. e.source = n
    <3>1. x \in g.nodes[e.source].outputs
      BY <1>3, <2>2, <2>5
    <3> QED BY <1>10, <1>11, <2>5, <3>1
  <2> QED BY <2>1, <2>2, <2>6
<1>12. /\ kept \in SUBSET S
       /\ \A n \in S : \A x : x \in g.nodes[n].outputs /\ x \in out /\ x \notin inc => n \in kept
       /\ \A n \in S : \A m \in kept : \A x :
            x \in g.nodes[n].outputs /\ x \in g.nodes[m].inputs /\ x \notin inc => n \in kept
  <2>1. /\ kept \in SUBSET S /\ MakersOf(g, inc, out) \subseteq kept
        /\ MakersOf(g, inc, ReadBySet(g, kept)) \subseteq kept
    BY <1>8 DEF IsExtracted
  <2>2. \A xs, x, n : n \in S /\ x \in g.nodes[n].outputs /\ x \in xs /\ x \notin inc
                        => n \in MakersOf(g, inc, xs)
    BY DEF MakersOf
  <2>3. \A m \in kept : \A x \in g.nodes[m].inputs : x \in ReadBySet(g, kept)
    BY DEF ReadBySet
  <2> QED BY <2>1, <2>2, <2>3
\* Nothing else of the model is kept.
<1>13. kept \cap t.layers \subseteq L
  <2> PICK X : X = L \cup (S \ t.layers)
    OBVIOUS
  <2>1. ASSUME NEW n \in MakersOf(g, inc, out) PROVE n \in X
    <3>1. PICK x : n \in S /\ x \in g.nodes[n].outputs /\ x \in out /\ x \notin inc
      BY DEF MakersOf
    <3>2. PICK e \in t.edges : e.source \in L /\ e.target \notin L /\ x \in e.tensors
      BY <1>7, <3>1
    <3>3. x \in made[e.source] /\ e.source \in S
      BY <1>4, <1>9, <3>2
    <3>4. e.source = n
      <4>1. x \in g.nodes[e.source].outputs
        BY <1>3, <3>3
      <4> QED BY <1>10, <3>1, <3>3, <4>1
    <3> QED BY <3>2, <3>4
  <2>2. ASSUME NEW n \in MakersOf(g, inc, ReadBySet(g, X)), n \notin X PROVE FALSE
    <3>1. PICK x : n \in S /\ x \in g.nodes[n].outputs /\ x \in ReadBySet(g, X) /\ x \notin inc
      BY DEF MakersOf
    <3>2. PICK m \in X : x \in g.nodes[m].inputs
      BY <3>1 DEF ReadBySet
    <3>3. m \in S /\ n \in t.layers /\ n \notin L
      BY <1>9, <2>2, <3>1
    <3>4. x \in made[n] /\ x \in read[m] /\ m # n
      <4>1. g.nodes[n].outputs \cap (g.nodes[n].inputs \cup g.inputs \cup g.initializers) = {}
        BY <1>1, <3>1
      <4>2. x \notin g.nodes[n].inputs /\ x \notin g.initializers
        BY <3>1, <4>1
      <4> QED BY <1>3, <3>1, <3>2, <3>3, <4>2
    <3>5. PICK e \in t.edges : m \in t.layers /\ e.source = n /\ e.target = m
      BY <1>5, <3>3, <3>4
    <3>6. m \in L /\ x \in e.tensors
      BY <1>4, <3>4, <3>5
    <3> QED BY <1>7, <3>1, <3>3, <3>5, <3>6
  <2>3. X \in SUBSET S
    BY <1>9
  <2>4. kept \subseteq X
    BY <1>8, <2>1, <2>2, <2>3 DEF IsExtracted
  <2> QED BY <2>4
<1>14. ASSUME NEW l \in L, NEW X, l \in X, Out \notin X
       PROVE  \E e \in t.edges : e.source \in X /\ e.target \notin X
  <2>1. Out \in get_reachable_from_layer(t, l)
    BY <1>1, <1>9
  <2>2. is_reachable(t, l, Out)
    BY <2>1, Zenon DEF is_reachable, get_reachable_from_layer
  <2> QED BY <1>2, <1>14, <2>2, WayOut
\* Everything that is to be executed is.
<1>15. L \subseteq kept
  <2> SUFFICES ASSUME NEW l \in L, l \notin kept PROVE FALSE
    OBVIOUS
  <2> PICK X : X = L \ kept
    OBVIOUS
  <2>1. PICK e \in t.edges : e.source \in X /\ e.target \notin X
    BY <1>9, <1>14
  <2>2. PICK x \in e.tensors : x \in made[e.source] /\ x \in read[e.target]
    BY <1>4, <2>1
  <2>3. e.source \in S /\ e.source \in L /\ e.source \notin kept /\ x \in g.nodes[e.source].outputs
    BY <1>3, <1>9, <2>1, <2>2
  <2>4. x \notin inc
    BY <1>11, <2>3
  <2>5. CASE e.target \notin L
    <3>1. x \in out
      BY <1>7, <2>3, <2>5
    <3> QED BY <1>12, <2>3, <2>4, <3>1
  <2>6. CASE e.target \in L
    <3>1. e.target \in kept /\ e.target \in S
      BY <1>9, <2>1, <2>6
    <3>2. x \in g.nodes[e.target].inputs
      BY <1>3, <2>2, <3>1
    <3> QED BY <1>12, <2>3, <2>4, <3>1, <3>2
  <2> QED BY <2>5, <2>6
<1>16. extractable(t, L)
  <2>1. out # {}
    <3>1. PICK e \in t.edges : e.source \in L /\ e.target \notin L
      BY <1>0, <1>9, <1>14
    <3> QED BY <1>4, <1>7, <3>1
  <2>2. inc # {}
    <3> PICK X : X = t.layers \ L
      OBVIOUS
    <3>1. PICK e \in t.edges : e.source \in X /\ e.target \notin X
      BY <1>0, <1>2, <1>6, <1>9
    <3>2. e.source \notin L /\ e.target \in L
      BY <1>4, <3>1
    <3> QED BY <1>4, <1>7, <3>2
  <2> QED BY <1>0, <2>1, <2>2 DEF extractable
<1>17. /\ DOMAIN file.nodes = kept /\ file.inputs = inc /\ file.outputs = out
       /\ file.initializers = g.initializers
       /\ \A n \in kept : file.nodes[n] = g.nodes[n]
  BY <1>8
<1>18. /\ \A x : x \in Written(file) <=> \E n \in kept : x \in g.nodes[n].outputs
       /\ \A x : x \in ReadBy(file) <=> \E n \in kept : x \in g.nodes[n].inputs
  BY <1>17 DEF Written, ReadBy
<1>19. ASSUME NEW x \in ReadBy(file), x \notin inc, x \notin g.initializers
       PROVE  x \in Written(file)
  <2>1. PICK n \in kept : n \in S /\ x \in g.nodes[n].inputs
    BY <1>12, <1>18
  <2>2. x \in g.inputs \/ x \in Written(g)
    BY <1>1, <1>19, <2>1
  <2>3. CASE x \in Written(g)
    <3>1. PICK m \in S : x \in g.nodes[m].outputs
      BY <2>3 DEF Written
    <3> QED BY <1>12, <1>18, <1>19, <2>1, <3>1
  <2>4. CASE x \in g.inputs
    <3>1. x \in made[In] /\ x \in read[n] /\ In # n
      <4>1. In # n /\ read[n] = g.nodes[n].inputs \ g.initializers
        BY <1>1, <1>3, <2>1
      <4> QED BY <1>3, <1>19, <2>1, <2>4, <4>1
    <3>2. PICK e \in t.edges : n \in t.layers /\ e.source = In /\ e.target = n
      BY <1>2, <1>5, <2>1, <3>1
    <3>3. x \in e.tensors /\ e.target \in L /\ e.source \notin L
      BY <1>4, <1>9, <1>13, <2>1, <3>1, <3>2
    <3> QED BY <1>7, <1>19, <3>3
  <2> QED BY <2>2, <2>3, <2>4
<1>20. ASSUME NEW x \in out PROVE x \in Written(file)
  <2>1. PICK e \in t.edges : e.source \in L /\ x \in e.tensors
    BY <1>7
  <2>2. x \in g.nodes[e.source].outputs
    BY <1>3, <1>4, <1>9, <2>1
  <2> QED BY <1>15, <1>18, <2>1, <2>2
<1>21. ASSUME NEW x \in inc, x \in Written(file) PROVE FALSE
  <2>1. PICK n \in kept : n \in S /\ x \in g.nodes[n].outputs
    BY <1>12, <1>18, <1>21
  <2> QED BY <1>11, <1>13, <2>1
<1>22. kept \cap t.layers = L
  BY <1>9, <1>13, <1>15
<1> QED BY <1>16, <1>17, <1>19, <1>20, <1>21, <1>22 DEF Computes

-----------------------------------------------------------------------------
(* The partitions of the plans.                                            *)

\* The file that a component's partition is cut out as.
CutOut(id) ==
  extract_model_partition(Files[id.variant], Models[id.variant].topology, id.layers)

LEMMA ComponentFile ==
  ASSUME AnswersInv, NEW k \in 1 .. Len(answers), NEW i \in executable_components(Solved[k]),
         NEW id, id = partition_id(Solved[k], i)
  PROVE  /\ id.variant = answers[k].variant
         /\ IsPartitionFile(CutOut(id), Files[id.variant], Models[id.variant].topology, id.layers)
<1> PICK fs, new, a : fs = solution[k] /\ new = Solved[k] /\ a = answers[k]
  OBVIOUS
<1> PICK last : last = component_last(a)
  OBVIOUS
<1>1. /\ a \in WellCut /\ IsFlowOf(fs, a) /\ IsSolutionOf(new, a)
      /\ IsSolved(new, fs, last, PrioritiesOf(k))
  BY SolvedOf, SolvedFlows
<1>2. id.variant = new.variant /\ id.layers = new.components[i].layers
  BY DEF partition_id
<1>3. new.variant = a.variant
  <2>1. fs.variant = a.variant
    BY <1>1, ExtractedCarries DEF Carries
  <2>2. new.variant = fs.variant
    BY <1>1, Zenon DEF IsSolved
  <2> QED BY <2>1, <2>2, Zenon
<1> PICK g, t, L : g = Files[id.variant] /\ t = Models[id.variant].topology /\ L = id.layers
  OBVIOUS
<1>4. i \in 1 .. last /\ L # {}
  BY <1>1, <1>2 DEF executable_components, IsSolutionOf
<1>5. L \subseteq t.layers \ boundary(t)
  <2>1. L = layers_of(a, i) \ boundary(t)
    BY <1>1, <1>2, <1>3, <1>4 DEF IsSolutionOf
  <2>2. layers_of(a, i) \subseteq t.layers
    BY <1>1, <1>2, <1>3, CutFacts DEF layers_of
  <2> QED BY <2>1, <2>2
<1>6. IsModelFile(g) /\ t = build_model_topology(g)
  <2>1. id.variant \in DOMAIN Files
    BY <1>1, <1>2, <1>3, CutFacts DEF Models
  <2> QED BY <2>1, FilesAreModels
<1>7. IsPartitionFile(CutOut(id), g, t, L)
  BY <1>4, <1>5, <1>6 DEF IsPartitionFile, CutOut
<1> QED BY <1>2, <1>3, <1>7

LEMMA FileOfComponent ==
  ASSUME AnswersInv, NEW k \in 1 .. Len(answers), NEW i \in executable_components(Solved[k]),
         NEW id, id = partition_id(Solved[k], i)
  PROVE  /\ id.variant = answers[k].variant
         /\ Computes(CutOut(id), Files[id.variant], Models[id.variant].topology, id.layers)
<1> PICK file, g, t, L : /\ file = CutOut(id) /\ g = Files[id.variant]
                         /\ t = Models[id.variant].topology /\ L = id.layers
  OBVIOUS
<1>1. id.variant = answers[k].variant /\ IsPartitionFile(file, g, t, L)
  BY ComponentFile
<1>2. Computes(file, g, t, L)
  BY <1>1, PartitionFiles
<1> QED BY <1>1, <1>2

LEMMA LayersMakeResults ==
  ASSUME NEW g, IsModelFile(g), NEW t, t = build_model_topology(g), NEW x \in g.outputs
  PROVE  \E l \in t.layers \ boundary(t) : x \in g.nodes[l].outputs
<1> QED BY DEF IsModelFile

LEMMA WrittenByNode ==
  ASSUME NEW file, NEW n \in DOMAIN file.nodes, NEW x \in file.nodes[n].outputs
  PROVE  x \in Written(file)
<1> QED BY DEF Written

\* What makes an output of the model is in a component, and is executed with it.
LEMMA OutputsAreMade ==
  ASSUME AnswersInv, PlansInv, plans # <<>>, NEW k \in DOMAIN solution,
         NEW x \in Files[solution[k].variant].outputs
  PROVE  \E p \in Placed : /\ p[2][1] = k /\ HopOf(p).kind = "partition"
                           /\ x \in Written(PartitionFile(HopOf(p)))
<1>1. k \in 1 .. Len(answers)
  BY DEF AnswersInv
<1> PICK fs, new, a, sol : fs = solution[k] /\ new = Solved[k] /\ a = answers[k] /\ sol = Solved
  OBVIOUS
<1>2. a \in WellCut /\ IsFlowOf(fs, a) /\ IsSolutionOf(new, a)
  BY <1>1, SolvedOf, SolvedFlows
<1>3. fs.variant = a.variant
  BY <1>2, ExtractedCarries DEF Carries
<1> PICK v, g, t : v = a.variant /\ g = Files[v] /\ t = Models[v].topology
  OBVIOUS
<1>4. PICK l \in t.layers \ boundary(t) : x \in g.nodes[l].outputs
  <2>1. v \in DOMAIN Files
    BY <1>2, CutFacts DEF Models
  <2>2. IsModelFile(g) /\ t = build_model_topology(g)
    BY <2>1, FilesAreModels
  <2>3. x \in g.outputs
    BY <1>3
  <2> QED BY <2>2, <2>3, LayersMakeResults
<1> PICK i : i = a.component_of[l]
  OBVIOUS
<1>5. i \in 1 .. component_last(a) /\ l \in new.components[i].layers
  <2> PICK c, last : c = a.component_of /\ last = component_last(a)
    OBVIOUS
  <2>1. /\ \A m \in t.layers : c[m] \in 1 .. last
        /\ \A j \in 1 .. last : \A m :
             m \in new.components[j].layers
               <=> m \in t.layers /\ c[m] = j /\ m \notin t.inputs /\ m \notin t.outputs
    BY <1>2, LayersOfAnswer, SMTT(30)
  <2> QED BY <2>1 DEF boundary
<1>6. i \in executable_components(new)
  BY <1>2, <1>5 DEF executable_components, IsSolutionOf
<1> PICK s, p : s = <<k, i>> /\ p = <<worker_at(sol, s), s>>
  OBVIOUS
<1>7. p \in Placed
  <2>1. IsSolution(sol)
    BY DEF PlansInv
  <2>2. s \in SlotsOf(sol)
    BY <1>1, <1>6, SlotOf, SolvedFlows DEF Receiving
  <2> QED BY <2>2, PlacedSlots
<1>8. HopOf(p).kind = "partition" /\ HopOf(p).of = partition_id(new, i)
  <2>1. PICK j \in 1 .. Len(answers) : \E h \in {0} \cup Receiving(Solved[j]) :
          /\ p[2] = <<j, h>>
          /\ HopOf(p).kind = "partition" <=> h \in executable_components(Solved[j])
          /\ HopOf(p).kind = "partition" => HopOf(p).of = partition_id(Solved[j], h)
    BY <1>7, HopsOfSlots
  <2>2. PICK h \in {0} \cup Receiving(Solved[j]) :
          /\ p[2] = <<j, h>>
          /\ HopOf(p).kind = "partition" <=> h \in executable_components(Solved[j])
          /\ HopOf(p).kind = "partition" => HopOf(p).of = partition_id(Solved[j], h)
    BY <2>1
  <2>3. j = k /\ h = i
    BY <2>2
  <2> QED BY <1>6, <2>2, <2>3
<1> PICK id, file : id = partition_id(Solved[k], i) /\ file = PartitionFile(HopOf(p))
  OBVIOUS
<1>9. /\ id.variant = v /\ l \in id.layers
      /\ DOMAIN file.nodes \cap t.layers = id.layers
      /\ \A n \in DOMAIN file.nodes : file.nodes[n] = g.nodes[n]
  <2>1. /\ id.variant = v
        /\ Computes(CutOut(id), Files[id.variant], Models[id.variant].topology, id.layers)
    BY <1>1, <1>6, FileOfComponent
  <2>2. file = CutOut(id)
    BY <1>8 DEF PartitionFile, CutOut
  <2>3. id.layers = new.components[i].layers
    BY DEF partition_id
  <2>4. /\ DOMAIN file.nodes \cap t.layers = id.layers
        /\ \A n \in DOMAIN file.nodes : file.nodes[n] = g.nodes[n]
    <3>1. Computes(file, g, t, id.layers)
      BY <2>1, <2>2
    <3>2. \A n \in DOMAIN file.nodes : file.nodes[n] = g.nodes[n]
      BY <3>1, Zenon DEF Computes
    <3>3. DOMAIN file.nodes \cap t.layers = id.layers
      BY <3>1, Zenon DEF Computes
    <3> QED BY <3>2, <3>3
  <2> QED BY <1>5, <2>1, <2>3, <2>4
<1>10. x \in Written(file)
  <2>1. l \in DOMAIN file.nodes
    BY <1>4, <1>9
  <2>2. x \in file.nodes[l].outputs
    BY <1>4, <1>9, <2>1
  <2> QED BY <2>1, <2>2, WrittenByNode
<1> QED BY <1>7, <1>8, <1>10

LEMMA PartitionsOfInvCompute ==
  ASSUME AnswersInv, PlansInv
  PROVE  PartitionsComputeTheModel
<1>1. ASSUME NEW p \in Placed, HopOf(p).kind = "partition",
             NEW t, t = Models[HopOf(p).of.variant].topology,
             NEW file, file = PartitionFile(HopOf(p))
      PROVE  /\ extractable(t, HopOf(p).of.layers)
             /\ DOMAIN file.nodes \cap t.layers = HopOf(p).of.layers
             /\ ReadBy(file) \subseteq file.inputs \cup file.initializers \cup Written(file)
             /\ file.outputs \subseteq Written(file)
             /\ file.inputs \cap Written(file) = {}
  <2> PICK id : id = HopOf(p).of
    OBVIOUS
  <2>1. PICK k \in 1 .. Len(answers) : \E i \in {0} \cup Receiving(Solved[k]) :
          i \in executable_components(Solved[k]) /\ id = partition_id(Solved[k], i)
    BY <1>1, HopsOfSlots
  <2>2. PICK i \in executable_components(Solved[k]) : id = partition_id(Solved[k], i)
    BY <2>1
  <2>3. file = CutOut(id)
    BY <1>1 DEF PartitionFile, CutOut
  <2>4. Computes(CutOut(id), Files[id.variant], t, id.layers)
    BY <1>1, <2>2, FileOfComponent
  <2> QED BY <2>3, <2>4 DEF Computes
<1>2. ASSUME plans # <<>>, NEW k \in DOMAIN solution
      PROVE  Files[solution[k].variant].outputs \subseteq
               UNION {Written(PartitionFile(HopOf(p))) :
                        p \in {q \in Placed : q[2][1] = k /\ HopOf(q).kind = "partition"}}
  BY <1>2, OutputsAreMade
<1> QED BY <1>1, <1>2, Zenon DEF PartitionsComputeTheModel

-----------------------------------------------------------------------------
(* One contribution.                                                       *)

\* What one contribution brings.
LEMMA PayloadOfOne ==
  ASSUME NEW c, c.bundle = [x \in DOMAIN c.bundle |-> c.bundle[x]]
  PROVE  full_payload({c}) = c.bundle
<1> DEFINE first(s) == CHOOSE x \in s : TRUE
           Folded(f) == f = [s \in SUBSET {c} |->
                               IF s = {} THEN NoTensors
                               ELSE LET x == first(s)
                                    IN merge(f[s \ {x}], x.bundle)]
<1>1. PICK f : f = [s \in SUBSET {c} |-> IF s = {} THEN NoTensors ELSE merge(NoTensors, c.bundle)]
  OBVIOUS
<1>2. f[{}] = NoTensors /\ f[{c}] = merge(NoTensors, c.bundle)
  BY <1>1
<1>3. \A s \in SUBSET {c} : s # {} => s = {c} /\ first(s) = c
  OBVIOUS
<1>4. Folded(f)
  <2>1. ASSUME NEW s \in SUBSET {c}
        PROVE  f[s] = IF s = {} THEN NoTensors ELSE merge(f[s \ {first(s)}], first(s).bundle)
    <3>1. CASE s = {}
      BY <1>1, <3>1
    <3>2. CASE s # {}
      <4>1. s = {c} /\ first(s) = c /\ s \ {first(s)} = {}
        BY <1>3, <3>2
      <4> HIDE DEF first
      <4> QED BY <1>2, <3>2, <4>1
    <3> QED BY <3>1, <3>2
  <2>2. f = [s \in SUBSET {c} |-> f[s]]
    BY <1>1
  <2> HIDE DEF first
  <2> QED BY <2>1, <2>2
<1>5. PICK h : Folded(h) /\ full_payload({c}) = h[{c}]
  BY <1>4, Zenon DEF full_payload, FoldSet, MapThenFoldSet
<1>6. h[{c}] = merge(NoTensors, c.bundle)
  <2>1. first({c}) = c /\ {c} \ {c} = {} /\ {c} # {} /\ {c} \in SUBSET {c} /\ {} \in SUBSET {c}
    BY <1>3
  <2> HIDE DEF first
  <2>2. h[{}] = NoTensors
    BY <1>5, <2>1
  <2>3. h[{c}] = merge(h[{}], c.bundle)
    BY <1>5, <2>1
  <2> QED BY <2>2, <2>3
<1>7. merge(NoTensors, c.bundle) = c.bundle
  BY DEF merge, NoTensors
<1> QED BY <1>5, <1>6, <1>7

-----------------------------------------------------------------------------
(* What a session computes.                                                *)

GivenTo(file, bundle) == DOMAIN bundle \cap file.inputs
Known(file, bundle) == file.initializers \cup GivenTo(file, bundle) \cup Written(file)

\* Nothing is made twice or given too, and what is read is given or made before.
IsRunnable(file, bundle) ==
  /\ IsFiniteSet(DOMAIN file.nodes)
  /\ \E place : \A m, n \in DOMAIN file.nodes :
       /\ place[m] \in Nat
       /\ file.nodes[m].outputs \cap file.nodes[n].inputs # {} => place[m] < place[n]
  /\ \A m, n \in DOMAIN file.nodes :
       file.nodes[m].outputs \cap file.nodes[n].outputs # {} => m = n
  /\ \A n \in DOMAIN file.nodes :
       /\ file.nodes[n].outputs \cap (file.initializers \cup GivenTo(file, bundle)) = {}
       /\ file.nodes[n].inputs \subseteq Known(file, bundle)
  /\ file.initializers \cap GivenTo(file, bundle) = {}

\* What the nodes of a file make, of whatever the tensors they read are.
AreMade(values, nodes) ==
  \A n \in DOMAIN nodes : \A x \in nodes[n].outputs :
    values[x] = [operator |-> n, output |-> x, of |-> [y \in nodes[n].inputs |-> values[y]]]

\* The tensors of a run, the weights and what is given among them.
IsRun(values, file, bundle) ==
  /\ values = [x \in Known(file, bundle) |-> values[x]]
  /\ \A x \in GivenTo(file, bundle) : values[x] = bundle[x]
  /\ \A x \in file.initializers : values[x] = [weight |-> x]
  /\ AreMade(values, file.nodes)

ReadyIn(file, known) == {n \in DOMAIN file.nodes : file.nodes[n].inputs \subseteq DOMAIN known}
WrittenIn(file, known) ==
  [x \in UNION {file.nodes[n].outputs : n \in ReadyIn(file, known)} |->
     LET n == CHOOSE n \in ReadyIn(file, known) : x \in file.nodes[n].outputs
     IN [operator |-> n, output |-> x, of |-> Restrict(known, file.nodes[n].inputs)]]
AtFirst(file, bundle) ==
  merge([x \in file.initializers |-> [weight |-> x]], filter(bundle, file.inputs))

AreSessionRounds(f, file, bundle, rounds) ==
  f = [n \in 0 .. rounds |->
         IF n = 0 THEN AtFirst(file, bundle)
         ELSE merge(f[n - 1], WrittenIn(file, f[n - 1]))]

\* The rounds are defined, however many there are.
LEMMA SessionRoundsExist ==
  ASSUME NEW file, NEW bundle, NEW rounds \in Nat
  PROVE  \E f : AreSessionRounds(f, file, bundle, rounds)
<1> DEFINE step(X) == merge(X, WrittenIn(file, X))
           are_rounds(n, f) ==
             f = [m \in 0 .. n |-> IF m = 0 THEN AtFirst(file, bundle) ELSE step(f[m - 1])]
           Defined == {n \in 0 .. rounds : \E f : are_rounds(n, f)}
<1> PICK start : start = AtFirst(file, bundle)
  OBVIOUS
<1>1. 0 \in Defined
  <2>1. are_rounds(0, [m \in 0 .. 0 |-> start])
    <3> HIDE DEF step
    <3> QED OBVIOUS
  <2>2. 0 \in 0 .. rounds
    OBVIOUS
  <2> HIDE DEF are_rounds
  <2> QED BY <2>1, <2>2
<1>2. ASSUME NEW b \in 0 .. rounds, b # rounds, b \in Defined PROVE b + 1 \in Defined
  <2> HIDE DEF step
  <2>1. PICK f : are_rounds(b, f)
    BY <1>2
  <2> PICK last : last = step(f[b])
    OBVIOUS
  <2> PICK g : g = [m \in 0 .. b + 1 |-> IF m = b + 1 THEN last ELSE f[m]]
    OBVIOUS
  <2>2. ASSUME NEW m \in 0 .. b + 1
        PROVE  g[m] = IF m = 0 THEN start ELSE step(g[m - 1])
    <3>1. CASE m = b + 1
      <4>1. m # 0 /\ m - 1 = b /\ b \in 0 .. b + 1 /\ b # b + 1
        BY <3>1
      <4>2. g[b] = f[b] /\ g[m] = last
        BY <3>1, <4>1
      <4> QED BY <4>1, <4>2
    <3>2. CASE m # b + 1 /\ m # 0
      <4>1. m \in 0 .. b /\ m - 1 \in 0 .. b /\ m - 1 \in 0 .. b + 1 /\ m - 1 # b + 1
        BY <3>2
      <4>2. g[m] = f[m] /\ g[m - 1] = f[m - 1]
        BY <3>2, <4>1
      <4>3. f[m] = step(f[m - 1])
        BY <2>1, <3>2, <4>1
      <4> QED BY <3>2, <4>2, <4>3
    <3>3. CASE m = 0
      <4>1. g[0] = f[0] /\ f[0] = start
        BY <2>1, <3>3
      <4> QED BY <3>3, <4>1
    <3> QED BY <3>1, <3>2, <3>3
  <2>3. g = [m \in 0 .. b + 1 |-> g[m]]
    OBVIOUS
  <2>4. are_rounds(b + 1, g)
    BY <2>2, <2>3
  <2>5. b + 1 \in 0 .. rounds
    BY <1>2
  <2> HIDE DEF are_rounds
  <2> QED BY <2>4, <2>5
<1>3. rounds \in Defined
  <2>1. Defined \in SUBSET (0 .. rounds) /\ \A b \in 0 .. rounds : b # rounds /\ b \in Defined => b + 1 \in Defined
    BY <1>2
  <2> HIDE DEF Defined
  <2>2. \A b \in 0 .. rounds : b \in Defined
    BY <1>1, <2>1, UpTo
  <2> QED BY <2>2
<1>4. PICK f : are_rounds(rounds, f)
  BY <1>3
<1>5. AreSessionRounds(f, file, bundle, rounds)
  BY <1>4, Zenon DEF AreSessionRounds
<1> QED BY <1>5

Outs(file, X) == UNION {file.nodes[n].outputs : n \in X}

\* After a round with these nodes a tensor has its value for good.
IsPart(file, bundle, known, ran) ==
  LET given == file.initializers \cup GivenTo(file, bundle) IN
  /\ ran \in SUBSET DOMAIN file.nodes
  /\ known = [x \in given \cup Outs(file, ran) |-> known[x]]
  /\ \A x \in GivenTo(file, bundle) : known[x] = bundle[x]
  /\ \A x \in file.initializers : known[x] = [weight |-> x]
  /\ \A n \in ran :
       /\ file.nodes[n].inputs \subseteq DOMAIN known
       /\ \A x \in file.nodes[n].outputs :
            known[x] = [operator |-> n, output |-> x,
                        of |-> Restrict(known, file.nodes[n].inputs)]

LEMMA FirstPart ==
  ASSUME NEW file, NEW bundle, IsRunnable(file, bundle)
  PROVE  IsPart(file, bundle, AtFirst(file, bundle), {})
<1> PICK weights, given, start :
      /\ weights = [x \in file.initializers |-> [weight |-> x]]
      /\ given = filter(bundle, file.inputs) /\ start = AtFirst(file, bundle)
  OBVIOUS
<1>1. /\ DOMAIN given = GivenTo(file, bundle) /\ \A x \in GivenTo(file, bundle) : given[x] = bundle[x]
      /\ file.initializers \cap GivenTo(file, bundle) = {}
  BY DEF filter, Restrict, GivenTo, IsRunnable
<1>2. start = [x \in file.initializers \cup GivenTo(file, bundle) |->
                 IF x \in GivenTo(file, bundle) THEN given[x] ELSE weights[x]]
  <2>1. start = merge(weights, given) /\ DOMAIN weights = file.initializers
    BY DEF AtFirst
  <2> QED BY <1>1, <2>1 DEF merge
<1>3. Outs(file, {}) = {}
  BY DEF Outs
<1>4. /\ \A x \in GivenTo(file, bundle) : start[x] = bundle[x]
      /\ \A x \in file.initializers : start[x] = [weight |-> x]
  BY <1>1, <1>2
<1>5. start = [x \in (file.initializers \cup GivenTo(file, bundle)) \cup Outs(file, {}) |-> start[x]]
  BY <1>2, <1>3
<1> QED BY <1>4, <1>5 DEF IsPart

LEMMA NextPart ==
  ASSUME NEW file, NEW bundle, NEW known, NEW ran,
         IsRunnable(file, bundle) /\ IsPart(file, bundle, known, ran)
  PROVE  /\ IsPart(file, bundle, merge(known, WrittenIn(file, known)), ReadyIn(file, known))
         /\ ran \subseteq ReadyIn(file, known)
<1> PICK S, nodes, given : /\ S = DOMAIN file.nodes /\ nodes = file.nodes
                           /\ given = file.initializers \cup GivenTo(file, bundle)
  OBVIOUS
<1> PICK ready, made, after : /\ ready = ReadyIn(file, known) /\ made = WrittenIn(file, known)
                              /\ after = merge(known, WrittenIn(file, known))
  OBVIOUS
<1>1. /\ \A m, n \in S : nodes[m].outputs \cap nodes[n].outputs # {} => m = n
      /\ \A n \in S : nodes[n].outputs \cap given = {}
  BY DEF IsRunnable
<1>2. /\ ran \in SUBSET S
      /\ known = [x \in given \cup Outs(file, ran) |-> known[x]]
      /\ \A x \in GivenTo(file, bundle) : known[x] = bundle[x]
      /\ \A x \in file.initializers : known[x] = [weight |-> x]
      /\ \A n \in ran :
           /\ nodes[n].inputs \subseteq DOMAIN known
           /\ \A x \in nodes[n].outputs :
                known[x] = [operator |-> n, output |-> x, of |-> Restrict(known, nodes[n].inputs)]
  BY DEF IsPart
<1>3. ready \in SUBSET S /\ \A n \in S : n \in ready <=> nodes[n].inputs \subseteq DOMAIN known
  BY DEF ReadyIn
<1>4. ran \subseteq ready
  BY <1>2, <1>3
<1>5. /\ DOMAIN made = Outs(file, ready)
      /\ \A n \in ready : \A x \in nodes[n].outputs :
           made[x] = [operator |-> n, output |-> x, of |-> Restrict(known, nodes[n].inputs)]
  <2>1. DOMAIN made = Outs(file, ready)
    BY DEF WrittenIn, Outs
  <2>2. ASSUME NEW n \in ready, NEW x \in nodes[n].outputs
        PROVE  made[x] = [operator |-> n, output |-> x, of |-> Restrict(known, nodes[n].inputs)]
    <3>1. x \in Outs(file, ready)
      BY DEF Outs
    <3>2. n = CHOOSE m \in ready : x \in nodes[m].outputs
      BY <1>1, <1>3, <2>2
    <3>3. made = [y \in Outs(file, ready) |->
                    LET m == CHOOSE m \in ready : y \in nodes[m].outputs
                    IN [operator |-> m, output |-> y, of |-> Restrict(known, nodes[m].inputs)]]
      BY DEF WrittenIn, Outs
    <3> QED BY <3>1, <3>2, <3>3
  <2> QED BY <2>1, <2>2
<1>6. /\ DOMAIN after = DOMAIN known \cup Outs(file, ready)
      /\ after = [x \in DOMAIN after |-> after[x]]
      /\ \A x \in DOMAIN after : after[x] = IF x \in Outs(file, ready) THEN made[x] ELSE known[x]
  BY <1>5 DEF merge
<1>7. Outs(file, ran) \subseteq Outs(file, ready)
  BY <1>4 DEF Outs
<1>8. DOMAIN after = given \cup Outs(file, ready)
  <2>1. DOMAIN known = given \cup Outs(file, ran)
    BY <1>2
  <2> QED BY <1>6, <1>7, <2>1
<1>9. given \cap Outs(file, ready) = {}
  BY <1>1, <1>3 DEF Outs
\* What was known does not change.
<1>10. ASSUME NEW x \in DOMAIN known PROVE x \in DOMAIN after /\ after[x] = known[x]
  <2>1. x \in DOMAIN after
    BY <1>6
  <2>2. CASE x \in given
    <3>1. x \notin Outs(file, ready)
      BY <1>9, <2>2
    <3> QED BY <1>6, <2>1, <3>1
  <2>3. CASE x \notin given
    <3>1. x \in Outs(file, ran)
      BY <1>2, <2>3
    <3>2. PICK n \in ran : x \in nodes[n].outputs
      BY <3>1 DEF Outs
    <3>3. n \in ready /\ x \in Outs(file, ready)
      BY <1>4, <1>7, <3>1, <3>2
    <3>4. made[x] = known[x]
      BY <1>2, <1>5, <3>2, <3>3, ZenonT(30)
    <3> QED BY <1>6, <2>1, <3>3, <3>4
  <2> QED BY <2>2, <2>3
<1>11. \A n \in ready : Restrict(after, nodes[n].inputs) = Restrict(known, nodes[n].inputs)
  <2> SUFFICES ASSUME NEW n \in ready
               PROVE  Restrict(after, nodes[n].inputs) = Restrict(known, nodes[n].inputs)
    OBVIOUS
  <2>1. \A x \in nodes[n].inputs : after[x] = known[x]
    BY <1>3, <1>10
  <2> QED BY <2>1 DEF Restrict
<1>12. ASSUME NEW n \in ready
       PROVE  /\ nodes[n].inputs \subseteq DOMAIN after
              /\ \A x \in nodes[n].outputs :
                   after[x] = [operator |-> n, output |-> x, of |-> Restrict(after, nodes[n].inputs)]
  <2>1. nodes[n].inputs \subseteq DOMAIN after
    BY <1>3, <1>10
  <2>2. ASSUME NEW x \in nodes[n].outputs
        PROVE  after[x] = [operator |-> n, output |-> x, of |-> Restrict(after, nodes[n].inputs)]
    <3>1. x \in Outs(file, ready) /\ x \in DOMAIN after
      BY <1>6 DEF Outs
    <3>2. after[x] = made[x]
      BY <1>6, <3>1
    <3>3. made[x] = [operator |-> n, output |-> x, of |-> Restrict(known, nodes[n].inputs)]
      BY <1>5, Zenon
    <3>4. Restrict(after, nodes[n].inputs) = Restrict(known, nodes[n].inputs)
      BY <1>11
    <3> QED BY <3>2, <3>3, <3>4, Zenon
  <2> QED BY <2>1, <2>2
<1>13. /\ \A x \in GivenTo(file, bundle) : after[x] = bundle[x]
       /\ \A x \in file.initializers : after[x] = [weight |-> x]
  <2>1. \A x \in given : x \in DOMAIN known
    BY <1>2
  <2>2. \A x \in given : after[x] = known[x]
    BY <1>10, <2>1
  <2> QED BY <1>2, <2>2
<1>14. after = [x \in given \cup Outs(file, ready) |-> after[x]]
  BY <1>6, <1>8
<1>15. IsPart(file, bundle, after, ready)
  BY <1>3, <1>12, <1>13, <1>14, Zenon DEF IsPart
<1> QED BY <1>4, <1>15

LEMMA SessionUnfolds ==
  ASSUME NEW file, NEW bundle, NEW f,
         AreSessionRounds(f, file, bundle, Cardinality(DOMAIN file.nodes))
  PROVE  \E g : AreSessionRounds(g, file, bundle, Cardinality(DOMAIN file.nodes))
               /\ run_session(file, bundle) = filter(g[Cardinality(DOMAIN file.nodes)], file.outputs)
<1> DEFINE given == merge([x \in file.initializers |-> [weight |-> x]],
                     filter(bundle, file.inputs))
           reads(n, known) == Restrict(known, file.nodes[n].inputs)
           ready(known) ==
             {n \in DOMAIN file.nodes : file.nodes[n].inputs \subseteq DOMAIN known}
           written(known) ==
             [x \in UNION {file.nodes[n].outputs : n \in ready(known)} |->
                LET n == CHOOSE n \in ready(known) : x \in file.nodes[n].outputs
                IN [operator |-> n, output |-> x, of |-> reads(n, known)]]
           Is(h) == h = [n \in 0 .. Cardinality(DOMAIN file.nodes) |->
              IF n = 0 THEN given
              ELSE LET earlier == h[n - 1] IN merge(earlier, written(earlier))]
<1>1. Is(f)
  BY Zenon DEF AreSessionRounds, AtFirst, WrittenIn, ReadyIn
<1>2. run_session(file, bundle) = filter((CHOOSE h : Is(h))[Cardinality(DOMAIN file.nodes)], file.outputs)
  BY Zenon DEF run_session
<1>3. PICK g : Is(g) /\ run_session(file, bundle) = filter(g[Cardinality(DOMAIN file.nodes)], file.outputs)
  <2> HIDE DEF Is
  <2> QED BY <1>1, <1>2
<1>4. AreSessionRounds(g, file, bundle, Cardinality(DOMAIN file.nodes))
  BY <1>3, Zenon DEF AreSessionRounds, AtFirst, WrittenIn, ReadyIn
<1> QED BY <1>3, <1>4

\* Everything has run in the end, and a session returns what was asked for.
LEMMA SessionRuns ==
  ASSUME NEW file, NEW bundle, IsRunnable(file, bundle)
  PROVE  \E values : /\ IsRun(values, file, bundle)
                     /\ run_session(file, bundle) = filter(values, file.outputs)
<1>a. PICK N : N = Cardinality(DOMAIN file.nodes)
  OBVIOUS
<1> PICK S, nodes, given : /\ S = DOMAIN file.nodes /\ nodes = file.nodes
                           /\ given = file.initializers \cup GivenTo(file, bundle)
  OBVIOUS
<1>0. N \in Nat /\ N \in 0 .. N /\ 0 \in 0 .. N
  BY <1>a, FS_CardinalityType DEF IsRunnable
<1>1. PICK f : AreSessionRounds(f, file, bundle, N)
               /\ run_session(file, bundle) = filter(f[N], file.outputs)
  <2>1. \E f : AreSessionRounds(f, file, bundle, N)
    BY <1>0, SessionRoundsExist
  <2> QED BY <1>a, <2>1, SessionUnfolds
<1>2. /\ f[0] = AtFirst(file, bundle)
      /\ \A k \in 0 .. N : k # N =>
           k + 1 \in 0 .. N /\ f[k + 1] = merge(f[k], WrittenIn(file, f[k]))
  <2>1. \A k \in 0 .. N : f[k] = IF k = 0 THEN AtFirst(file, bundle)
                                 ELSE merge(f[k - 1], WrittenIn(file, f[k - 1]))
    BY <1>1 DEF AreSessionRounds
  <2>2. \A k \in 0 .. N : k # N => k + 1 \in 0 .. N /\ k + 1 # 0 /\ (k + 1) - 1 = k
    BY <1>0
  <2> QED BY <1>0, <2>1, <2>2
<1> PICK ran : ran = [k \in 0 .. N |-> IF k = 0 THEN {} ELSE ReadyIn(file, f[k - 1])]
  OBVIOUS
<1>3. /\ ran[0] = {}
      /\ \A k \in 0 .. N : k # N => ran[k + 1] = ReadyIn(file, f[k])
  <2>1. \A k \in 0 .. N : k # N => k + 1 \in 0 .. N /\ k + 1 # 0 /\ (k + 1) - 1 = k
    BY <1>0
  <2> QED BY <1>0, <2>1
<1>4. \A k \in 0 .. N : IsPart(file, bundle, f[k], ran[k])
  <2> PICK P : P = {k \in 0 .. N : IsPart(file, bundle, f[k], ran[k])}
    OBVIOUS
  <2>1. P \in SUBSET (0 .. N) /\ 0 \in P
    BY <1>0, <1>2, <1>3, FirstPart
  <2>2. ASSUME NEW k \in 0 .. N, k # N, k \in P PROVE k + 1 \in P
    <3> PICK known, now : known = f[k] /\ now = ran[k]
      OBVIOUS
    <3>1. IsPart(file, bundle, merge(known, WrittenIn(file, known)), ReadyIn(file, known))
      BY <2>2, NextPart
    <3> QED BY <1>2, <1>3, <2>2, <3>1
  <2>3. \A k \in 0 .. N : k # N /\ k \in P => k + 1 \in P
    BY <2>2
  <2>4. \A k \in 0 .. N : k \in P
    BY <1>0, <2>1, <2>3, UpTo
  <2> QED BY <2>4
<1>5. \A k \in 0 .. N : k # N => ran[k] \subseteq ran[k + 1]
  <2> SUFFICES ASSUME NEW k \in 0 .. N, k # N PROVE ran[k] \subseteq ran[k + 1]
    OBVIOUS
  <2> PICK known, now : known = f[k] /\ now = ran[k]
    OBVIOUS
  <2>1. now \subseteq ReadyIn(file, known)
    BY <1>4, NextPart
  <2> QED BY <1>3, <2>1
<1>s. PICK step : step = [X \in SUBSET S |-> {n \in S : nodes[n].inputs \subseteq given \cup Outs(file, X)}]
  OBVIOUS
<1>6. step \in [SUBSET S -> SUBSET S]
      /\ \A X \in SUBSET S : step[X] = {n \in S : nodes[n].inputs \subseteq given \cup Outs(file, X)}
  BY <1>s
<1>7. \A k \in 0 .. N : ran[k] \in SUBSET S /\ DOMAIN f[k] = given \cup Outs(file, ran[k])
  BY <1>4 DEF IsPart
<1>8. Grow(ran, N, S, {}, step)
  <2>1. ran \in [0 .. N -> SUBSET S]
    BY <1>7
  <2>2. ASSUME NEW k \in 1 .. N PROVE ran[k] = ran[k - 1] \cup step[ran[k - 1]]
    <3> PICK j : j = k - 1
      OBVIOUS
    <3>1. j \in 0 .. N /\ j # N /\ j + 1 = k
      BY <1>0
    <3>2. ran[k] = ReadyIn(file, f[j]) /\ ran[j] \subseteq ran[k]
      BY <1>3, <1>5, <3>1
    <3>3. ReadyIn(file, f[j]) = step[ran[j]]
      BY <1>6, <1>7, <3>1 DEF ReadyIn
    <3> QED BY <3>2, <3>3
  <2> QED BY <1>3, <2>1, <2>2 DEF Grow
<1> PICK all, values : all = ran[N] /\ values = f[N]
  OBVIOUS
<1>9. step[all] \subseteq all
  <2> PICK first : first = {}
    OBVIOUS
  <2>1. Grown(ran, N, S, first, step)
    BY <1>a, <1>6, <1>8 DEF Grown, IsRunnable
  <2> QED BY <2>1, GrowthEnds
<1>10. IsPart(file, bundle, values, all) /\ all \in SUBSET S
  BY <1>0, <1>4, <1>7
\* The first node that has not run could have.
<1>11. S \subseteq all
  <2>1. SUFFICES ASSUME S \ all # {} PROVE FALSE
    OBVIOUS
  <2>2. PICK place : \A m, n \in S :
          /\ place[m] \in Nat
          /\ nodes[m].outputs \cap nodes[n].inputs # {} => place[m] < place[n]
    BY DEF IsRunnable
  <2> PICK Places : Places = {place[n] : n \in S \ all}
    OBVIOUS
  <2>3. Places \subseteq Nat /\ Places # {}
    BY <2>1, <2>2, ZenonT(30)
  <2>4. PICK b \in Places : \A p \in Places : b <= p
    BY <2>3, LeastNatural
  <2>5. PICK n \in S \ all : place[n] = b
    BY <2>4
  <2>6. ASSUME NEW x \in nodes[n].inputs PROVE x \in given \cup Outs(file, all)
    <3>1. x \in given \/ x \in Written(file)
      BY <2>5 DEF IsRunnable, Known
    <3>2. CASE x \in Written(file)
      <4>1. PICK m \in S : x \in nodes[m].outputs
        BY <3>2 DEF Written
      <4>2. place[m] < place[n] /\ place[m] \in Nat /\ place[n] \in Nat
        BY <2>2, <2>5, <2>6, <4>1
      <4>3. ASSUME place[m] \in Places PROVE FALSE
        <5>1. b <= place[m]
          BY <2>4, <4>3
        <5> QED BY <2>5, <4>2, <5>1
      <4>4. m \in all
        BY <4>3
      <4> QED BY <4>1, <4>4 DEF Outs
    <3> QED BY <3>1, <3>2
  <2>7. n \in step[all]
    BY <1>6, <1>10, <2>5, <2>6
  <2> QED BY <1>9, <2>5, <2>7
<1>12. all = S /\ Outs(file, all) = Written(file)
  BY <1>10, <1>11 DEF Outs, Written
<1>13. IsRun(values, file, bundle)
  <2>1. values = [x \in Known(file, bundle) |-> values[x]]
    BY <1>10, <1>12 DEF IsPart, Known
  <2>2. /\ \A x \in GivenTo(file, bundle) : values[x] = bundle[x]
        /\ \A x \in file.initializers : values[x] = [weight |-> x]
    BY <1>10 DEF IsPart
  <2>3. AreMade(values, nodes)
    BY <1>10, <1>12, Zenon DEF IsPart, AreMade, Restrict
  <2> QED BY <2>1, <2>2, <2>3 DEF IsRun
<1> QED BY <1>1, <1>13

\* What is made of the same is the same.
LEMMA RunsAgree ==
  ASSUME NEW file, NEW bundle, NEW values, NEW others,
         IsRunnable(file, bundle) /\ IsRun(values, file, bundle),
         \A x \in GivenTo(file, bundle) : others[x] = bundle[x],
         \A x \in file.initializers : others[x] = [weight |-> x],
         AreMade(others, file.nodes)
  PROVE  \A x \in Known(file, bundle) : values[x] = others[x]
<1> PICK S, nodes, given : /\ S = DOMAIN file.nodes /\ nodes = file.nodes
                           /\ given = file.initializers \cup GivenTo(file, bundle)
  OBVIOUS
<1>1. PICK place : \A m, n \in S :
        /\ place[m] \in Nat
        /\ nodes[m].outputs \cap nodes[n].inputs # {} => place[m] < place[n]
  BY DEF IsRunnable
<1>2. \A x \in given : values[x] = others[x]
  BY DEF IsRun
<1> PICK Wrong : Wrong = {n \in S : \E x \in nodes[n].outputs : values[x] # others[x]}
  OBVIOUS
<1>3. Wrong = {}
  <2>1. SUFFICES ASSUME Wrong # {} PROVE FALSE
    OBVIOUS
  <2> PICK Places : Places = {place[n] : n \in Wrong}
    OBVIOUS
  <2>2. Places \subseteq Nat /\ Places # {}
    BY <1>1, <2>1
  <2>3. PICK b \in Places : \A p \in Places : b <= p
    BY <2>2, LeastNatural
  <2>4. PICK n \in Wrong : place[n] = b
    BY <2>3
  <2>5. ASSUME NEW y \in nodes[n].inputs PROVE values[y] = others[y]
    <3>1. y \in given \/ y \in Written(file)
      BY <2>4 DEF IsRunnable, Known
    <3>2. CASE y \in Written(file)
      <4>1. PICK m \in S : y \in nodes[m].outputs
        BY <3>2 DEF Written
      <4>2. place[m] < place[n] /\ place[m] \in Nat /\ place[n] \in Nat
        BY <1>1, <2>4, <2>5, <4>1
      <4>3. ASSUME place[m] \in Places PROVE FALSE
        <5>1. b <= place[m]
          BY <2>3, <4>3
        <5> QED BY <2>4, <4>2, <5>1
      <4> QED BY <4>1, <4>3
    <3> QED BY <1>2, <3>1, <3>2
  <2>6. [y \in nodes[n].inputs |-> values[y]] = [y \in nodes[n].inputs |-> others[y]]
    BY <2>5
  <2>7. ASSUME NEW x \in nodes[n].outputs PROVE values[x] = others[x]
    <3>1. values[x] = [operator |-> n, output |-> x, of |-> [y \in nodes[n].inputs |-> values[y]]]
      BY Zenon DEF IsRun, AreMade
    <3>2. others[x] = [operator |-> n, output |-> x, of |-> [y \in nodes[n].inputs |-> others[y]]]
      BY Zenon DEF AreMade
    <3> QED BY <2>6, <3>1, <3>2, Zenon
  <2> QED BY <2>4, <2>7
<1>4. ASSUME NEW x \in Written(file) PROVE values[x] = others[x]
  <2>1. PICK n \in S : x \in nodes[n].outputs
    BY DEF Written
  <2> QED BY <1>3, <2>1
<1> QED BY <1>2, <1>4 DEF Known

LEMMA TensorsOfEdges ==
  ASSUME NEW g, IsModelFile(g), NEW t, t = build_model_topology(g)
  PROVE  /\ \A x : x \in input_tensor_properties(t) <=>
                     \E e \in t.edges : e.source = INPUT_LAYER_NAME /\ x \in e.tensors
         /\ \A e \in t.edges : e.tensors \cap g.initializers = {}
<1>1. t.inputs = {INPUT_LAYER_NAME}
  BY TopologyOfFile
<1>2. \A x : x \in input_tensor_properties(t) <=>
               \E e \in t.edges : e.source = INPUT_LAYER_NAME /\ x \in e.tensors
  BY <1>1 DEF input_tensor_properties
<1>3. ASSUME NEW e \in t.edges PROVE e.tensors \cap g.initializers = {}
  <2> PICK In, Out : In = INPUT_LAYER_NAME /\ Out = OUTPUT_LAYER_NAME
    OBVIOUS
  <2>1. /\ e.tensors \subseteq find_layer_outputs(g, e.source)
        /\ e.tensors \subseteq find_layer_inputs(g, e.target)
        /\ e.target \in {In, Out} \cup DOMAIN g.nodes
    BY TopologyOfFile
  <2>2. CASE e.target # Out
    <3>1. find_layer_inputs(g, e.target) \cap g.initializers = {}
      BY <2>2 DEF find_layer_inputs
    <3> QED BY <2>1, <3>1
  <2>3. CASE e.target = Out
    <3>1. find_layer_inputs(g, e.target) = g.outputs
      BY <2>3 DEF find_layer_inputs, INPUT_LAYER_NAME, OUTPUT_LAYER_NAME
    <3>2. \A x \in g.outputs : \E l \in t.layers \ boundary(t) : x \in g.nodes[l].outputs
      BY LayersMakeResults
    <3>3. \A n \in DOMAIN g.nodes : g.nodes[n].outputs \cap g.initializers = {}
      BY DEF IsModelFile
    <3>4. t.layers \ boundary(t) \subseteq DOMAIN g.nodes
      BY TopologyOfFile DEF boundary
    <3> QED BY <2>1, <3>1, <3>2, <3>3, <3>4
  <2> QED BY <2>2, <2>3
<1> QED BY <1>2, <1>3

\* With what the callers send a model file runs.
LEMMA ModelRuns ==
  ASSUME NEW g, IsModelFile(g), NEW t, t = build_model_topology(g),
         NEW bundle, DOMAIN bundle = input_tensor_properties(t)
  PROVE  IsRunnable(g, bundle) /\ GivenTo(g, bundle) = DOMAIN bundle
<1> PICK S, nodes, In : S = DOMAIN g.nodes /\ nodes = g.nodes /\ In = INPUT_LAYER_NAME
  OBVIOUS
<1>1. /\ IsFiniteSet(S)
      /\ \E place \in [S -> 1 .. Cardinality(S)] : \A m, n \in S :
           nodes[m].outputs \cap nodes[n].inputs # {} => place[m] < place[n]
      /\ \A m, n \in S : nodes[m].outputs \cap nodes[n].outputs # {} => m = n
      /\ \A n \in S : /\ nodes[n].outputs \cap (g.inputs \cup g.initializers) = {}
                      /\ nodes[n].inputs \subseteq g.inputs \cup g.initializers \cup Written(g)
      /\ In \notin S /\ OUTPUT_LAYER_NAME \notin S
  BY DEF IsModelFile
<1>2. find_layer_outputs(g, In) = g.inputs \ g.initializers
  BY DEF find_layer_outputs, INPUT_LAYER_NAME, OUTPUT_LAYER_NAME
<1>3. DOMAIN bundle \subseteq g.inputs \ g.initializers
  <2>1. ASSUME NEW x \in DOMAIN bundle PROVE x \in find_layer_outputs(g, In)
    <3>1. PICK e \in t.edges : e.source = In /\ x \in e.tensors
      BY TensorsOfEdges
    <3> QED BY <3>1, TopologyOfFile
  <2> QED BY <1>2, <2>1
<1>4. GivenTo(g, bundle) = DOMAIN bundle
  BY <1>3 DEF GivenTo
<1>5. ASSUME NEW n \in S, NEW x \in nodes[n].inputs
      PROVE  x \in Known(g, bundle)
  <2>1. CASE x \in g.initializers \cup Written(g)
    BY <2>1 DEF Known
  <2>2. CASE x \in g.inputs \ g.initializers
    <3>1. find_layer_inputs(g, n) = nodes[n].inputs \ g.initializers
      BY <1>1 DEF find_layer_inputs
    <3>2. In \in t.layers /\ In # n /\ n \in {In, OUTPUT_LAYER_NAME} \cup S
      BY <1>1, TopologyOfFile
    <3>3. x \in find_layer_outputs(g, In) \cap find_layer_inputs(g, n)
      BY <1>2, <1>5, <2>2, <3>1
    <3>4. PICK e \in t.edges : e.source = In /\ e.target = n
      BY <3>2, <3>3, TopologyOfFile
    <3>5. x \in e.tensors
      BY <3>3, <3>4, TopologyOfFile
    <3>6. x \in DOMAIN bundle
      BY <3>4, <3>5, TensorsOfEdges
    <3> QED BY <1>4, <3>6 DEF Known
  <2> QED BY <1>1, <2>1, <2>2
<1>6. \E place : \A m, n \in S :
        /\ place[m] \in Nat
        /\ nodes[m].outputs \cap nodes[n].inputs # {} => place[m] < place[n]
  <2>1. PICK place \in [S -> 1 .. Cardinality(S)] : \A m, n \in S :
           nodes[m].outputs \cap nodes[n].inputs # {} => place[m] < place[n]
    BY <1>1
  <2>2. \A m \in S : place[m] \in Nat
    OBVIOUS
  <2> QED BY <2>1, <2>2
<1>7. \A n \in S : /\ nodes[n].outputs \cap (g.initializers \cup GivenTo(g, bundle)) = {}
                   /\ nodes[n].inputs \subseteq Known(g, bundle)
  <2>1. GivenTo(g, bundle) \subseteq g.inputs
    BY DEF GivenTo
  <2> QED BY <1>1, <1>5, <2>1
<1>8. g.initializers \cap GivenTo(g, bundle) = {}
  BY <1>3, <1>4
<1>9. IsRunnable(g, bundle)
  BY <1>1, <1>6, <1>7, <1>8, Zenon DEF IsRunnable
<1> QED BY <1>4, <1>9

LEMMA PartsOfFile ==
  ASSUME NEW g, NEW t, NEW L, NEW file, IsPartitionFile(file, g, t, L)
  PROVE  /\ file.inputs = extract_incoming(t, L) /\ file.outputs = extract_outgoing(t, L)
         /\ file.initializers = g.initializers
         /\ DOMAIN file.nodes \subseteq DOMAIN g.nodes
         /\ \A n \in DOMAIN file.nodes : file.nodes[n] = g.nodes[n]
<1> PICK inc, out : inc = extract_incoming(t, L) /\ out = extract_outgoing(t, L)
  OBVIOUS
<1>1. file = extract_model(g, inc, out) /\ IsFiniteSet(DOMAIN g.nodes)
  BY DEF IsPartitionFile, IsModelFile, extract_model_partition
<1>2. PICK kept : /\ IsExtracted(g, inc, out, kept)
                  /\ file = [nodes |-> [n \in kept |-> g.nodes[n]], inputs |-> inc,
                             outputs |-> out, initializers |-> g.initializers]
  BY <1>1, ExtractedModel
<1>3. kept \in SUBSET DOMAIN g.nodes
  BY <1>2 DEF IsExtracted
<1> QED BY <1>2, <1>3

LEMMA PartitionRuns ==
  ASSUME NEW g, NEW t, NEW L, NEW file, IsPartitionFile(file, g, t, L),
         NEW payload, file.inputs \subseteq DOMAIN payload
  PROVE  IsRunnable(file, payload) /\ GivenTo(file, payload) = file.inputs
<1> PICK S, nodes : S = DOMAIN g.nodes /\ nodes = g.nodes
  OBVIOUS
<1>1. /\ IsFiniteSet(S)
      /\ \E place \in [S -> 1 .. Cardinality(S)] : \A m, n \in S :
           nodes[m].outputs \cap nodes[n].inputs # {} => place[m] < place[n]
      /\ \A m, n \in S : nodes[m].outputs \cap nodes[n].outputs # {} => m = n
      /\ \A n \in S : nodes[n].outputs \cap (g.inputs \cup g.initializers) = {}
  BY DEF IsPartitionFile, IsModelFile
<1>2. GivenTo(file, payload) = file.inputs
  BY DEF GivenTo
<1>3. /\ file.inputs = extract_incoming(t, L) /\ file.initializers = g.initializers
      /\ DOMAIN file.nodes \subseteq S /\ \A n \in DOMAIN file.nodes : file.nodes[n] = nodes[n]
  BY PartsOfFile
<1>4. /\ ReadBy(file) \subseteq file.inputs \cup file.initializers \cup Written(file)
      /\ file.inputs \cap Written(file) = {}
  BY PartitionFiles, Zenon DEF Computes
<1>5. IsFiniteSet(DOMAIN file.nodes)
  BY <1>1, <1>3, FS_Subset
<1>6. \E place : \A m, n \in DOMAIN file.nodes :
        /\ place[m] \in Nat
        /\ file.nodes[m].outputs \cap file.nodes[n].inputs # {} => place[m] < place[n]
  <2>1. PICK place \in [S -> 1 .. Cardinality(S)] : \A m, n \in S :
           nodes[m].outputs \cap nodes[n].inputs # {} => place[m] < place[n]
    BY <1>1
  <2>2. \A m \in S : place[m] \in Nat
    OBVIOUS
  <2>3. \A m, n \in DOMAIN file.nodes :
          file.nodes[m] = nodes[m] /\ file.nodes[n] = nodes[n] /\ m \in S /\ n \in S
    BY <1>3
  <2> QED BY <2>1, <2>2, <2>3
<1>7. \A m, n \in DOMAIN file.nodes :
        file.nodes[m].outputs \cap file.nodes[n].outputs # {} => m = n
  BY <1>1, <1>3
<1>8. ASSUME NEW n \in DOMAIN file.nodes
      PROVE  /\ file.nodes[n].outputs \cap (file.initializers \cup GivenTo(file, payload)) = {}
             /\ file.nodes[n].inputs \subseteq Known(file, payload)
  <2>1. file.nodes[n].outputs \subseteq Written(file) /\ file.nodes[n].inputs \subseteq ReadBy(file)
    BY DEF Written, ReadBy
  <2>2. file.nodes[n].outputs \cap g.initializers = {}
    BY <1>1, <1>3
  <2> QED BY <1>2, <1>3, <1>4, <2>1, <2>2 DEF Known
<1>9. file.initializers \cap GivenTo(file, payload) = {}
  <2>1. \A e \in t.edges : e.tensors \cap g.initializers = {}
    BY TensorsOfEdges DEF IsPartitionFile
  <2> QED BY <1>2, <1>3, <2>1 DEF extract_incoming, TensorsOf
<1>10. IsRunnable(file, payload)
  BY <1>5, <1>6, <1>7, <1>8, <1>9, Zenon DEF IsRunnable
<1> QED BY <1>2, <1>10

\* A partition that is given tensors of a run of the model makes tensors of that run.
THEOREM PartitionsRunAsTheModel ==
  ASSUME NEW g, NEW t, NEW L, NEW file, IsPartitionFile(file, g, t, L),
         NEW bundle, NEW values, IsRun(values, g, bundle),
         NEW payload, file.inputs \subseteq DOMAIN payload,
         \A x \in file.inputs : payload[x] = values[x]
  PROVE  run_session(file, payload) = [x \in file.outputs |-> values[x]]
<1>1. IsRunnable(file, payload) /\ GivenTo(file, payload) = file.inputs
  BY PartitionRuns
<1>2. PICK own : /\ IsRun(own, file, payload)
                 /\ run_session(file, payload) = filter(own, file.outputs)
  BY <1>1, SessionRuns
<1>3. \A x \in GivenTo(file, payload) : values[x] = payload[x]
  BY <1>1
<1>4. /\ file.initializers = g.initializers /\ DOMAIN file.nodes \subseteq DOMAIN g.nodes
      /\ \A n \in DOMAIN file.nodes : file.nodes[n] = g.nodes[n]
  BY PartsOfFile
<1>5. \A x \in file.initializers : values[x] = [weight |-> x]
  BY <1>4 DEF IsRun
<1>6. AreMade(values, file.nodes)
  <2> SUFFICES ASSUME NEW n \in DOMAIN file.nodes, NEW x \in file.nodes[n].outputs
               PROVE  values[x] = [operator |-> n, output |-> x,
                                   of |-> [y \in file.nodes[n].inputs |-> values[y]]]
    BY Zenon DEF AreMade
  <2>1. n \in DOMAIN g.nodes /\ file.nodes[n] = g.nodes[n]
    BY <1>4
  <2>2. AreMade(values, g.nodes)
    BY DEF IsRun
  <2>3. values[x] = [operator |-> n, output |-> x, of |-> [y \in g.nodes[n].inputs |-> values[y]]]
    BY <2>1, <2>2, Zenon DEF AreMade
  <2> QED BY <2>1, <2>3, Zenon
<1>7. \A x \in Known(file, payload) : own[x] = values[x]
  BY <1>1, <1>2, <1>3, <1>5, <1>6, RunsAgree
<1>8. file.outputs \subseteq Known(file, payload)
  BY PartitionFiles, Zenon DEF Computes, Known
<1>9. DOMAIN own \cap file.outputs = file.outputs
  BY <1>2, <1>8 DEF IsRun
<1>10. filter(own, file.outputs) = [x \in file.outputs |-> own[x]]
  BY <1>9 DEF filter, Restrict
<1> QED BY <1>2, <1>7, <1>8, <1>10

-----------------------------------------------------------------------------
(* Hops that are given tensors of a run of the model.                      *)

LEMMA OneContribution ==
  ASSUME NEW c, NEW routings, NEW input, routings.input_routings = {input},
         c.source = input.source, DOMAIN c.bundle = input.tensors
  PROVE  /\ check_valid_sources(routings, arrived({c}))
         /\ check_inputs_ready(routings, arrived({c}))
<1> PICK came, due : came = arrived({c}) /\ due = expected(routings)
  OBVIOUS
<1>1. came = [s \in {c.source} |-> DOMAIN c.bundle]
  <2>1. {d.source : d \in {c}} = {c.source}
    OBVIOUS
  <2>2. \A s \in {c.source} : UNION {DOMAIN d.bundle : d \in {e \in {c} : e.source = s}} = DOMAIN c.bundle
    OBVIOUS
  <2> QED BY <2>1, <2>2 DEF arrived
<1>2. DOMAIN due = {input.source} /\ due[input.source] = input.tensors
  <2>1. {j.source : j \in routings.input_routings} = {input.source}
    OBVIOUS
  <2>2. (CHOOSE j \in routings.input_routings : j.source = input.source) = input
    OBVIOUS
  <2> QED BY <2>1, <2>2 DEF expected
<1> QED BY <1>1, <1>2 DEF check_valid_sources, check_inputs_ready

\* Bundles of tensors of one run.
Agrees(bundle, values) == \A x \in DOMAIN bundle : bundle[x] = values[x]

LEMMA FilteredAgrees ==
  ASSUME NEW bundle, NEW values, NEW names, Agrees(bundle, values), names \subseteq DOMAIN bundle
  PROVE  filter(bundle, names) = [x \in names |-> values[x]]
<1>1. DOMAIN bundle \cap names = names
  OBVIOUS
<1>2. filter(bundle, names) = [x \in names |-> bundle[x]]
  BY <1>1 DEF filter, Restrict
<1> QED BY <1>2 DEF Agrees

LEMMA MergedAgrees ==
  ASSUME NEW bundle, NEW other, NEW values, Agrees(bundle, values), Agrees(other, values)
  PROVE  /\ Agrees(merge(bundle, other), values)
         /\ DOMAIN merge(bundle, other) = DOMAIN bundle \cup DOMAIN other
BY DEF Agrees, merge

\* A bundle of some tensors of a run.
IsOfRun(bundle, tensors, values) == bundle = [x \in tensors |-> values[x]]

LEMMA PayloadOf ==
  ASSUME NEW c, NEW tensors, NEW values, IsOfRun(c.bundle, tensors, values)
  PROVE  full_payload({c}) = c.bundle /\ DOMAIN c.bundle = tensors /\ Agrees(c.bundle, values)
<1>1. c.bundle = [x \in DOMAIN c.bundle |-> c.bundle[x]]
  BY DEF IsOfRun
<1>2. DOMAIN c.bundle = tensors /\ Agrees(c.bundle, values)
  BY DEF Agrees, IsOfRun
<1> QED BY <1>1, <1>2, PayloadOfOne

\* Where the component of a flow is, and what its worker has read.
AtPartition(k, i, w, hop, read, values, c) ==
  /\ k \in 1 .. Len(answers) /\ i \in executable_components(Solved[k])
  /\ w = worker_at(Solved, <<k, i>>) /\ hop = hop_at(Solved, <<k, i>>)
  /\ read = build_worker_plan(plans[w])
  /\ \E bundle : IsRun(values, Files[answers[k].variant], bundle)
  /\ IsOfRun(c.bundle, received(Solved[k], i), values)

\* A session over a partition file that is given tensors of a run of the model.
PartOfRun(file, g, t, L, payload, values) ==
  /\ IsPartitionFile(file, g, t, L)
  /\ \E bundle : IsRun(values, g, bundle)
  /\ file.inputs \subseteq DOMAIN payload
  /\ \A x \in file.inputs : payload[x] = values[x]

LEMMA PartsOfRuns ==
  ASSUME NEW file, NEW g, NEW t, NEW L, NEW payload, NEW values,
         PartOfRun(file, g, t, L, payload, values)
  PROVE  run_session(file, payload) = [x \in file.outputs |-> values[x]]
<1> PICK bundle : IsRun(values, g, bundle)
  BY DEF PartOfRun
<1>1. /\ IsPartitionFile(file, g, t, L)
      /\ file.inputs \subseteq DOMAIN payload
      /\ \A x \in file.inputs : payload[x] = values[x]
  BY DEF PartOfRun
<1> QED BY <1>1, PartitionsRunAsTheModel

LEMMA PartitionHandles ==
  ASSUME AnswersInv, PlansInv, plans # <<>>,
         NEW k, NEW i, NEW w, NEW hop, NEW read, NEW values, NEW c,
         AtPartition(k, i, w, hop, read, values, c)
  PROVE  /\ can_assemble(read, hop, {c})
         /\ can_handle(hop, FileOf(hop), assemble(read, hop, {c}))
         /\ IsOfRun(handle(hop, FileOf(hop), assemble(read, hop, {c})),
                    extract_outgoing(Models[answers[k].variant].topology,
                                     Solved[k].components[i].layers), values)
<1> k \in 1 .. Len(answers) /\ i \in executable_components(Solved[k])
  BY DEF AtPartition
<1> /\ w = worker_at(Solved, <<k, i>>) /\ hop = hop_at(Solved, <<k, i>>)
    /\ read = build_worker_plan(plans[w])
    /\ IsOfRun(c.bundle, received(Solved[k], i), values)
  BY DEF AtPartition
<1> PICK bundle : IsRun(values, Files[answers[k].variant], bundle)
  BY DEF AtPartition
<1> PICK sol, fs, a, t, g : /\ sol = Solved /\ fs = Solved[k] /\ a = answers[k]
                            /\ t = Models[answers[k].variant].topology /\ g = Files[answers[k].variant]
  OBVIOUS
<1> PICK plan, s : plan = plans[w] /\ s = <<k, i>>
  OBVIOUS
<1>1. /\ a \in WellCut /\ IsSolutionOf(fs, a) /\ Carries(fs, a) /\ k \in DOMAIN sol
  BY SolvedOf, SolvedFlows, SolvedCarries
<1>2. IsSolution(sol) /\ consistent_schemes(sol) /\ plans = worker_plans(sol)
  BY DEF PlansInv
<1>3. IsFlow(fs)
  BY <1>1, <1>2 DEF IsSolution
<1>4. s \in SlotsOf(sol) /\ s[2] \in executable_components(sol[s[1]])
  BY <1>1, SlotOf DEF Receiving
<1>5. hop = replica_id(sol, s) /\ hop.kind = "partition" /\ hop.of = partition_id(fs, i)
  BY <1>2, <1>4, Addresses DEF replica_id
<1>6. w \in DOMAIN plans
  BY <1>2, <1>4, Placement DEF worker_plans
<1>7. plan = worker_plan(sol, w) /\ IsPlan(plan)
  BY <1>6, PlansOfInvArePlans
<1>8. s \in executable_slots(sol, w)
  <2>1. worker_at(sol, s) = sol[k].components[i].worker
    <3>1. i \in Sending(fs) /\ i # 0 /\ i # SinkIndex(fs)
      BY <1>3, SlotsApart DEF Sending, Receiving
    <3>2. s[1] = k /\ s[2] = i
      OBVIOUS
    <3> QED BY <3>1, <3>2 DEF worker_at
  <2> QED BY <1>2, <1>4, <2>1, ExecutableSlot DEF executable_slots
<1>9. s \in DOMAIN plan.executable_hops /\ plan.executable_hops[s].of = hop.of
  BY <1>5, <1>7, <1>8, SlotsOfWorkerPlan, EntriesOfExecuted
<1>10. /\ hop.of \in Range(read.partition_execution_plan.partition_ids)
       /\ get_scheme_by_partition_id(read, hop.of) = scheme_of(plan, hop.of)
  BY <1>7, <1>9, PartitionLooksUp
<1> PICK inputs, layers : inputs = fs.components[i].inputs /\ layers = fs.components[i].layers
  OBVIOUS
<1>11. get_scheme_by_partition_id(read, hop.of).inputs = inputs
  <2> PICK scheme : scheme = CHOOSE p \in plan.schemes : p.partition = hop.of
    OBVIOUS
  <2>1. scheme.inputs = inputs
    <3>1. scheme = CHOOSE p \in worker_plans(sol)[w].schemes : p.partition = partition_id(sol[k], i)
      BY <1>2, <1>5
    <3>2. (CHOOSE p \in worker_plans(sol)[w].schemes : p.partition = partition_id(sol[k], i)).inputs
            = sol[k].components[i].inputs
      <4>1. i \in executable_components(sol[k]) /\ w = worker_at(sol, <<k, i>>)
        OBVIOUS
      <4> QED BY <1>1, <1>2, <4>1, SchemeOfPartition
    <3> QED BY <3>1, <3>2
  <2>2. scheme_of(plan, hop.of) = [inputs |-> scheme.inputs, outputs |-> scheme.outputs]
    BY Zenon DEF scheme_of
  <2> QED BY <1>10, <2>1, <2>2
<1>12. inputs \subseteq received(fs, i) /\ extract_incoming(t, layers) \subseteq inputs
  BY <1>1, InputsAreReceived
<1>13. full_payload({c}) = c.bundle /\ DOMAIN c.bundle = received(fs, i) /\ Agrees(c.bundle, values)
  BY PayloadOf
<1>14. can_assemble(read, hop, {c})
  BY <1>10, <1>11, <1>12, <1>13 DEF can_assemble
<1> PICK payload, file : payload = assemble(read, hop, {c}) /\ file = FileOf(hop)
  OBVIOUS
<1>15. payload = [x \in inputs |-> values[x]]
  <2>1. payload = filter(c.bundle, inputs)
    BY <1>5, <1>11, <1>13 DEF assemble
  <2> QED BY <1>12, <1>13, <2>1, FilteredAgrees
<1>16. IsPartitionFile(file, g, t, layers)
  <2>1. file = CutOut(hop.of)
    BY <1>5 DEF FileOf, PartitionFile, CutOut
  <2>2. /\ hop.of.variant = a.variant
        /\ IsPartitionFile(CutOut(hop.of), Files[hop.of.variant], Models[hop.of.variant].topology,
                           hop.of.layers)
    BY <1>5, ComponentFile
  <2>3. hop.of.layers = layers
    BY <1>5 DEF partition_id
  <2> QED BY <2>1, <2>2, <2>3
<1>17. file.inputs = extract_incoming(t, layers) /\ file.outputs = extract_outgoing(t, layers)
  BY <1>16, PartsOfFile
<1>18. file.inputs \subseteq DOMAIN payload /\ \A x \in file.inputs : payload[x] = values[x]
  <2>1. DOMAIN payload = inputs /\ \A x \in inputs : payload[x] = values[x]
    BY <1>15
  <2> QED BY <1>12, <1>17, <2>1
<1>19. run_session(file, payload) = [x \in file.outputs |-> values[x]]
  <2>1. IsRun(values, g, bundle)
    OBVIOUS
  <2>2. PartOfRun(file, g, t, layers, payload, values)
    BY <1>16, <1>18, <2>1, Zenon DEF PartOfRun
  <2> QED BY <2>2, PartsOfRuns
<1>20. can_handle(hop, file, payload)
  BY <1>18 DEF can_handle, can_execute
<1>21. handle(hop, file, payload) = run_session(file, payload)
  BY <1>5 DEF handle, execute
<1>22. IsOfRun(handle(hop, file, payload), extract_outgoing(t, layers), values)
  BY <1>17, <1>19, <1>21 DEF IsOfRun
<1> QED BY <1>14, <1>20, <1>22

\* Where a hop is.
AtHop(k, i, w, at) ==
  /\ k \in 1 .. Len(answers) /\ i \in {0} \cup Receiving(Solved[k])
  /\ w = worker_at(Solved, <<k, i>>) /\ at = address(Solved, <<k, i>>)

\* What the worker of a hop looks up for it, which no other worker does.
LEMMA HopReads ==
  ASSUME AnswersInv, PlansInv, plans # <<>>, NEW k, NEW i, NEW w, NEW at, AtHop(k, i, w, at)
  PROVE  /\ IsSolution(Solved) /\ <<k, i>> \in SlotsOf(Solved)
         /\ w \in DOMAIN plans /\ ReadPlans[w] = build_worker_plan(plans[w])
         /\ has_routings(ReadPlans[w], at)
         /\ get_routings_for_hop_address(ReadPlans[w], at)
              = [input_routings |-> {input_routing(Solved, k, i)},
                 output_routings |-> output_routings(Solved, k, i)]
         /\ {v \in DOMAIN ReadPlans : at.hop \in planned_hops(ReadPlans[v])} = {w}
<1> /\ k \in 1 .. Len(answers) /\ i \in {0} \cup Receiving(Solved[k])
    /\ w = worker_at(Solved, <<k, i>>) /\ at = address(Solved, <<k, i>>)
  BY DEF AtHop
<1> PICK s : s = <<k, i>>
  OBVIOUS
<1> PICK sol, read : sol = Solved /\ read = ReadPlans
  OBVIOUS
<1>1. k \in DOMAIN sol /\ IsSolution(sol) /\ plans = worker_plans(sol)
  BY SolvedFlows DEF PlansInv
<1>2. s \in SlotsOf(sol) /\ s[1] = k /\ s[2] = i
  BY <1>1, SlotOf
<1>3. w \in DOMAIN plans
  BY <1>1, <1>2, Placement DEF worker_plans
<1>4. DOMAIN read = DOMAIN plans /\ \A v \in DOMAIN plans : read[v] = build_worker_plan(plans[v])
  BY PlansOfInvArrive DEF Sent
<1>5. \A v \in DOMAIN plans :
        /\ DOMAIN plans[v].hop_addresses = {t \in SlotsOf(sol) : worker_at(sol, t) = v}
        /\ \A t \in SlotsOf(sol) : worker_at(sol, t) = v =>
             /\ plans[v].hop_addresses[t] = address(sol, t)
             /\ plans[v].routings[t].input = input_routing(sol, t[1], t[2])
             /\ plans[v].routings[t].output = output_routings(sol, t[1], t[2])
  BY <1>1, PlanEntries
<1>6. \A v \in DOMAIN plans : IsPlan(plans[v])
  BY PlansOfInvArePlans
<1>7. /\ has_routings(read[w], at)
      /\ get_routings_for_hop_address(read[w], at)
              = [input_routings |-> {input_routing(sol, k, i)},
                 output_routings |-> output_routings(sol, k, i)]
  <2> PICK plan : plan = plans[w]
    OBVIOUS
  <2>1. IsPlan(plan) /\ s \in DOMAIN plan.hop_addresses /\ plan.hop_addresses[s] = at
    BY <1>2, <1>3, <1>5, <1>6
  <2>2. /\ plan.routings[s].input = input_routing(sol, k, i)
        /\ plan.routings[s].output = output_routings(sol, k, i)
    BY <1>2, <1>3, <1>5
  <2>3. /\ has_routings(build_worker_plan(plan), plan.hop_addresses[s])
        /\ get_routings_for_hop_address(build_worker_plan(plan), plan.hop_addresses[s])
              = [input_routings |-> {plan.routings[s].input},
                 output_routings |-> plan.routings[s].output]
    BY <2>1, HopLooksUp
  <2> QED BY <1>3, <1>4, <2>1, <2>2, <2>3
<1>8. ASSUME NEW v \in DOMAIN plans
      PROVE  at.hop \in planned_hops(read[v]) <=> v = w
  <2>1. planned_hops(read[v])
          = {plans[v].hop_addresses[t].hop : t \in DOMAIN plans[v].hop_addresses}
    BY <1>4, <1>6, PlannedHops
  <2>2. CASE v = w
    <3>1. s \in DOMAIN plans[v].hop_addresses /\ plans[v].hop_addresses[s] = at
      BY <1>2, <1>5, <2>2
    <3> QED BY <2>1, <2>2, <3>1
  <2>3. CASE at.hop \in planned_hops(read[v])
    <3>1. PICK t \in DOMAIN plans[v].hop_addresses : plans[v].hop_addresses[t].hop = at.hop
      BY <2>1, <2>3
    <3>2. t \in SlotsOf(sol) /\ worker_at(sol, t) = v /\ address(sol, t).hop = address(sol, s).hop
      BY <1>5, <3>1
    <3>3. hop_at(sol, t) = hop_at(sol, s)
      BY <1>1, <1>2, <3>2, Addresses
    <3>4. t = s
      BY <1>1, <1>2, <3>2, <3>3, HopsDiffer
    <3> QED BY <2>3, <3>2, <3>4
  <2> QED BY <2>2, <2>3
<1>9. {v \in DOMAIN read : at.hop \in planned_hops(read[v])} = {w}
  BY <1>3, <1>4, <1>8
<1> QED BY <1>1, <1>2, <1>3, <1>4, <1>7, <1>9

\* What arrives at a hop in a run of the model.
Arriving(values, k, i) ==
  [source |-> input_routing(Solved, k, i).source,
   destination |-> address(Solved, <<k, i>>),
   bundle |-> [x \in received(Solved[k], i) |-> values[x]]]

Arrives(c, read, values, k, i, w) == c = Arriving(values, k, i) /\ read = ReadPlans[w]

\* A run of the model of a flow.
IsRunOfFlow(values, k) ==
  /\ k \in 1 .. Len(answers)
  /\ \E bundle : IsRun(values, Files[answers[k].variant], bundle)

\* A hop makes of tensors of the run others of it, those it has to send on with what
\* it was given among them.
IsHandled(read, hop, c, values, k, i) ==
  LET payload == assemble(read, hop, {c})
      made == handle(hop, FileOf(hop), payload)
  IN /\ can_assemble(read, hop, {c})
     /\ can_handle(hop, FileOf(hop), payload)
     /\ hop.kind = "sink" <=> i = SinkIndex(Solved[k])
     /\ hop.kind = "sink" => payload = c.bundle
     /\ Agrees(made, values)
     /\ i \in Sending(Solved[k]) =>
          tensors_from(Solved[k], i) \subseteq received(Solved[k], i) \cup DOMAIN made

LEMMA HopHandles ==
  ASSUME AnswersInv, PlansInv, plans # <<>>, NEW values, NEW k, IsRunOfFlow(values, k),
         NEW i, NEW w, NEW at, AtHop(k, i, w, at),
         NEW read, NEW c, Arrives(c, read, values, k, i, w)
  PROVE  IsHandled(read, at.hop, c, values, k, i)
<1> /\ i \in {0} \cup Receiving(Solved[k]) /\ c = Arriving(values, k, i)
    /\ w = worker_at(Solved, <<k, i>>) /\ at = address(Solved, <<k, i>>)
    /\ read = ReadPlans[w]
  BY DEF AtHop, Arrives
<1> PICK s : s = <<k, i>>
  OBVIOUS
<1> PICK sol, fs, hop : sol = Solved /\ fs = Solved[k] /\ hop = at.hop
  OBVIOUS
<1> PICK payload, made : /\ payload = assemble(read, hop, {c})
                         /\ made = handle(hop, FileOf(hop), payload)
  OBVIOUS
<1>1. /\ IsSolution(sol) /\ s \in SlotsOf(sol) /\ read = build_worker_plan(plans[w])
      /\ k \in 1 .. Len(answers) /\ k \in DOMAIN sol
  BY HopReads, SolvedFlows DEF IsRunOfFlow
<1>2. /\ hop = hop_at(sol, s)
      /\ i = 0 => hop.kind = "ingress"
      /\ i = SinkIndex(fs) => hop.kind = "sink"
      /\ i \in executable_components(fs) => hop.kind = "partition"
  <2>1. s[1] = k /\ s[2] = i
    OBVIOUS
  <2> QED BY <1>1, <2>1, Addresses
<1>3. c.bundle = [x \in received(fs, i) |-> values[x]]
  BY DEF Arriving
<1>4. full_payload({c}) = c.bundle /\ Agrees(c.bundle, values)
  <2>1. IsOfRun(c.bundle, received(fs, i), values)
    BY <1>3, Zenon DEF IsOfRun
  <2> QED BY <2>1, PayloadOf
<1>5. CASE i = 0
  <2>1. hop.kind = "ingress" /\ i # SinkIndex(fs)
    <3>1. IsFlow(fs)
      BY <1>1 DEF IsSolution
    <3> QED BY <1>2, <1>5, <3>1, SlotsApart DEF Receiving
  <2>2. can_assemble(read, hop, {c}) /\ payload = c.bundle
    BY <1>4, <2>1 DEF can_assemble, assemble
  <2>3. can_handle(hop, FileOf(hop), payload) /\ made = payload
    BY <2>1 DEF can_handle, handle
  <2>4. tensors_from(fs, i) = received(fs, i)
    BY <1>5 DEF tensors_from, received
  <2> QED BY <1>4, <2>1, <2>2, <2>3, <2>4 DEF IsHandled
<1>6. CASE i = SinkIndex(fs)
  <2>1. hop.kind = "sink" /\ i \notin Sending(fs)
    <3>1. IsFlow(fs)
      BY <1>1 DEF IsSolution
    <3> QED BY <1>2, <1>6, <3>1, SlotsApart
  <2>2. can_assemble(read, hop, {c}) /\ payload = c.bundle
    BY <1>4, <2>1 DEF can_assemble, assemble
  <2>3. can_handle(hop, FileOf(hop), payload) /\ made = NoTensors
    BY <2>1 DEF can_handle, handle
  <2>4. Agrees(NoTensors, values)
    BY DEF Agrees, NoTensors
  <2> QED BY <1>6, <2>1, <2>2, <2>3, <2>4 DEF IsHandled
<1>7. CASE i \in executable_components(fs)
  <2>1. hop.kind = "partition" /\ i # SinkIndex(fs)
    <3>1. IsFlow(fs)
      BY <1>1 DEF IsSolution
    <3> QED BY <1>2, <1>7, <3>1, SlotsApart DEF Sending
  <2> PICK a, out : /\ a = answers[k]
                    /\ out = extract_outgoing(Models[a.variant].topology, fs.components[i].layers)
    OBVIOUS
  <2>2. PICK bundle : IsRun(values, Files[a.variant], bundle)
    BY DEF IsRunOfFlow
  <2>3. /\ can_assemble(read, hop, {c})
        /\ can_handle(hop, FileOf(hop), payload)
        /\ IsOfRun(made, out, values)
    <3>1. IsOfRun(c.bundle, received(Solved[k], i), values)
      BY <1>3, Zenon DEF IsOfRun
    <3>2. AtPartition(k, i, w, hop, read, values, c)
      BY <1>1, <1>2, <1>7, <2>2, <3>1 DEF AtPartition
    <3>3. /\ can_assemble(read, hop, {c})
          /\ can_handle(hop, FileOf(hop), assemble(read, hop, {c}))
          /\ IsOfRun(handle(hop, FileOf(hop), assemble(read, hop, {c})),
                     extract_outgoing(Models[answers[k].variant].topology,
                                      Solved[k].components[i].layers), values)
      BY <3>2, PartitionHandles
    <3> QED BY <3>3
  <2>4. Agrees(made, values) /\ DOMAIN made = out
    BY <2>3 DEF Agrees, IsOfRun
  <2>5. tensors_from(fs, i) \subseteq received(fs, i) \cup out
    <3>1. a \in WellCut /\ IsSolutionOf(fs, a) /\ Carries(fs, a)
      BY <1>1, SolvedOf, SolvedFlows, SolvedCarries
    <3> QED BY <1>7, <3>1, SentIsReceivedOrMade
  <2> QED BY <2>1, <2>3, <2>4, <2>5 DEF IsHandled
<1> QED BY <1>5, <1>6, <1>7 DEF Receiving

\* What comes of tensors of a run at a hop.
IsOutcome(o, values, k, i) ==
  /\ o.at.hop.kind = "sink" <=> i = SinkIndex(Solved[k])
  /\ i = SinkIndex(Solved[k]) => o.payload = Arriving(values, k, i).bundle
  /\ o.sent = IF i = SinkIndex(Solved[k]) THEN {} ELSE {Arriving(values, k, next(Solved[k], i))}

LEMMA HopsAreInvoked ==
  ASSUME AnswersInv, PlansInv, plans # <<>>, NEW values, NEW k, IsRunOfFlow(values, k),
         NEW i \in {0} \cup Receiving(Solved[k])
  PROVE  \E o : /\ Invocation(ReadPlans, Arriving(values, k, i)) = {o}
                /\ IsOutcome(o, values, k, i)
<1>a. PICK s, w, at, read, c :
        /\ s = <<k, i>> /\ w = worker_at(Solved, s) /\ at = address(Solved, s)
        /\ read = ReadPlans[w] /\ c = Arriving(values, k, i)
  OBVIOUS
<1>b. PICK sol, fs, file, came, leave :
        /\ sol = Solved /\ fs = Solved[k] /\ file = FileOf(at.hop)
        /\ came = input_routing(sol, k, i) /\ leave = output_routings(sol, k, i)
  OBVIOUS
<1>c. PICK payload, made : /\ payload = assemble(read, at.hop, {c})
                           /\ made = handle(at.hop, file, payload)
  OBVIOUS
<1>1. k \in 1 .. Len(answers) /\ AtHop(k, i, w, at) /\ Arrives(c, read, values, k, i, w)
  BY <1>a DEF IsRunOfFlow, AtHop, Arrives
<1>2. /\ IsSolution(sol) /\ k \in DOMAIN sol /\ w \in DOMAIN ReadPlans
      /\ has_routings(read, at)
      /\ get_routings_for_hop_address(read, at)
           = [input_routings |-> {came}, output_routings |-> leave]
      /\ {v \in DOMAIN ReadPlans : at.hop \in planned_hops(ReadPlans[v])} = {w}
  BY <1>a, <1>b, <1>1, HopReads, SolvedFlows
<1>3. c.source = came.source /\ c.destination = at /\ IsOfRun(c.bundle, received(fs, i), values)
  BY <1>a, <1>b, Zenon DEF Arriving, IsOfRun
<1>4. came.tensors = received(fs, i) /\ IsFlow(fs)
  <2>1. answers[k] \in WellCut /\ IsSolutionOf(fs, answers[k])
    BY <1>b, <1>1, SolvedOf, SolvedFlows
  <2> QED BY <1>b, <1>2, <2>1, ReceivedTensors DEF IsSolution
<1>5. full_payload({c}) = c.bundle /\ DOMAIN c.bundle = received(fs, i) /\ Agrees(c.bundle, values)
  <2> PICK tensors : tensors = received(fs, i)
    OBVIOUS
  <2> QED BY <1>3, PayloadOf
<1>6. /\ can_assemble(read, at.hop, {c})
      /\ can_handle(at.hop, file, payload)
      /\ at.hop.kind = "sink" <=> i = SinkIndex(fs)
      /\ at.hop.kind = "sink" => payload = c.bundle
      /\ Agrees(made, values)
      /\ i \in Sending(fs) => tensors_from(fs, i) \subseteq received(fs, i) \cup DOMAIN made
  <2> PICK hop : hop = at.hop
    OBVIOUS
  <2>1. IsHandled(read, hop, c, values, k, i)
    BY <1>1, HopHandles
  <2> QED BY <1>b, <1>c, <2>1 DEF IsHandled
<1>d. PICK routings : routings = get_routings_for_hop_address(read, at)
  OBVIOUS
<1>7. check_valid_sources(routings, arrived({c})) /\ check_inputs_ready(routings, arrived({c}))
  <2>1. routings.input_routings = {came} /\ c.source = came.source /\ DOMAIN c.bundle = came.tensors
    BY <1>2, <1>3, <1>4, <1>5, <1>d
  <2> QED BY <2>1, OneContribution
<1>e. PICK passing : passing = available_payload({c}, made)
  OBVIOUS
<1>8. /\ Agrees(passing, values)
      /\ DOMAIN passing = received(fs, i) \cup DOMAIN made
  <2>1. passing = merge(c.bundle, made)
    BY <1>5, <1>e DEF available_payload
  <2> QED BY <1>5, <1>6, <2>1, MergedAgrees
<1>9. i \in Sending(fs) \/ i = SinkIndex(fs)
  BY <1>b DEF Sending, Receiving
\* A sink sends nothing, another hop one contribution to the next.
<1>10. CASE i = SinkIndex(fs)
  <2>1. leave = {} /\ i \notin Sending(fs)
    BY <1>b, <1>4, <1>10, SlotsApart DEF output_routings
  <2>2. can_route(read, at, {c}, made) /\ route(read, at, {c}, made) = {}
    BY <1>2, <2>1 DEF can_route, route
  <2>3. invocable(read, at, file, {c})
    BY <1>2, <1>6, <1>7, <1>c, <1>d, <2>2 DEF invocable
  <2> PICK o : o = invoke(read, at, file, {c})
    OBVIOUS
  <2>4. o.at = at /\ o.payload = payload /\ o.sent = {}
    BY <1>c, <2>2 DEF invoke
  <2>5. IsOutcome(o, values, k, i)
    BY <1>a, <1>b, <1>6, <1>10, <2>4 DEF IsOutcome
  <2>6. Invocation(ReadPlans, c) = {o}
    BY <1>2, <1>3, <1>a, <1>b, <2>3 DEF Invocation
  <2> QED BY <1>a, <2>5, <2>6
<1>11. CASE i \in Sending(fs)
  <2> PICK j, sent : j = next(fs, i) /\ sent = tensors_from(fs, i)
    OBVIOUS
  <2>1. leave = {[destination |-> address(sol, <<k, j>>), tensors |-> sent]}
    <3>1. i # SinkIndex(sol[k])
      BY <1>b, <1>4, <1>11, SlotsApart
    <3> QED BY <1>b, <3>1 DEF output_routings
  <2>2. input_routing(sol, k, j) = [source |-> at, tensors |-> sent]
    <3>1. input_routing(sol, k, next(sol[k], i))
            = [source |-> address(sol, <<k, i>>), tensors |-> tensors_from(sol[k], i)]
      BY <1>b, <1>2, <1>11, RouteArrives
    <3> QED BY <1>a, <1>b, <3>1
  <2>3. j \in Receiving(fs) /\ i # SinkIndex(fs)
    BY <1>4, <1>11, Chain, SlotsApart
  <2>4. received(fs, j) = sent
    <3>1. answers[k] \in WellCut /\ IsSolutionOf(fs, answers[k])
      BY <1>b, <1>1, SolvedOf, SolvedFlows
    <3>2. input_routing(sol, k, j).tensors = received(sol[k], j)
      <4>1. IsSolutionOf(sol[k], answers[k]) /\ j \in {0} \cup Receiving(sol[k])
        BY <1>b, <2>3, <3>1
      <4> QED BY <3>1, <4>1, ReceivedTensors
    <3> QED BY <1>b, <2>2, <3>2
  <2>5. filter(passing, sent) = [x \in sent |-> values[x]]
    BY <1>6, <1>8, <1>11, FilteredAgrees
  <2>6. address(sol, <<k, j>>).flow = at.flow
    BY <1>a, <1>b DEF address
  <2>7. can_route(read, at, {c}, made)
    BY <1>2, <1>6, <1>8, <1>11, <1>e, <2>1, <2>3, <2>6 DEF can_route
  <2>8. route(read, at, {c}, made) = {Arriving(values, k, j)}
    BY <1>2, <1>b, <1>e, <2>1, <2>2, <2>4, <2>5 DEF route, Arriving
  <2>9. invocable(read, at, file, {c})
    BY <1>2, <1>6, <1>7, <1>c, <1>d, <2>7 DEF invocable
  <2> PICK o : o = invoke(read, at, file, {c})
    OBVIOUS
  <2>10. o.at = at /\ o.sent = {Arriving(values, k, j)}
    BY <1>c, <2>8 DEF invoke
  <2>11. IsOutcome(o, values, k, i)
    BY <1>b, <1>6, <2>3, <2>10 DEF IsOutcome
  <2>12. Invocation(ReadPlans, c) = {o}
    BY <1>2, <1>3, <1>a, <1>b, <2>9 DEF Invocation
  <2> QED BY <1>a, <2>11, <2>12
<1> QED BY <1>9, <1>10, <1>11

\* A flow's hops, one after the other.
IsChain(pos, fs, rounds) ==
  /\ rounds = Cardinality(executable_components(fs)) + 1 /\ rounds \in Nat \ {0}
  /\ pos[0] = 0 /\ pos[rounds] = SinkIndex(fs)
  /\ \A m \in 0 .. rounds : pos[m] \in {0} \cup Receiving(fs)
  /\ \A m \in 0 .. rounds : m # rounds =>
       pos[m] # SinkIndex(fs) /\ pos[m + 1] = next(fs, pos[m])

LEMMA ChainOfFlow ==
  ASSUME NEW a \in WellCut, NEW fs, IsSolutionOf(fs, a)
  PROVE  \E pos : IsChain(pos, fs, Cardinality(executable_components(fs)) + 1)
<1>a. PICK last, F, L, E : /\ last = component_last(a) /\ F = FirstExecuted(fs)
                          /\ L = LastExecuted(fs) /\ E = executable_components(fs)
  OBVIOUS
<1>1. /\ IsFlow(fs) /\ last \in Nat /\ SinkIndex(fs) = last + 1
      /\ E \subseteq 1 .. last /\ 2 .. last - 1 \subseteq E
      /\ F \in {1, 2} /\ F \in E /\ L \in {last - 1, last} /\ L \in E
      /\ \A i \in E : F <= i /\ i <= L
  BY <1>a, Shape
<1>2. E = F .. L
  <2>1. \A i \in F .. L : i \in E
    <3> SUFFICES ASSUME NEW i \in F .. L, i # F, i # L PROVE i \in E
      BY <1>1
    <3> QED BY <1>1
  <2>2. F \in Int /\ L \in Int /\ E \subseteq Int
    BY <1>1
  <2>3. \A i \in E : i \in F .. L
    BY <1>1, <2>2
  <2> QED BY <2>1, <2>3
<1>b. PICK N : N = L - F + 2
  OBVIOUS
<1>3. Cardinality(E) + 1 = N /\ N \in Nat \ {0} /\ N - 1 \in Nat \ {0}
  <2>1. F \in Int /\ L \in Int /\ F <= L
    BY <1>1
  <2>2. Cardinality(F .. L) = L - F + 1
    BY <2>1, FS_Interval
  <2> QED BY <1>b, <1>2, <2>1, <2>2
<1> PICK pos : pos = [m \in 0 .. N |-> IF m = 0 THEN 0
                                       ELSE IF m = N THEN SinkIndex(fs) ELSE F + m - 1]
  OBVIOUS
<1>4. pos[0] = 0 /\ pos[N] = SinkIndex(fs)
  BY <1>3
<1>5. ASSUME NEW m \in 0 .. N PROVE pos[m] \in {0} \cup Receiving(fs)
  <2>1. m # 0 /\ m # N => pos[m] = F + m - 1 /\ F + m - 1 \in F .. L
    BY <1>1, <1>3, <1>b
  <2> QED BY <1>2, <1>4, <1>a, <2>1 DEF Receiving
<1>6. ASSUME NEW m \in 0 .. N, m # N
      PROVE  pos[m] # SinkIndex(fs) /\ pos[m + 1] = next(fs, pos[m])
  <2> PICK i, j : i = pos[m] /\ j = next(fs, i)
    OBVIOUS
  <2>1. i = IF m = 0 THEN 0 ELSE F + m - 1
    BY <1>3, <1>6
  <2>2. i \in Sending(fs)
    <3>1. m # 0 => F + m - 1 \in F .. L
      BY <1>1, <1>3, <1>6, <1>b
    <3> QED BY <1>2, <1>a, <2>1, <3>1 DEF Sending
  <2>3. /\ j \in Receiving(fs) /\ j > i
        /\ \A n \in E : n > i => j <= n
        /\ j = SinkIndex(fs) <=> i = L
    BY <1>1, <1>a, <2>2, NextInChain
  <2>4. i # SinkIndex(fs)
    BY <1>1, <2>2, SlotsApart
  <2>5. CASE m + 1 = N
    <3>1. i = L
      BY <1>1, <1>3, <1>b, <2>1, <2>5
    <3> QED BY <1>4, <2>3, <2>4, <2>5, <3>1
  <2>6. CASE m + 1 # N
    <3>1. m + 1 \in 0 .. N /\ m + 1 # 0 /\ pos[m + 1] = F + m
      BY <1>3, <1>6, <2>6
    <3>2. F + m \in F .. L /\ i # L /\ i < F + m
      BY <1>1, <1>3, <1>6, <1>b, <2>1, <2>6
    <3>3. j \in E /\ j <= F + m
      BY <1>2, <1>a, <2>3, <3>2 DEF Receiving
    <3>4. m # 0 => i = F + m - 1
      BY <2>1
    <3>5. j = F + m
      BY <1>1, <1>2, <2>1, <2>3, <3>3
    <3> QED BY <2>4, <3>1, <3>5
  <2> QED BY <2>5, <2>6
<1> QED BY <1>3, <1>4, <1>5, <1>6, <1>a, SMTT(20) DEF IsChain

-----------------------------------------------------------------------------
(* A model pass, round by round.                                           *)

\* What is sent and kept after one more round.
AfterRound(read, passed) ==
  LET invoked == UNION {Invocation(read, c) : c \in passed.sent} IN
  [sent |-> UNION {i.sent : i \in invoked},
   kept |-> passed.kept \cup {i.payload : i \in {j \in invoked : j.at.hop.kind = "sink"}}]

ArePassRounds(f, read, first, rounds) ==
  f = [m \in 0 .. rounds |->
         IF m = 0 THEN [sent |-> {first}, kept |-> {}] ELSE AfterRound(read, f[m - 1])]

LEMMA PassUnfolds ==
  ASSUME NEW read, NEW first, NEW rounds, NEW f, ArePassRounds(f, read, first, rounds)
  PROVE  \E g : /\ ArePassRounds(g, read, first, rounds)
                /\ ModelPassAfter(read, first, rounds) = g[rounds]
<1> DEFINE Is(h) == h = [m \in 0 .. rounds |->
        IF m = 0 THEN [sent |-> {first}, kept |-> {}]
        ELSE LET earlier == h[m - 1]
                 invoked == UNION {Invocation(read, c) : c \in earlier.sent}
             IN [sent |-> UNION {i.sent : i \in invoked},
                 kept |-> earlier.kept \cup
                   {i.payload : i \in {j \in invoked : j.at.hop.kind = "sink"}}]]
<1>1. Is(f)
  BY Zenon DEF ArePassRounds, AfterRound
<1>2. ModelPassAfter(read, first, rounds) = (CHOOSE h : Is(h))[rounds]
  BY Zenon DEF ModelPassAfter
<1>3. PICK g : Is(g) /\ ModelPassAfter(read, first, rounds) = g[rounds]
  <2> HIDE DEF Is
  <2> QED BY <1>1, <1>2
<1>4. ArePassRounds(g, read, first, rounds)
  BY <1>3, Zenon DEF ArePassRounds, AfterRound
<1> QED BY <1>3, <1>4

\* If a sequence starts like a pass and goes on like it, it is the pass.
LEMMA PassIs ==
  ASSUME NEW read, NEW first, NEW rounds \in Nat, NEW f, DOMAIN f = 0 .. rounds,
         f[0] = [sent |-> {first}, kept |-> {}],
         \A m \in 0 .. rounds : m # rounds => f[m + 1] = AfterRound(read, f[m])
  PROVE  ModelPassAfter(read, first, rounds) = f[rounds]
<1> PICK start : start = [sent |-> {first}, kept |-> {}]
  OBVIOUS
<1>0. f[0] = start /\ 0 \in 0 .. rounds
  OBVIOUS
<1>1. PICK h : h = [m \in 0 .. rounds |-> f[m]]
  OBVIOUS
<1>2. ASSUME NEW m \in 0 .. rounds, m # 0 PROVE m - 1 \in 0 .. rounds /\ h[m] = AfterRound(read, h[m - 1])
  <2> PICK n : n = m - 1
    OBVIOUS
  <2>1. n \in 0 .. rounds /\ n # rounds /\ n + 1 = m
    BY <1>2
  <2>2. f[n + 1] = AfterRound(read, f[n])
    BY <2>1
  <2> QED BY <1>1, <2>1, <2>2
<1>3. ArePassRounds(h, read, first, rounds)
  <2> DEFINE step(X) == AfterRound(read, X)
  <2>1. \A m \in 0 .. rounds : m # 0 => h[m] = step(h[m - 1])
    BY <1>2
  <2> HIDE DEF step
  <2>2. h[0] = start
    BY <1>1
  <2>3. h = [m \in 0 .. rounds |-> IF m = 0 THEN start ELSE step(h[m - 1])]
    BY <1>1, <2>1, <2>2
  <2> QED BY <2>3, Zenon DEF step, ArePassRounds
<1>4. PICK g : ArePassRounds(g, read, first, rounds) /\ ModelPassAfter(read, first, rounds) = g[rounds]
  BY <1>3, PassUnfolds
<1>5. /\ g[0] = f[0]
      /\ \A m \in 0 .. rounds : m # rounds => m + 1 \in 0 .. rounds /\ g[m + 1] = AfterRound(read, g[m])
  <2>1. \A m \in 0 .. rounds : g[m] = IF m = 0 THEN start ELSE AfterRound(read, g[m - 1])
    BY <1>4 DEF ArePassRounds
  <2>2. \A m \in 0 .. rounds : m # rounds => m + 1 \in 0 .. rounds /\ m + 1 # 0 /\ (m + 1) - 1 = m
    OBVIOUS
  <2>3. g[0] = f[0]
    BY <1>0, <2>1
  <2>4. ASSUME NEW m \in 0 .. rounds, m # rounds PROVE g[m + 1] = AfterRound(read, g[m])
    <3> PICK n : n = m + 1
      OBVIOUS
    <3>1. n \in 0 .. rounds /\ n # 0 /\ n - 1 = m
      BY <2>2, <2>4
    <3>2. g[n] = AfterRound(read, g[n - 1])
      BY <2>1, <3>1
    <3> QED BY <3>1, <3>2
  <2> QED BY <2>2, <2>3, <2>4
<1> PICK Same : Same = {m \in 0 .. rounds : g[m] = f[m]}
  OBVIOUS
<1>6. \A m \in 0 .. rounds : m # rounds /\ m \in Same => m + 1 \in Same
  BY <1>5
<1>7. \A m \in 0 .. rounds : m \in Same
  <2>1. Same \in SUBSET (0 .. rounds) /\ 0 \in Same
    BY <1>0, <1>5
  <2> QED BY <1>6, <2>1, UpTo
<1> QED BY <1>4, <1>7

\* A round passes tensors of a run from one hop to the next, and into the sink.
LEMMA RoundOfRun ==
  ASSUME AnswersInv, PlansInv, plans # <<>>, NEW values, NEW k, IsRunOfFlow(values, k),
         NEW i \in {0} \cup Receiving(Solved[k])
  PROVE  AfterRound(ReadPlans, [sent |-> {Arriving(values, k, i)}, kept |-> {}])
           = IF i = SinkIndex(Solved[k])
             THEN [sent |-> {}, kept |-> {Arriving(values, k, i).bundle}]
             ELSE [sent |-> {Arriving(values, k, next(Solved[k], i))}, kept |-> {}]
<1> PICK c, passed, invoked :
      /\ c = Arriving(values, k, i) /\ passed = [sent |-> {c}, kept |-> {}]
      /\ invoked = UNION {Invocation(ReadPlans, d) : d \in passed.sent}
  OBVIOUS
<1>1. PICK o : Invocation(ReadPlans, Arriving(values, k, i)) = {o} /\ IsOutcome(o, values, k, i)
  BY HopsAreInvoked
<1>2. invoked = {o}
  <2>1. passed.sent = {c} /\ Invocation(ReadPlans, c) = {o}
    BY <1>1
  <2>2. {Invocation(ReadPlans, d) : d \in passed.sent} = {{o}}
    BY <2>1
  <2> QED BY <2>2
<1>3. AfterRound(ReadPlans, passed)
        = [sent |-> UNION {j.sent : j \in invoked},
           kept |-> passed.kept \cup {j.payload : j \in {m \in invoked : m.at.hop.kind = "sink"}}]
  BY Zenon DEF AfterRound
<1>4. UNION {j.sent : j \in invoked} = o.sent
  BY <1>2
<1>5. passed.kept \cup {j.payload : j \in {m \in invoked : m.at.hop.kind = "sink"}}
        = IF o.at.hop.kind = "sink" THEN {o.payload} ELSE {}
  <2>1. passed.kept = {}
    OBVIOUS
  <2>2. {m \in invoked : m.at.hop.kind = "sink"} = IF o.at.hop.kind = "sink" THEN {o} ELSE {}
    BY <1>2
  <2> QED BY <2>1, <2>2
<1>6. AfterRound(ReadPlans, passed)
        = [sent |-> o.sent, kept |-> IF o.at.hop.kind = "sink" THEN {o.payload} ELSE {}]
  BY <1>3, <1>4, <1>5
<1>7. CASE i = SinkIndex(Solved[k])
  <2>1. o.at.hop.kind = "sink" /\ o.payload = c.bundle /\ o.sent = {}
    BY <1>1, <1>7 DEF IsOutcome
  <2> QED BY <1>6, <1>7, <2>1
<1>8. CASE i # SinkIndex(Solved[k])
  <2>1. o.at.hop.kind # "sink" /\ o.sent = {Arriving(values, k, next(Solved[k], i))}
    BY <1>1, <1>8 DEF IsOutcome
  <2> QED BY <1>6, <1>8, <2>1
<1> QED BY <1>7, <1>8

\* A model pass that starts with tensors of a run ends in the sink, once.
LEMMA PassOfRun ==
  ASSUME AnswersInv, PlansInv, plans # <<>>, NEW values, NEW k, IsRunOfFlow(values, k),
         NEW rounds, rounds = Cardinality(executable_components(Solved[k])) + 1
  PROVE  /\ ModelPassAfter(ReadPlans, Arriving(values, k, 0), rounds).sent
              = {Arriving(values, k, SinkIndex(Solved[k]))}
         /\ ModelPassAfter(ReadPlans, Arriving(values, k, 0), rounds + 1).kept
              = {Arriving(values, k, SinkIndex(Solved[k])).bundle}
<1>a. PICK fs, sink, outcome : /\ fs = Solved[k] /\ sink = SinkIndex(fs)
                               /\ outcome = Arriving(values, k, sink).bundle
  OBVIOUS
<1>1. k \in 1 .. Len(answers)
  BY DEF IsRunOfFlow
<1>2. PICK pos : IsChain(pos, fs, rounds)
  <2>1. answers[k] \in WellCut /\ IsSolutionOf(fs, answers[k])
    BY <1>a, <1>1, SolvedOf, SolvedFlows
  <2> QED BY <1>a, <2>1, ChainOfFlow
<1>3. /\ rounds \in Nat /\ rounds + 1 \in Nat /\ pos[0] = 0 /\ pos[rounds] = sink
      /\ \A m \in 0 .. rounds : pos[m] \in {0} \cup Receiving(fs)
      /\ \A m \in 0 .. rounds : m # rounds => pos[m] # sink /\ pos[m + 1] = next(fs, pos[m])
  BY <1>2, <1>a DEF IsChain
<1>b. PICK at : at = [m \in 0 .. rounds + 1 |->
                        IF m = rounds + 1 THEN [sent |-> {}, kept |-> {outcome}]
                        ELSE [sent |-> {Arriving(values, k, pos[m])}, kept |-> {}]]
  OBVIOUS
<1>4. ASSUME NEW m \in 0 .. rounds + 1, m # rounds + 1
      PROVE  at[m + 1] = AfterRound(ReadPlans, at[m])
  <2> PICK i : i = pos[m]
    OBVIOUS
  <2>1. m \in 0 .. rounds /\ m + 1 \in 0 .. rounds + 1
    BY <1>3, <1>4
  <2>2. at[m] = [sent |-> {Arriving(values, k, i)}, kept |-> {}]
    BY <1>4, <1>b
  <2>3. i \in {0} \cup Receiving(Solved[k])
    BY <1>3, <1>a, <2>1
  <2>4. AfterRound(ReadPlans, [sent |-> {Arriving(values, k, i)}, kept |-> {}])
           = IF i = SinkIndex(Solved[k])
             THEN [sent |-> {}, kept |-> {Arriving(values, k, i).bundle}]
             ELSE [sent |-> {Arriving(values, k, next(Solved[k], i))}, kept |-> {}]
    BY <2>3, RoundOfRun
  <2>5. CASE m = rounds
    <3>1. i = sink /\ m + 1 = rounds + 1
      BY <1>3, <2>5
    <3>2. at[m + 1] = [sent |-> {}, kept |-> {outcome}]
      BY <1>b, <2>1, <3>1
    <3> QED BY <1>a, <2>2, <2>4, <3>1, <3>2
  <2>6. CASE m # rounds
    <3>1. i # sink /\ pos[m + 1] = next(fs, i) /\ m + 1 # rounds + 1
      BY <1>3, <2>1, <2>6
    <3>2. at[m + 1] = [sent |-> {Arriving(values, k, next(fs, i))}, kept |-> {}]
      BY <1>b, <2>1, <3>1
    <3> QED BY <1>a, <2>2, <2>4, <3>1, <3>2
  <2> QED BY <2>5, <2>6
<1>c. PICK first, read : first = Arriving(values, k, 0) /\ read = ReadPlans
  OBVIOUS
<1>5. at[0] = [sent |-> {first}, kept |-> {}] /\ DOMAIN at = 0 .. rounds + 1
  <2>1. 0 \in 0 .. rounds + 1 /\ 0 # rounds + 1
    BY <1>3
  <2> QED BY <1>3, <1>b, <1>c, <2>1
<1>6. ModelPassAfter(read, first, rounds + 1) = at[rounds + 1]
  BY <1>3, <1>4, <1>5, <1>c, PassIs
<1>d. PICK until : until = [m \in 0 .. rounds |-> at[m]]
  OBVIOUS
<1>7. ASSUME NEW m \in 0 .. rounds, m # rounds
      PROVE  until[m + 1] = AfterRound(read, until[m])
  <2>1. m \in 0 .. rounds + 1 /\ m # rounds + 1 /\ m + 1 \in 0 .. rounds
    BY <1>3, <1>7
  <2> QED BY <1>4, <1>c, <1>d, <2>1
<1>8. ModelPassAfter(read, first, rounds) = at[rounds]
  <2>1. until[0] = [sent |-> {first}, kept |-> {}] /\ DOMAIN until = 0 .. rounds
        /\ until[rounds] = at[rounds]
    BY <1>3, <1>5, <1>d
  <2> QED BY <1>3, <1>7, <2>1, PassIs
<1>9. at[rounds].sent = {Arriving(values, k, sink)} /\ at[rounds + 1].kept = {outcome}
  <2>1. /\ rounds \in 0 .. rounds + 1 /\ rounds # rounds + 1
        /\ rounds + 1 \in 0 .. rounds + 1
    BY <1>3
  <2>2. at[rounds] = [sent |-> {Arriving(values, k, sink)}, kept |-> {}]
    BY <1>3, <1>b, <2>1
  <2>3. at[rounds + 1] = [sent |-> {}, kept |-> {outcome}]
    BY <1>b, <2>1
  <2> QED BY <2>2, <2>3
<1> QED BY <1>6, <1>8, <1>9, <1>a, <1>c

\* What is converted is what was extracted, under the same name and to the same hops.
LEMMA FlowPlanOf ==
  ASSUME AnswersInv, NEW k \in 1 .. Len(answers), NEW fp, fp = flow_plans(solution)[k]
  PROVE  /\ fp.flow = Solved[k].flow /\ fp.variant = answers[k].variant
         /\ fp.ingress = ingress_id(Solved, k) /\ fp.sink = sink_id(Solved, k)
         /\ executable_components(solution[k]) = executable_components(Solved[k])
<1>a. PICK sol, new : sol = solution /\ new = Solved
  OBVIOUS
<1>1. /\ DOMAIN new = 1 .. Len(answers) /\ DOMAIN sol = 1 .. Len(answers) /\ Len(answers) \in Nat
  BY <1>a, SolvedOf DEF AnswersInv
<1>2. ASSUME NEW j \in 1 .. Len(answers)
      PROVE  /\ IsSolved(new[j], sol[j], component_last(answers[j]), PrioritiesOf(j))
             /\ IsSolutionOf(sol[j], answers[j]) /\ IsFlowOf(sol[j], answers[j])
             /\ answers[j] \in WellCut
  BY <1>a, SolvedOf
<1>3. ASSUME NEW j \in 1 .. Len(answers)
      PROVE  new[j].variant = sol[j].variant /\ new[j].flow = sol[j].flow
  BY <1>2, Zenon DEF IsSolved
<1>4. sol[k].variant = answers[k].variant
  BY <1>2, ExtractedCarries DEF Carries
<1>5. executable_components(sol[k]) = executable_components(new[k])
  <2> PICK last : last = component_last(answers[k])
    OBVIOUS
  <2>1. DOMAIN sol[k].components = 1 .. last /\ DOMAIN new[k].components = 1 .. last
    BY <1>2, Zenon DEF IsSolved, IsSolutionOf
  <2>2. \A i \in 1 .. last : new[k].components[i].layers = sol[k].components[i].layers
    BY <1>2, Zenon DEF IsSolved
  <2> QED BY <2>1, <2>2 DEF executable_components
<1>6. endpoint_index(sol, k) = endpoint_index(new, k)
  <2>1. \A j \in 1 .. k - 1 : new[j].variant = sol[j].variant
    BY <1>1, <1>3
  <2>2. {j \in 1 .. k - 1 : sol[j].variant = sol[k].variant}
          = {j \in 1 .. k - 1 : new[j].variant = new[k].variant}
    BY <1>3, <2>1
  <2> QED BY <2>2 DEF endpoint_index
<1>7. ASSUME NEW kind PROVE endpoint_id(sol, k, kind) = endpoint_id(new, k, kind)
  <2> PICK v, n : v = sol[k].variant /\ n = endpoint_index(sol, k)
    OBVIOUS
  <2>1. /\ endpoint_id(sol, k, kind)
             = [kind |-> kind, of |-> [variant |-> v, layers |-> {}], replica_idx |-> n]
        /\ endpoint_id(new, k, kind)
             = [kind |-> kind, of |-> [variant |-> v, layers |-> {}], replica_idx |-> n]
    BY <1>3, <1>6, Zenon DEF endpoint_id
  <2> QED BY <2>1
<1>8. fp = [flow |-> sol[k].flow, variant |-> sol[k].variant,
            ingress |-> ingress_id(sol, k), sink |-> sink_id(sol, k)]
  BY <1>1, <1>a DEF flow_plans
<1>9. /\ fp.flow = sol[k].flow /\ fp.variant = sol[k].variant
      /\ fp.ingress = ingress_id(sol, k) /\ fp.sink = sink_id(sol, k)
  BY <1>8
<1>10. ingress_id(sol, k) = ingress_id(new, k) /\ sink_id(sol, k) = sink_id(new, k)
  BY <1>7 DEF ingress_id, sink_id
<1> QED BY <1>3, <1>4, <1>5, <1>9, <1>10, <1>a

\* Everything the model returns arrives in the sink.
LEMMA SinkHasTheResults ==
  ASSUME NEW a \in WellCut, NEW fs, IsSolutionOf(fs, a), Carries(fs, a),
         NEW g, g = Files[a.variant]
  PROVE  g.outputs \subseteq result_tensors(fs) /\ g.outputs \subseteq Written(g)
<1> PICK t, Out : t = Models[a.variant].topology /\ Out = OUTPUT_LAYER_NAME
  OBVIOUS
<1>1. IsModelFile(g) /\ t = build_model_topology(g)
  <2>1. a.variant \in DOMAIN Files
    BY CutFacts DEF Models
  <2> QED BY <2>1, FilesAreModels
<1> SUFFICES ASSUME NEW x \in g.outputs PROVE x \in result_tensors(fs) /\ x \in Written(g)
  OBVIOUS
<1>2. PICK l \in t.layers \ boundary(t) : x \in g.nodes[l].outputs
  BY <1>1, LayersMakeResults
<1>3. l \in DOMAIN g.nodes /\ l # INPUT_LAYER_NAME /\ l # Out
  BY <1>1, <1>2, TopologyOfFile DEF boundary
<1>4. x \in find_layer_outputs(g, l) \cap find_layer_inputs(g, Out)
  <2>1. find_layer_outputs(g, l) = g.nodes[l].outputs
    BY <1>3 DEF find_layer_outputs
  <2>2. find_layer_inputs(g, Out) = g.outputs
    BY DEF find_layer_inputs, INPUT_LAYER_NAME, OUTPUT_LAYER_NAME
  <2> QED BY <1>2, <2>1, <2>2
<1>5. PICK e \in t.edges : e.source = l /\ e.target = Out
  BY <1>1, <1>2, <1>3, <1>4, TopologyOfFile
<1>6. x \in e.tensors /\ Out \in t.outputs
  BY <1>1, <1>4, <1>5, TopologyOfFile
<1>7. x \in result_tensors(fs)
  BY <1>5, <1>6, ResultsAreReceived
<1>8. x \in Written(g)
  BY <1>2, <1>3, WrittenByNode
<1> QED BY <1>7, <1>8

\* What a caller sends is tensors of a run of the model, at the ingress.
LEMMA RequestArrives ==
  ASSUME AnswersInv, NEW k \in 1 .. Len(answers),
         NEW request, request = CallersRequest(flow_plans(solution)[k]),
         NEW g, g = Files[answers[k].variant]
  PROVE  /\ DOMAIN request.bundle # {}
         /\ \E values : /\ IsRunOfFlow(values, k)
                        /\ request = Arriving(values, k, 0)
                        /\ run_session(g, request.bundle) = filter(values, g.outputs)
                        /\ Written(g) \subseteq DOMAIN values
<1>a. PICK a, t, fp, fs, sol : /\ a = answers[k] /\ t = Models[a.variant].topology
                               /\ fp = flow_plans(solution)[k]
                               /\ fs = Solved[k] /\ sol = Solved
  OBVIOUS
<1>1. /\ fp.flow = fs.flow /\ fp.variant = a.variant /\ fp.ingress = ingress_id(sol, k)
  BY <1>a, FlowPlanOf
<1>2. /\ a \in WellCut /\ IsSolutionOf(fs, a) /\ Carries(fs, a)
  BY <1>a, SolvedOf, SolvedFlows, SolvedCarries
<1>3. IsModelFile(g) /\ t = build_model_topology(g)
  <2>1. a.variant \in DOMAIN Files
    BY <1>2, CutFacts DEF Models
  <2> QED BY <1>a, <2>1, FilesAreModels
<1>b. PICK inputs : inputs = input_tensor_properties(t)
  OBVIOUS
<1>4. /\ request.source = [flow |-> fs.flow, hop |-> ExternalHop]
      /\ request.destination = [flow |-> fs.flow, hop |-> ingress_id(sol, k)]
      /\ request.bundle = [x \in inputs |-> [caller |-> x]]
      /\ request = [source |-> request.source, destination |-> request.destination,
                    bundle |-> request.bundle]
  BY <1>1, <1>a, <1>b DEF CallersRequest
<1>c. PICK bundle : bundle = request.bundle
  OBVIOUS
<1>5. DOMAIN bundle = inputs
  BY <1>4, <1>c
<1>6. IsRunnable(g, bundle) /\ GivenTo(g, bundle) = inputs
  BY <1>3, <1>5, <1>b, ModelRuns
<1>7. PICK values : /\ IsRun(values, g, bundle)
                    /\ run_session(g, bundle) = filter(values, g.outputs)
  BY <1>6, SessionRuns
<1>8. IsRunOfFlow(values, k)
  BY <1>7 DEF IsRunOfFlow
<1>9. received(fs, 0) = inputs
  BY <1>2, <1>a, <1>b, InputTensors DEF received
<1>10. bundle = [x \in inputs |-> values[x]]
  <2>1. \A x \in inputs : values[x] = bundle[x]
    BY <1>6, <1>7 DEF IsRun
  <2> QED BY <1>4, <1>c, <2>1
<1>11. request = Arriving(values, k, 0)
  <2>1. address(sol, <<k, 0>>) = [flow |-> fs.flow, hop |-> ingress_id(sol, k)]
    BY <1>a DEF address, hop_at
  <2>2. input_routing(sol, k, 0).source = [flow |-> fs.flow, hop |-> ExternalHop]
    BY <1>a DEF input_routing
  <2>3. Arriving(values, k, 0)
          = [source |-> request.source, destination |-> request.destination, bundle |-> bundle]
    BY <1>4, <1>9, <1>10, <1>a, <2>1, <2>2 DEF Arriving
  <2> QED BY <1>4, <1>c, <2>3
<1>12. inputs # {}
  <2>1. 0 \in Sending(fs)
    BY DEF Sending
  <2>2. tensors_from(fs, 0) # {}
    BY <1>2, <2>1, RoutesCarry
  <2> QED BY <1>9, <2>2 DEF tensors_from, received
<1>13. Written(g) \subseteq DOMAIN values
  BY <1>7 DEF IsRun, Known
<1> QED BY <1>5, <1>7, <1>8, <1>11, <1>12, <1>13, <1>c

LEMMA RequestsOfInvPass ==
  ASSUME AnswersInv, PlansInv
  PROVE  RequestsPassTheWholeModel
<1> SUFFICES ASSUME plans # <<>>, NEW k \in DOMAIN solution
             PROVE  LET fp == flow_plans(solution)[k]
                        request == CallersRequest(fp)
                        hops == Cardinality(executable_components(solution[k])) + 2
                        arriving == ModelPassAfter(ReadPlans, request, hops - 1).sent
                        outcomes == ModelPassAfter(ReadPlans, request, hops).kept
                        model == Files[fp.variant]
                    IN /\ flow_plan_is_valid(fp, DOMAIN request.bundle)
                       /\ {c.destination : c \in arriving} = {[flow |-> fp.flow, hop |-> fp.sink]}
                       /\ Cardinality(outcomes) = 1
                       /\ \A outcome \in outcomes :
                            filter(outcome, model.outputs) = run_session(model, request.bundle)
  BY Zenon DEF RequestsPassTheWholeModel
<1> PICK fp : fp = flow_plans(solution)[k]
  OBVIOUS
<1> PICK request, hops, model :
      /\ request = CallersRequest(fp) /\ model = Files[fp.variant]
      /\ hops = Cardinality(executable_components(solution[k])) + 2
  OBVIOUS
<1> PICK arriving, outcomes :
      /\ arriving = ModelPassAfter(ReadPlans, request, hops - 1).sent
      /\ outcomes = ModelPassAfter(ReadPlans, request, hops).kept
  OBVIOUS
<1>1. k \in 1 .. Len(answers)
  BY DEF AnswersInv
<1>a. PICK a, fs, sol : a = answers[k] /\ fs = Solved[k] /\ sol = Solved
  OBVIOUS
<1>2. /\ fp.flow = fs.flow /\ fp.variant = a.variant
      /\ fp.ingress = ingress_id(sol, k) /\ fp.sink = sink_id(sol, k)
      /\ executable_components(solution[k]) = executable_components(fs)
  BY <1>1, <1>a, FlowPlanOf
<1>3. /\ a \in WellCut /\ IsSolutionOf(fs, a) /\ Carries(fs, a) /\ fs.variant = a.variant
      /\ k \in DOMAIN sol /\ IsSolution(sol) /\ IsFlow(fs)
  BY <1>1, <1>a, SolvedOf, SolvedFlows, SolvedCarries DEF PlansInv, IsSolution
<1>4. model = Files[answers[k].variant]
  BY <1>2, <1>a
<1>5. DOMAIN request.bundle # {}
  BY <1>1, <1>4, RequestArrives
<1>6. PICK values : /\ IsRunOfFlow(values, k)
                    /\ request = Arriving(values, k, 0)
                    /\ run_session(model, request.bundle) = filter(values, model.outputs)
                    /\ Written(model) \subseteq DOMAIN values
  BY <1>1, <1>4, RequestArrives
<1>b. PICK rounds, sink : /\ rounds = Cardinality(executable_components(Solved[k])) + 1
                          /\ sink = SinkIndex(fs)
  OBVIOUS
<1>7. hops - 1 = rounds /\ hops = rounds + 1
  <2>1. Cardinality(executable_components(fs)) \in Nat
    <3>1. executable_components(fs) \subseteq 1 .. component_last(a) /\ component_last(a) \in Nat
      BY <1>3, Shape
    <3>2. IsFiniteSet(executable_components(fs))
      BY <3>1, FS_Interval, FS_Subset
    <3> QED BY <3>2, FS_CardinalityType
  <2> QED BY <1>2, <1>a, <1>b, <2>1
<1>8. /\ arriving = {Arriving(values, k, sink)}
      /\ outcomes = {Arriving(values, k, sink).bundle}
  <2>1. /\ ModelPassAfter(ReadPlans, Arriving(values, k, 0), rounds).sent
              = {Arriving(values, k, SinkIndex(Solved[k]))}
        /\ ModelPassAfter(ReadPlans, Arriving(values, k, 0), rounds + 1).kept
              = {Arriving(values, k, SinkIndex(Solved[k])).bundle}
    BY <1>6, <1>b, PassOfRun, ZenonT(30)
  <2> QED BY <1>6, <1>7, <1>a, <1>b, <2>1
<1>9. flow_plan_is_valid(fp, DOMAIN request.bundle)
  <2>1. ingress_id(sol, k).of.variant = a.variant /\ sink_id(sol, k).of.variant = a.variant
    BY <1>3, <1>a DEF ingress_id, sink_id, endpoint_id
  <2> QED BY <1>2, <1>5, <2>1 DEF flow_plan_is_valid
<1>10. {c.destination : c \in arriving} = {[flow |-> fp.flow, hop |-> fp.sink]}
  <2>1. Arriving(values, k, sink).destination = address(sol, <<k, sink>>)
    BY <1>a DEF Arriving
  <2>2. address(sol, <<k, sink>>) = [flow |-> fs.flow, hop |-> sink_id(sol, k)]
    <3>1. sink # 0
      BY <1>3, <1>b, SlotsApart DEF Sending
    <3> QED BY <1>a, <1>b, <3>1 DEF address, hop_at
  <2> QED BY <1>2, <1>8, <2>1, <2>2
<1>11. Cardinality(outcomes) = 1
  BY <1>8, FS_Singleton
<1>12. ASSUME NEW outcome \in outcomes
       PROVE  filter(outcome, model.outputs) = run_session(model, request.bundle)
  <2>1. outcome = [x \in received(fs, sink) |-> values[x]]
    BY <1>8, <1>12, <1>a DEF Arriving
  <2>2. received(fs, sink) = result_tensors(fs)
    <3>1. sink # 0
      BY <1>3, <1>b, SlotsApart DEF Sending
    <3> QED BY <1>b, <3>1 DEF received
  <2>3. model.outputs \subseteq result_tensors(fs) /\ model.outputs \subseteq Written(model)
    BY <1>3, <1>4, <1>a, SinkHasTheResults
  <2>4. DOMAIN outcome \cap model.outputs = model.outputs
        /\ DOMAIN values \cap model.outputs = model.outputs
    BY <1>6, <2>1, <2>2, <2>3
  <2>5. \A x \in model.outputs : outcome[x] = values[x]
    BY <2>1, <2>2, <2>3
  <2>6. filter(outcome, model.outputs) = [x \in model.outputs |-> values[x]]
    BY <2>4, <2>5 DEF filter, Restrict
  <2>7. filter(values, model.outputs) = [x \in model.outputs |-> values[x]]
    BY <2>4 DEF filter, Restrict
  <2> QED BY <1>6, <2>6, <2>7
<1> QED BY <1>9, <1>10, <1>11, <1>12

-----------------------------------------------------------------------------
(* What the optimizer knows of a model file.                               *)

LEMMA ProdIsNatural ==
  ASSUME NEW n \in Nat, NEW s, DOMAIN s = 1 .. n, \A k \in 1 .. n : s[k] \in Nat
  PROVE  prod(s) \in Nat
<1> PICK S : S = 1 .. n
  OBVIOUS
<1> PICK step : step = [p \in S \X Nat |-> p[2] * s[p[1]]]
  OBVIOUS
<1> PICK chosen : chosen = [u \in SUBSET S |-> Max(u)]
  OBVIOUS
<1>1. step \in [S \X Nat -> Nat] /\ \A x \in S, m \in Nat : step[<<x, m>>] = m * s[x]
  OBVIOUS
<1>2. \A u \in SUBSET S : u # {} => Max(u) \in u
  <2> SUFFICES ASSUME NEW u \in SUBSET S, u # {} PROVE Max(u) \in u
    OBVIOUS
  <2>1. u \subseteq Nat /\ \A y \in u : y <= n
    OBVIOUS
  <2> QED BY <2>1, MaxIsGreatest
<1>3. Chooses(chosen, S)
  BY <1>2 DEF Chooses
<1>4. IsFiniteSet(S)
  BY FS_Interval
<1>5. PICK f \in [SUBSET S -> Nat] : IsFolding(f, S, 1, step, chosen)
  BY <1>1, <1>3, <1>4, FoldingExists
<1> DEFINE times(g) ==
      g = [u \in SUBSET S |-> IF u = {} THEN 1 ELSE LET x == Max(u) IN g[u \ {x}] * s[x]]
<1>6. prod(s) = (CHOOSE g : times(g))[S]
  BY Zenon DEF prod, FoldLeft, MapThenFoldSet
<1>7. times(f)
  <2>1. ASSUME NEW u \in SUBSET S
        PROVE  f[u] = IF u = {} THEN 1 ELSE f[u \ {Max(u)}] * s[Max(u)]
    <3>1. f[u] = FoldedOf(u, f, 1, step, chosen)
      BY <1>5 DEF IsFolding
    <3>2. CASE u = {}
      BY <3>1, <3>2 DEF FoldedOf
    <3>3. CASE u # {}
      <4>1. Max(u) \in S /\ f[u \ {Max(u)}] \in Nat /\ chosen[u] = Max(u)
        BY <1>2, <3>3
      <4>2. f[u] = step[<<Max(u), f[u \ {Max(u)}]>>]
        BY <3>1, <3>3, <4>1 DEF FoldedOf
      <4> QED BY <1>1, <3>3, <4>1, <4>2
    <3> QED BY <3>2, <3>3
  <2> QED BY <2>1
<1> HIDE DEF times
<1>8. PICK g : times(g) /\ g = CHOOSE h : times(h)
  BY <1>7
<1> PICK P : P = {u \in SUBSET S : g[u] = f[u]}
  OBVIOUS
<1>9. IsInductive(P, S)
  <2>1. \A u \in SUBSET S : /\ f[u] = IF u = {} THEN 1 ELSE f[u \ {Max(u)}] * s[Max(u)]
                            /\ g[u] = IF u = {} THEN 1 ELSE g[u \ {Max(u)}] * s[Max(u)]
    BY <1>7, <1>8 DEF times
  <2>2. {} \in P
    BY <2>1
  <2>3. ASSUME NEW u \in SUBSET S, u # {}, \A x \in u : u \ {x} \in P PROVE u \in P
    <3>1. g[u \ {Max(u)}] = f[u \ {Max(u)}]
      BY <1>2, <2>3
    <3> QED BY <2>1, <2>3, <3>1
  <2> QED BY <2>2, <2>3 DEF IsInductive
<1>10. S \in P
  BY <1>4, <1>9, ByElement
<1> QED BY <1>6, <1>8, <1>10

\* Bytes are natural numbers, the same in whichever way the dimensions are bound.
LEMMA BytesAre ==
  ASSUME NEW v \in DOMAIN Files, NEW x \in DOMAIN Files[v].shape, NEW b,
         symbols(Files[v].shape[x]) # {} => b["batch"] = 2
  PROVE  /\ prod(bind(Files[v].shape[x], b)) * Files[v].type_size[x] = Bytes(v, x)
         /\ Bytes(v, x) \in Nat
<1> PICK shape, size : shape = Files[v].shape[x] /\ size = Files[v].type_size[x]
  OBVIOUS
<1>1. shape \in Seq(Dimensions) /\ size \in Nat
  BY FilesAreDescribed DEF IsDescribed
<1> PICK n \in Nat : n = Len(shape)
  BY <1>1
<1> PICK two : two = [batch |-> 2]
  OBVIOUS
<1>2. ASSUME NEW k \in 1 .. n
      PROVE  IF shape[k].symbolic THEN b[shape[k].name] = 2 /\ two[shape[k].name] = 2
             ELSE shape[k].value \in Nat
  <2>1. shape[k] \in Dimensions /\ DOMAIN shape = 1 .. n
    BY <1>1
  <2>2. CASE shape[k].symbolic
    <3>1. shape[k].name = "batch"
      BY <2>1, <2>2 DEF Dimensions
    <3>2. shape[k].name \in symbols(shape)
      BY <2>1, <2>2 DEF symbols
    <3> QED BY <2>2, <3>1, <3>2
  <2>3. CASE ~ shape[k].symbolic
    BY <2>1, <2>3 DEF Dimensions
  <2> QED BY <2>2, <2>3
<1>3. DOMAIN shape = 1 .. n
  BY <1>1
<1>4. bind(shape, b) = bind(shape, two)
  BY <1>2, <1>3 DEF bind
<1>5. DOMAIN bind(shape, two) = 1 .. n /\ \A k \in 1 .. n : bind(shape, two)[k] \in Nat
  BY <1>2, <1>3 DEF bind
<1>6. prod(bind(shape, two)) \in Nat
  BY <1>5, ProdIsNatural
<1>7. Bytes(v, x) = size * prod(bind(shape, two))
  BY DEF Bytes
<1> QED BY <1>1, <1>4, <1>6, <1>7

\* The static profile, on its way from the model manager to the optimizer.
IsProfileOf(v, g, t, dto, profile) ==
  /\ g = Files[v] /\ t = build_model_topology(g)
  /\ dto = StoredProfiles[v] /\ profile = StaticProfileOf[v]

KeepsFields(g, t, dto, profile) ==
  /\ dto.layer_properties = [l \in t.layers |-> weight_properties(g, t, l)]
  /\ dto.tensor_properties = tensor_properties(g, t)
  /\ profile.tensors = dto.tensor_properties
  /\ profile.shape_profiles = dto.variable_properties
  /\ profile.layers = [l \in DOMAIN dto.layer_properties |->
       [x \in DOMAIN dto.layer_properties[l] |->
          [shape |-> bind(dto.layer_properties[l][x].shape, <<>>),
           type_size |-> dto.layer_properties[l][x].type_size]]]
  /\ profile.topology = t

LEMMA StoredFields ==
  ASSUME NEW v \in DOMAIN Files, NEW g, NEW t, NEW dto, NEW profile,
         IsProfileOf(v, g, t, dto, profile)
  PROVE  KeepsFields(g, t, dto, profile)
<1> PICK info : info = Info(v, {2})
  OBVIOUS
<1> PICK p : p = profile_model_variant(g, info)
  OBVIOUS
<1>1. dto = to_profiled_model_variant_dto(p)
  BY DEF IsProfileOf, StoredProfiles, Stored
<1>2. p.layers = [l \in t.layers |-> weight_properties(g, t, l)] /\ p.tensors = tensor_properties(g, t)
  BY DEF profile_model_variant, IsProfileOf
<1>3. dto.layer_properties = p.layers /\ dto.tensor_properties = p.tensors
  BY <1>1 DEF to_profiled_model_variant_dto
<1>4. profile = model_variant_static_profile_from_dto(dto, "detect", Accuracies[v])
  BY DEF IsProfileOf, StaticProfileOf, ReadByController
<1>5. /\ profile.tensors = dto.tensor_properties
      /\ profile.shape_profiles = dto.variable_properties
      /\ profile.layers = [l \in DOMAIN dto.layer_properties |->
           [x \in DOMAIN dto.layer_properties[l] |->
              [shape |-> bind(dto.layer_properties[l][x].shape, <<>>),
               type_size |-> dto.layer_properties[l][x].type_size]]]
      /\ profile.topology = topology_of(dto)
  BY <1>4 DEF model_variant_static_profile_from_dto
<1>6. profile.topology = t
  <2>1. Models[v].topology = t
    BY FilesAreModels DEF IsProfileOf
  <2>2. Models[v] = Model(profile)
    BY DEF Models, IsProfileOf
  <2> PICK m : m = optimizer_model(profile)
    OBVIOUS
  <2>3. "topology" \in DOMAIN m /\ m.topology = profile.topology
    BY DEF optimizer_model
  <2>4. Model(profile).topology = m.topology
    BY <2>3 DEF Model
  <2> QED BY <2>1, <2>2, <2>3, <2>4
<1> QED BY <1>2, <1>3, <1>5, <1>6, Zenon DEF KeepsFields

TakesFields(model, profile) ==
  /\ model.weight = [l \in profile.topology.layers |-> layer_weight_size_bytes(profile, l)]
  /\ model.size = [x \in DOMAIN profile.tensors |-> tensor_size_bytes(profile, x)]
  /\ model.max_cut = fixed_shape_profile(profile).max_cut
  /\ model.batch_size = batch_size(profile)

LEMMA ModelFields ==
  ASSUME NEW v \in DOMAIN Files
  PROVE  DOMAIN Models = DOMAIN Files /\ TakesFields(Models[v], StaticProfileOf[v])
<1> PICK profile : profile = StaticProfileOf[v]
  OBVIOUS
<1>1. Models[v] = Model(profile) /\ DOMAIN Models = DOMAIN Files
  BY DEF Models
<1> PICK m : m = optimizer_model(profile)
  OBVIOUS
<1>2. {"weight", "size", "max_cut", "batch_size"} \subseteq DOMAIN m
  BY DEF optimizer_model
<1>3. /\ m.weight = [l \in profile.topology.layers |-> layer_weight_size_bytes(profile, l)]
      /\ m.size = [x \in DOMAIN profile.tensors |-> tensor_size_bytes(profile, x)]
      /\ m.max_cut = fixed_shape_profile(profile).max_cut
      /\ m.batch_size = batch_size(profile)
  BY DEF optimizer_model
<1>4. /\ Model(profile).weight = m.weight /\ Model(profile).size = m.size
      /\ Model(profile).max_cut = m.max_cut /\ Model(profile).batch_size = m.batch_size
  BY <1>2 DEF Model
<1> QED BY <1>1, <1>3, <1>4, Zenon DEF TakesFields

\* A layer weighs what its weights do.
LEMMA LayerWeights ==
  ASSUME NEW v \in DOMAIN Files, NEW l \in build_model_topology(Files[v]).layers,
         NEW own, own = layer_weights(Files[v], build_model_topology(Files[v]), l),
         NEW h, h = [x \in own |-> Bytes(v, x)]
  PROVE  Counts(h, own) /\ Models[v].weight[l] = SumOver(h, own)
<1> PICK g, t, dto, profile : IsProfileOf(v, g, t, dto, profile)
  BY DEF IsProfileOf
<1>a. g = Files[v] /\ t = build_model_topology(g) /\ dto = StoredProfiles[v]
      /\ profile = StaticProfileOf[v]
  BY DEF IsProfileOf
<1>1. own \subseteq g.initializers /\ IsFiniteSet(g.initializers)
  BY <1>a, FilesAreDescribed DEF IsDescribed, layer_weights
<1>2. g.initializers \subseteq DOMAIN g.shape
  BY <1>a, ProfilesAreKept DEF profilable
<1>3. /\ dto.layer_properties = [k \in t.layers |-> weight_properties(g, t, k)]
      /\ profile.layers = [k \in DOMAIN dto.layer_properties |->
           [x \in DOMAIN dto.layer_properties[k] |->
              [shape |-> bind(dto.layer_properties[k][x].shape, <<>>),
               type_size |-> dto.layer_properties[k][x].type_size]]]
      /\ profile.topology = t
  <2>1. KeepsFields(g, t, dto, profile)
    BY StoredFields
  <2> QED BY <2>1, Zenon DEF KeepsFields
<1>4. dto.layer_properties[l] = [x \in own |-> [shape |-> g.shape[x], type_size |-> g.type_size[x]]]
  BY <1>3, <1>a DEF weight_properties
<1>5. profile.layers[l] = [x \in DOMAIN dto.layer_properties[l] |->
        [shape |-> bind(dto.layer_properties[l][x].shape, <<>>),
         type_size |-> dto.layer_properties[l][x].type_size]]
  BY <1>3, <1>a
<1>6. DOMAIN profile.layers[l] = own
  BY <1>4, <1>5
<1>7. ASSUME NEW x \in own
      PROVE  prod(profile.layers[l][x].shape) * profile.layers[l][x].type_size = h[x] /\ h[x] \in Nat
  <2>1. profile.layers[l][x].shape = bind(g.shape[x], <<>>)
        /\ profile.layers[l][x].type_size = g.type_size[x]
    BY <1>4, <1>5
  <2>2. symbols(g.shape[x]) = {}
    <3>1. readable(dto)
      <4>1. dto = Stored(v, {2})
        BY <1>a DEF StoredProfiles
      <4> QED BY <4>1, ProfilesAreKept
    <3>2. symbols(dto.layer_properties[l][x].shape) = {}
      <4>1. l \in DOMAIN dto.layer_properties /\ x \in DOMAIN dto.layer_properties[l]
        BY <1>3, <1>4, <1>a
      <4> QED BY <3>1, <4>1, Zenon DEF readable
    <3> QED BY <1>4, <3>2
  <2>3. x \in DOMAIN Files[v].shape
    BY <1>1, <1>2, <1>a
  <2>4. prod(bind(g.shape[x], <<>>)) * g.type_size[x] = Bytes(v, x) /\ Bytes(v, x) \in Nat
    BY <1>a, <2>2, <2>3, BytesAre
  <2> QED BY <2>1, <2>4
<1>8. Counts(h, own)
  BY <1>1, <1>7, FS_Subset DEF Counts
<1>9. Models[v].weight[l] = layer_weight_size_bytes(profile, l)
  <2>1. Models[v].weight
          = [k \in profile.topology.layers |-> layer_weight_size_bytes(profile, k)]
    BY <1>a, ModelFields, Zenon DEF TakesFields
  <2>2. l \in profile.topology.layers
    BY <1>3, <1>a
  <2> QED BY <2>1, <2>2
<1>10. layer_weight_size_bytes(profile, l) = SumOver(h, own)
  <2> DEFINE bytes(x) == prod(profile.layers[l][x].shape) * profile.layers[l][x].type_size
             sums(k) == k = [s \in SUBSET own |->
               IF s = {} THEN 0 ELSE LET x == CHOOSE x \in s : TRUE IN bytes(x) + k[s \ {x}]]
  <2>1. layer_weight_size_bytes(profile, l) = (CHOOSE k : sums(k))[own]
    BY <1>6, Zenon DEF layer_weight_size_bytes, MapThenSumSet, MapThenFoldSet
  <2>2. \A x \in own : h[x] = bytes(x)
    BY <1>7
  <2> HIDE DEF bytes
  <2>3. ASSUME NEW k PROVE sums(k) <=> IsSumming(k, h, own)
    <3>1. ASSUME NEW s \in SUBSET own
          PROVE  Summed(s, k, h)
                   = IF s = {} THEN 0 ELSE LET x == CHOOSE x \in s : TRUE IN bytes(x) + k[s \ {x}]
      BY <2>2 DEF Summed
    <3> QED BY <3>1 DEF IsSumming
  <2> HIDE DEF sums
  <2>4. PICK k : sums(k) /\ k = CHOOSE i : sums(i)
    BY <1>8, <2>3, SumsOfSubsets
  <2>5. k[own] = SumOver(h, own)
    BY <1>8, <2>3, <2>4, SumIs
  <2> QED BY <2>1, <2>4, <2>5
<1> QED BY <1>8, <1>9, <1>10

\* All named dimensions of the inputs may only be one: there is one configuration.
Two == [batch |-> 2]
OnlyShapes(v) == [x \in {"x"} |-> bind(Files[v].shape["x"], Two)]

LEMMA BoundAlike ==
  ASSUME NEW v \in DOMAIN Files, NEW x \in DOMAIN Files[v].shape, NEW b,
         symbols(Files[v].shape[x]) # {} => b["batch"] = 2
  PROVE  bind(Files[v].shape[x], b) = bind(Files[v].shape[x], Two)
<1> PICK shape : shape = Files[v].shape[x]
  OBVIOUS
<1>1. shape \in Seq(Dimensions)
  BY FilesAreDescribed DEF IsDescribed
<1>2. ASSUME NEW k \in DOMAIN shape, shape[k].symbolic
      PROVE  b[shape[k].name] = Two[shape[k].name]
  <2>1. shape[k] \in Dimensions
    BY <1>1
  <2>2. shape[k].name = "batch"
    BY <1>2, <2>1 DEF Dimensions
  <2>3. shape[k].name \in symbols(shape)
    BY <1>2 DEF symbols
  <2> QED BY <2>2, <2>3 DEF Two
<1> QED BY <1>2 DEF bind

LEMMA OnlyConfiguration ==
  ASSUME NEW v \in DOMAIN Files
  PROVE  compute_input_shape_configurations(Info(v, {2})) = {OnlyShapes(v)}
<1> PICK info : info = Info(v, {2})
  OBVIOUS
<1> PICK values : values = info.dynamic_dimension_values
  OBVIOUS
<1>1. /\ info.inputs_info = [x \in {"x"} |-> Files[v].shape["x"]]
      /\ values = [batch |-> {2}, beam |-> {1, 4}]
  BY DEF Info
<1>2. DOMAIN info.inputs_info = {"x"} /\ info.inputs_info["x"] = Files[v].shape["x"]
  BY <1>1
<1>3. "x" \in DOMAIN Files[v].shape
  BY FilesAreDescribed DEF IsDescribed, graph_inputs
<1>4. ASSUME NEW b \in bindings(values)
      PROVE  [x \in DOMAIN info.inputs_info |-> bind(info.inputs_info[x], b)] = OnlyShapes(v)
  <2>1. b["batch"] = 2
    BY <1>1 DEF bindings
  <2>2. bind(Files[v].shape["x"], b) = bind(Files[v].shape["x"], Two)
    BY <1>3, <2>1, BoundAlike
  <2> QED BY <1>2, <2>2 DEF OnlyShapes
<1>5. \E b : b \in bindings(values)
  <2> PICK b : b = [s \in DOMAIN values |-> IF s = "batch" THEN 2 ELSE 1]
    OBVIOUS
  <2>1. \A s \in DOMAIN values : b[s] \in values[s]
    BY <1>1
  <2>2. b \in [DOMAIN values -> UNION {values[s] : s \in DOMAIN values}]
    BY <2>1
  <2>3. b \in bindings(values)
    BY <2>1, <2>2 DEF bindings
  <2> QED BY <2>3
<1>6. compute_input_shape_configurations(info)
        = {[x \in DOMAIN info.inputs_info |-> bind(info.inputs_info[x], b)] : b \in bindings(values)}
  BY DEF compute_input_shape_configurations
<1> QED BY <1>4, <1>5, <1>6

LEMMA SeqOfOne == \A s : SetToSeq({s}) = <<s>>
<1> SUFFICES ASSUME NEW s PROVE SetToSeq({s}) = <<s>>
  OBVIOUS
<1>1. Cardinality({s}) = 1
  BY FS_Singleton
<1>2. <<s>> \in [1 .. 1 -> {s}] /\ IsInjective(<<s>>)
  BY DEF IsInjective
<1>3. SetToSeq({s}) \in [1 .. 1 -> {s}]
  BY <1>1, <1>2, Zenon DEF SetToSeq
<1>4. \A f \in [1 .. 1 -> {s}] : f = <<s>>
  OBVIOUS
<1> QED BY <1>3, <1>4

LEMMA FixedShapeProfile ==
  ASSUME NEW v \in DOMAIN Files, NEW g, NEW t, NEW dto, NEW profile,
         IsProfileOf(v, g, t, dto, profile)
  PROVE  /\ fixed_shape_profile(profile).tensors = shape_profile(g, t, OnlyShapes(v)).tensors
         /\ fixed_shape_profile(profile).max_cut = shape_profile(g, t, OnlyShapes(v)).max_cut
         /\ fixed_shape_profile(profile).input_shapes = OnlyShapes(v)
<1> PICK info : info = Info(v, {2})
  OBVIOUS
<1> PICK p : p = profile_model_variant(g, info)
  OBVIOUS
<1> PICK s : s = OnlyShapes(v)
  OBVIOUS
<1>1. dto = to_profiled_model_variant_dto(p) /\ t = build_model_topology(g)
  BY DEF IsProfileOf, StoredProfiles, Stored
<1>2. p.variable = [i \in {s} |-> shape_profile(g, t, i)]
  <2>1. p.variable = [i \in compute_input_shape_configurations(info) |-> shape_profile(g, t, i)]
    BY <1>1 DEF profile_model_variant
  <2> QED BY <2>1, OnlyConfiguration
<1>3. SetToSeq(DOMAIN p.variable) = <<s>>
  BY <1>2, SeqOfOne
<1>4. dto.variable_properties = [i \in DOMAIN <<s>> |->
        [input_shapes |-> <<s>>[i], tensors |-> p.variable[<<s>>[i]].tensors,
         max_cut |-> p.variable[<<s>>[i]].max_cut]]
  BY <1>1, <1>3 DEF to_profiled_model_variant_dto
<1>5. dto.variable_properties[1] =
        [input_shapes |-> s, tensors |-> shape_profile(g, t, s).tensors,
         max_cut |-> shape_profile(g, t, s).max_cut]
  BY <1>2, <1>4
<1>6. fixed_shape_profile(profile) = dto.variable_properties[1]
  <2>1. profile.shape_profiles = dto.variable_properties
    <3>1. KeepsFields(g, t, dto, profile)
      BY StoredFields
    <3> QED BY <3>1 DEF KeepsFields
  <2> QED BY <2>1 DEF fixed_shape_profile
<1> QED BY <1>5, <1>6

\* Of every tensor the bytes that are profiled are those it takes.
LEMMA ProfiledBytes ==
  ASSUME NEW v \in DOMAIN Files, NEW g, NEW t, NEW dto, NEW profile,
         IsProfileOf(v, g, t, dto, profile), NEW x \in profiled_tensors(t)
  PROVE  /\ prod(shape_infer(g, OnlyShapes(v), x)) * g.type_size[x] = Bytes(v, x)
         /\ Bytes(v, x) \in Nat
<1>a. g = Files[v] /\ t = build_model_topology(g)
  BY DEF IsProfileOf
<1> PICK s : s = OnlyShapes(v)
  OBVIOUS
<1> PICK b : b = [n \in symbols(g.shape[x]) |-> CHOOSE m \in known_as(g, s, n) : TRUE]
  OBVIOUS
<1>1. shape_infer(g, s, x) = bind(g.shape[x], b)
  BY DEF shape_infer
<1>2. x \in DOMAIN g.shape /\ resolved(g, x)
  BY <1>a, ProfilesAreKept DEF profilable
<1>3. graph_inputs(g) = {"x"} /\ "x" \in DOMAIN g.shape
  BY <1>a, FilesAreDescribed DEF IsDescribed, graph_inputs
<1>4. g.shape[x] \in Seq(Dimensions) /\ g.shape["x"] \in Seq(Dimensions)
  BY <1>a, <1>2, <1>3, FilesAreDescribed DEF IsDescribed
<1>5. symbols(g.shape[x]) \subseteq {"batch"}
  <2> SUFFICES ASSUME NEW k \in DOMAIN g.shape[x], g.shape[x][k].symbolic
               PROVE  g.shape[x][k].name = "batch"
    BY DEF symbols
  <2>1. g.shape[x][k] \in Dimensions
    BY <1>4
  <2> QED BY <2>1 DEF Dimensions
<1>6. symbols(g.shape[x]) \subseteq symbols(g.shape["x"])
  BY <1>2, <1>3 DEF resolved
<1>7. ASSUME "batch" \in symbols(g.shape[x]) PROVE b["batch"] = 2
  <2>1. PICK k \in DOMAIN g.shape["x"] :
          g.shape["x"][k].symbolic /\ g.shape["x"][k].name = "batch"
    BY <1>6, <1>7 DEF symbols
  <2> PICK where : where = {q \in UNION {{i} \X DOMAIN g.shape[i] : i \in graph_inputs(g)} :
                              g.shape[q[1]][q[2]] = Symbol("batch")}
    OBVIOUS
  <2>2. known_as(g, s, "batch") = {s[q[1]][q[2]] : q \in where}
    BY DEF known_as
  <2>3. \A q \in where : q[1] = "x" /\ q[2] \in DOMAIN g.shape["x"]
                         /\ g.shape["x"][q[2]] = Symbol("batch")
    BY <1>3
  <2>4. ASSUME NEW j \in DOMAIN g.shape["x"], g.shape["x"][j] = Symbol("batch")
        PROVE  s["x"][j] = 2
    <3>1. s["x"] = bind(g.shape["x"], Two)
      BY <1>a DEF OnlyShapes
    <3> QED BY <2>4, <3>1 DEF bind, Symbol, Two
  <2>5. g.shape["x"][k] = Symbol("batch")
    <3>1. g.shape["x"][k] \in Dimensions
      BY <1>4
    <3> QED BY <2>1, <3>1 DEF Dimensions, Symbol
  <2>6. <<"x", k>> \in where
    BY <1>3, <2>5
  <2>7. known_as(g, s, "batch") = {2}
    <3>1. \A q \in where : s[q[1]][q[2]] = 2
      BY <2>3, <2>4
    <3> QED BY <2>2, <2>6, <3>1
  <2>8. b["batch"] = CHOOSE m \in known_as(g, s, "batch") : TRUE
    BY <1>7
  <2> QED BY <2>7, <2>8
<1>8. symbols(Files[v].shape[x]) # {} => b["batch"] = 2
  BY <1>5, <1>7, <1>a
<1>9. x \in DOMAIN Files[v].shape
  BY <1>2, <1>a
<1> QED BY <1>1, <1>8, <1>9, <1>a, BytesAre

LEMMA FilesAreFinite ==
  ASSUME NEW v \in DOMAIN Files
  PROVE  IsFiniteSet(profiled_tensors(build_model_topology(Files[v])))
<1> PICK g, t : g = Files[v] /\ t = build_model_topology(g)
  OBVIOUS
<1> PICK N : N = DOMAIN g.nodes
  OBVIOUS
<1> PICK outs : outs = {g.nodes[n].outputs : n \in N}
  OBVIOUS
<1>1. IsFiniteSet(N) /\ IsFiniteSet(g.inputs) /\ \A n \in N : IsFiniteSet(g.nodes[n].outputs)
  BY FilesAreModels, FilesAreDescribed DEF IsModelFile, IsDescribed
<1>2. IsFiniteSet(outs)
  <2> PICK f : f = [n \in N |-> g.nodes[n].outputs]
    OBVIOUS
  <2>1. f \in Surjection(N, outs)
    BY DEF Surjection
  <2> QED BY <1>1, <2>1, FS_Surjection
<1>3. IsFiniteSet(UNION outs)
  BY <1>1, <1>2, FS_UNION
<1>4. IsFiniteSet(g.inputs \cup UNION outs)
  BY <1>1, <1>3, FS_Union
<1>5. ASSUME NEW e \in t.edges PROVE e.tensors \subseteq g.inputs \cup UNION outs
  <2>1. e \in add_topology_edges(g, add_topology_nodes(g))
    BY <1>5 DEF build_model_topology, clear_topology, remove_layers_from_iterable, whole_topology
  <2>2. PICK l \in add_topology_nodes(g) : e.tensors \subseteq find_layer_outputs(g, l)
    BY <2>1 DEF add_topology_edges
  <2> QED BY <2>2 DEF find_layer_outputs, add_topology_nodes
<1>6. profiled_tensors(t) \subseteq g.inputs \cup UNION outs
  BY <1>5 DEF profiled_tensors, TensorsOf, get_layer_out_edges
<1> QED BY <1>4, <1>6, FS_Subset

\* The tensors of a cut are never more than the largest one's.
Crossing(t, size, y) == {x \in DOMAIN size : crosses(t, y, x)}

LEMMA MaxCutIs ==
  ASSUME NEW t, NEW size, Counts(size, DOMAIN size)
  PROVE  /\ max_cut_size(t, size) \in Nat
         /\ \A y \in cuts_of(t) : SumOver(size, Crossing(t, size, y)) <= max_cut_size(t, size)
<1> DEFINE sums(y) == MapThenSumSet(LAMBDA x : size[x], {x \in DOMAIN size : crosses(t, y, x)})
<1> PICK D : D = DOMAIN size
  OBVIOUS
<1> PICK S : S = {sums(y) : y \in cuts_of(t)}
  OBVIOUS
<1>1. \A y : sums(y) = SumOver(size, Crossing(t, size, y))
  BY Zenon DEF MapThenSumSet, MapThenFoldSet, SumOver, IsSumming, Summed, Crossing
<1>2. max_cut_size(t, size) = Max(S)
  BY Zenon DEF max_cut_size
<1> HIDE DEF sums
<1>3. ASSUME NEW y PROVE sums(y) \in Nat /\ sums(y) <= SumOver(size, D)
  <2>1. Crossing(t, size, y) \in SUBSET D
    BY DEF Crossing
  <2> QED BY <1>1, <2>1, CountsOfPart, SumIsNatural, SumOfPart
<1>4. SumOver(size, D) \in Nat
  BY SumIsNatural
<1>5. S # {}
  <2>1. {} \in cuts_of(t)
    BY DEF cuts_of
  <2> QED BY <2>1
<1>6. Max(S) \in S /\ \A z \in S : z <= Max(S)
  <2>1. S \subseteq Nat /\ \A z \in S : z <= SumOver(size, D)
    BY <1>3
  <2> QED BY <1>4, <1>5, <2>1, MaxIsGreatest
<1> QED BY <1>1, <1>2, <1>3, <1>6

\* The largest cut is profiled of what the tensors take.
BytesOf(v) ==
  [x \in profiled_tensors(build_model_topology(Files[v])) |-> Bytes(v, x)]

LEMMA ModelSizes ==
  ASSUME NEW v \in DOMAIN Files
  PROVE  /\ Models[v].size = BytesOf(v)
         /\ Models[v].max_cut = max_cut_size(build_model_topology(Files[v]), BytesOf(v))
         /\ Counts(BytesOf(v), DOMAIN BytesOf(v))
<1> PICK g, t, dto, profile : IsProfileOf(v, g, t, dto, profile)
  BY DEF IsProfileOf
<1>a. g = Files[v] /\ t = build_model_topology(g) /\ dto = StoredProfiles[v]
      /\ profile = StaticProfileOf[v]
  BY DEF IsProfileOf
<1> PICK fixed, s : fixed = fixed_shape_profile(profile) /\ s = OnlyShapes(v)
  OBVIOUS
<1>1. /\ fixed.tensors = shape_profile(g, t, s).tensors
      /\ fixed.max_cut = shape_profile(g, t, s).max_cut
  BY FixedShapeProfile
<1>2. \A x \in profiled_tensors(t) :
        prod(shape_infer(g, s, x)) * g.type_size[x] = Bytes(v, x) /\ Bytes(v, x) \in Nat
  BY ProfiledBytes
<1>3. fixed.max_cut = max_cut_size(t, BytesOf(v))
  <2>1. bytes_of(g, t, s) = BytesOf(v)
    BY <1>2, <1>a DEF bytes_of, BytesOf
  <2> QED BY <1>1, <2>1 DEF shape_profile
<1>4. TakesFields(Models[v], profile)
  BY <1>a, ModelFields
<1>5. Models[v].size = BytesOf(v)
  <2>1. KeepsFields(g, t, dto, profile)
    BY StoredFields
  <2>2. profile.tensors = tensor_properties(g, t)
    BY <2>1 DEF KeepsFields
  <2>3. DOMAIN profile.tensors = profiled_tensors(t)
        /\ \A x \in profiled_tensors(t) : profile.tensors[x].type_size = g.type_size[x]
    BY <2>2 DEF tensor_properties
  <2>4. \A x \in profiled_tensors(t) : fixed.tensors[x] = shape_infer(g, s, x)
    BY <1>1 DEF shape_profile
  <2>5. \A x \in profiled_tensors(t) : tensor_size_bytes(profile, x) = Bytes(v, x)
    BY <1>2, <2>3, <2>4 DEF tensor_size_bytes
  <2>6. Models[v].size = [x \in DOMAIN profile.tensors |-> tensor_size_bytes(profile, x)]
    BY <1>4 DEF TakesFields
  <2> QED BY <2>3, <2>5, <2>6, <1>a DEF BytesOf
<1>6. Models[v].max_cut = fixed.max_cut
  BY <1>4 DEF TakesFields
<1>7. Counts(BytesOf(v), DOMAIN BytesOf(v))
  BY <1>2, <1>a, FilesAreFinite DEF Counts, BytesOf
<1> QED BY <1>3, <1>5, <1>6, <1>7, <1>a

-----------------------------------------------------------------------------
(* What is deployed on a worker.                                           *)

\* The weights of a hop's layers, each counted once.
WeightsOf(id) ==
  UNION {Files[id.variant].nodes[l].inputs \cap Files[id.variant].initializers : l \in id.layers}

LEMMA ComponentWeightIs ==
  ASSUME NEW a, NEW k, NEW weight, weight = context.models[a.variant].weight
  PROVE  component_weight(context, a, k) = SumOver(weight, layers_of(a, k))
BY Zenon DEF component_weight, MapThenSumSet, MapThenFoldSet, SumOver, IsSumming, Summed

\* A partition weighs at most what the optimizer takes its component to weigh.
LEMMA PartitionWeighs ==
  ASSUME NEW v \in DOMAIN Files, NEW t, t = build_model_topology(Files[v]),
         NEW within \in SUBSET t.layers, NEW L, L = within \ boundary(t),
         NEW id, id.variant = v, id.layers = L
  PROVE  LET h == [x \in WeightsOf(id) |-> Bytes(v, x)] IN
         /\ Counts(h, WeightsOf(id)) /\ Counts(Models[v].weight, within)
         /\ SumOver(h, WeightsOf(id)) <= SumOver(Models[v].weight, within)
<1> PICK g, weight : g = Files[v] /\ weight = Models[v].weight
  OBVIOUS
<1> DEFINE own(l) == layer_weights(g, t, l)
           bytes(l) == [x \in own(l) |-> Bytes(v, x)]
<1> PICK h : h = [x \in WeightsOf(id) |-> Bytes(v, x)]
  OBVIOUS
<1>1. IsFiniteSet(t.layers)
  <2>1. v \in DOMAIN Models /\ Models[v].topology = t
    BY FilesAreModels, ModelFields
  <2>2. IsDataFlow(Models[v].topology)
    BY <2>1, ModelFacts
  <2> QED BY <2>1, <2>2 DEF IsDataFlow
<1> PICK sets : sets = [l \in L |-> own(l)]
  OBVIOUS
<1>2. ASSUME NEW l \in t.layers PROVE Counts(bytes(l), own(l)) /\ weight[l] = SumOver(bytes(l), own(l))
  BY LayerWeights
<1>3. ASSUME NEW l \in L
      PROVE  sets[l] = g.nodes[l].inputs \cap g.initializers
  BY DEF layer_weights, boundary
<1>4. WeightsOf(id) = UNION {sets[l] : l \in L}
  BY <1>3 DEF WeightsOf
<1>5. ASSUME NEW l \in L
      PROVE  Counts(h, sets[l]) /\ SumOver(h, sets[l]) = weight[l]
  <2>1. \A x \in own(l) : bytes(l)[x] = h[x]
    BY <1>4
  <2>2. Counts(bytes(l), own(l)) /\ weight[l] = SumOver(bytes(l), own(l))
    BY <1>2
  <2> HIDE DEF own, bytes
  <2>3. Counts(h, own(l)) /\ SumOver(bytes(l), own(l)) = SumOver(h, own(l))
    BY <2>1, <2>2, SumsAgree
  <2>4. sets[l] = own(l)
    OBVIOUS
  <2> QED BY <2>2, <2>3, <2>4
<1>6. IsFiniteSet(L) /\ IsFiniteSet(within)
  BY <1>1, FS_Subset
<1>7. Counts(weight, within) /\ Counts(weight, L)
  <2>1. ASSUME NEW l \in t.layers PROVE weight[l] \in Nat
    <3>1. Counts(bytes(l), own(l)) /\ weight[l] = SumOver(bytes(l), own(l))
      BY <1>2
    <3> HIDE DEF own, bytes
    <3> QED BY <3>1, SumIsNatural
  <2> QED BY <1>6, <2>1 DEF Counts
<1> PICK sums : sums = [l \in L |-> SumOver(h, sets[l])]
  OBVIOUS
<1>8. Counts(h, WeightsOf(id)) /\ Counts(sums, L) /\ SumOver(h, WeightsOf(id)) <= SumOver(sums, L)
  <2> PICK all : all = UNION {sets[l] : l \in L}
    OBVIOUS
  <2>1. \A l \in L : Counts(h, sets[l])
    BY <1>5
  <2> HIDE DEF own, bytes
  <2>2. Counts(h, all) /\ Counts(sums, L) /\ SumOver(h, all) <= SumOver(sums, L)
    BY <1>6, <2>1, SumOfUnions
  <2> QED BY <1>4, <2>2
<1>9. SumOver(sums, L) = SumOver(weight, L)
  <2>1. \A l \in L : sums[l] = weight[l]
    BY <1>5
  <2> QED BY <1>8, <2>1, SumsAgree
<1>10. SumOver(weight, L) <= SumOver(weight, within)
  <2>1. L \in SUBSET within
    OBVIOUS
  <2> QED BY <1>7, <2>1, SumOfPart
<1>11. SumOver(h, WeightsOf(id)) <= SumOver(weight, within)
  <2>1. /\ SumOver(h, WeightsOf(id)) \in Nat /\ SumOver(weight, L) \in Nat
        /\ SumOver(weight, within) \in Nat
    BY <1>7, <1>8, SumIsNatural
  <2> QED BY <1>8, <1>9, <1>10, <2>1
<1> QED BY <1>7, <1>8, <1>11

LEMMA ComponentsAreSummed ==
  ASSUME NEW w, NEW h, NEW C, C = components_on(answers, w),
         h = [s \in C |-> component_weight(context, answers[s[1]], s[2])], Counts(h, C)
  PROVE  MapThenSumSet(LAMBDA s : component_weight(context, answers[s[1]], s[2]), C)
           = SumOver(h, C)
<1> DEFINE weight(s) == component_weight(context, answers[s[1]], s[2])
           sums(g) == g = [s \in SUBSET C |->
             IF s = {} THEN 0 ELSE LET x == CHOOSE x \in s : TRUE IN weight(x) + g[s \ {x}]]
<1>1. MapThenSumSet(LAMBDA s : component_weight(context, answers[s[1]], s[2]), C)
        = (CHOOSE g : sums(g))[C]
  BY Zenon DEF MapThenSumSet, MapThenFoldSet
<1>2. \A x \in C : h[x] = weight(x)
  OBVIOUS
<1> HIDE DEF weight
<1>3. \A g : sums(g) <=> IsSumming(g, h, C)
  <2> SUFFICES ASSUME NEW g PROVE sums(g) <=> IsSumming(g, h, C)
    OBVIOUS
  <2>1. ASSUME NEW s \in SUBSET C
        PROVE  Summed(s, g, h)
                 = IF s = {} THEN 0 ELSE LET x == CHOOSE x \in s : TRUE IN weight(x) + g[s \ {x}]
    BY <1>2 DEF Summed
  <2> QED BY <2>1 DEF IsSumming
<1> HIDE DEF sums
<1>4. PICK g : sums(g) /\ g = CHOOSE k : sums(k)
  BY <1>3, SumsOfSubsets
<1>5. g[C] = SumOver(h, C)
  BY <1>3, <1>4, SumIs
<1> QED BY <1>1, <1>4, <1>5

\* The weight of a hop, and the tensors its model holds, as the workers will find.
WeightOf(hop) ==
  MapThenSumSet(LAMBDA x : Bytes(hop.of.variant, x),
    UNION {Files[hop.of.variant].nodes[l].inputs
             \cap Files[hop.of.variant].initializers : l \in hop.of.layers})
HeldBy(hop) ==
  LET t == Models[hop.of.variant].topology IN
  max_cut_size(t, [x \in profiled_tensors(t) |-> Bytes(hop.of.variant, x)])

LEMMA BytesAreSummed ==
  ASSUME NEW hop, NEW v, v = hop.of.variant, NEW S, S = WeightsOf(hop.of),
         NEW h, h = [x \in S |-> Bytes(v, x)], Counts(h, S)
  PROVE  WeightOf(hop) = SumOver(h, S)
<1> DEFINE bytes(x) == Bytes(hop.of.variant, x)
           sums(g) == g = [s \in SUBSET S |->
             IF s = {} THEN 0 ELSE LET x == CHOOSE x \in s : TRUE IN bytes(x) + g[s \ {x}]]
<1>1. WeightOf(hop) = (CHOOSE g : sums(g))[S]
  BY Zenon DEF WeightOf, WeightsOf, MapThenSumSet, MapThenFoldSet
<1>2. \A x \in S : h[x] = bytes(x)
  OBVIOUS
<1> HIDE DEF bytes
<1>3. \A g : sums(g) <=> IsSumming(g, h, S)
  <2> SUFFICES ASSUME NEW g PROVE sums(g) <=> IsSumming(g, h, S)
    OBVIOUS
  <2>1. ASSUME NEW s \in SUBSET S
        PROVE  Summed(s, g, h)
                 = IF s = {} THEN 0 ELSE LET x == CHOOSE x \in s : TRUE IN bytes(x) + g[s \ {x}]
    BY <1>2 DEF Summed
  <2> QED BY <2>1 DEF IsSumming
<1> HIDE DEF sums
<1>4. PICK g : sums(g) /\ g = CHOOSE k : sums(k)
  BY <1>3, SumsOfSubsets
<1>5. g[S] = SumOver(h, S)
  BY <1>3, <1>4, SumIs
<1> QED BY <1>1, <1>4, <1>5

LEMMA HopsAreSummed ==
  ASSUME NEW D, NEW h, h = [hop \in D |-> WeightOf(hop)], Counts(h, D)
  PROVE  MapThenSumSet(WeightOf, D) = SumOver(h, D)
<1> DEFINE weight(hop) == WeightOf(hop)
           sums(g) == g = [s \in SUBSET D |->
             IF s = {} THEN 0 ELSE LET x == CHOOSE x \in s : TRUE IN weight(x) + g[s \ {x}]]
<1>1. MapThenSumSet(WeightOf, D) = (CHOOSE g : sums(g))[D]
  BY Zenon DEF MapThenSumSet, MapThenFoldSet
<1>2. \A x \in D : h[x] = weight(x)
  OBVIOUS
<1> HIDE DEF weight
<1>3. \A g : sums(g) <=> IsSumming(g, h, D)
  <2> SUFFICES ASSUME NEW g PROVE sums(g) <=> IsSumming(g, h, D)
    OBVIOUS
  <2>1. ASSUME NEW s \in SUBSET D
        PROVE  Summed(s, g, h)
                 = IF s = {} THEN 0 ELSE LET x == CHOOSE x \in s : TRUE IN weight(x) + g[s \ {x}]
    BY <1>2 DEF Summed
  <2> QED BY <2>1 DEF IsSumming
<1> HIDE DEF sums
<1>4. PICK g : sums(g) /\ g = CHOOSE k : sums(k)
  BY <1>3, SumsOfSubsets
<1>5. g[D] = SumOver(h, D)
  BY <1>3, <1>4, SumIs
<1> QED BY <1>1, <1>4, <1>5

\* What is executed somewhere, the optimizer has placed there.
LEMMA ExecutedSlots ==
  ASSUME AnswersInv, NEW w, NEW s \in executable_slots(Solved, w),
         NEW a, a = answers[s[1]], NEW of, of = replica_id(Solved, s).of
  PROVE  /\ s \in components_on(answers, w) /\ a \in WellCut
         /\ of.variant = a.variant
         /\ of.layers = layers_of(a, s[2]) \ boundary(Models[a.variant].topology)
<1> PICK sol : sol = Solved
  OBVIOUS
<1>1. /\ s \in UNION {{k} \X DOMAIN sol[k].components : k \in DOMAIN sol}
      /\ s[2] \in executable_components(sol[s[1]]) /\ sol[s[1]].components[s[2]].worker = w
  BY DEF executable_slots, ExecutableSlots
<1>2. PICK k \in DOMAIN sol : s \in {k} \X DOMAIN sol[k].components
  BY <1>1
<1> PICK i : i = s[2]
  OBVIOUS
<1>3. s = <<k, i>> /\ s[1] = k /\ i \in DOMAIN sol[k].components
      /\ i \in executable_components(sol[k])
  BY <1>1, <1>2
<1>4. DOMAIN sol = 1 .. Len(answers) /\ DOMAIN answers = 1 .. Len(answers)
  BY SolvedFlows DEF AnswersInv
<1>5. a \in WellCut /\ IsSolutionOf(sol[k], a)
  BY <1>2, <1>3, <1>4, SolvedOf, SolvedFlows
<1>6. sol[k].variant = a.variant
  BY <1>2, <1>3, <1>4, SolvedCarries
<1>7. /\ i \in 1 .. component_last(a) /\ sol[k].components[i].worker = a.worker_of[i]
      /\ sol[k].components[i].layers = layers_of(a, i) \ boundary(Models[a.variant].topology)
  BY <1>3, <1>5 DEF IsSolutionOf
<1>8. i \in components(a)
  BY <1>3, <1>5, <1>7, FlowOfAnswer
<1>9. s \in components_on(answers, w)
  <2>1. s \in {k} \X components(answers[k]) /\ answers[s[1]].worker_of[s[2]] = w
    BY <1>1, <1>3, <1>7, <1>8
  <2> QED BY <1>2, <1>4, <2>1 DEF components_on
<1>10. of.variant = sol[k].variant /\ of.layers = sol[k].components[i].layers
  BY <1>3 DEF replica_id, partition_id
<1> QED BY <1>3, <1>5, <1>6, <1>7, <1>9, <1>10

LEMMA ComponentsOn ==
  ASSUME AnswersInv, NEW w
  PROVE  /\ IsFiniteSet(components_on(answers, w))
         /\ \A s \in components_on(answers, w) :
              /\ s[1] \in 1 .. Len(answers) /\ answers[s[1]] \in WellCut
              /\ s[2] \in components(answers[s[1]]) /\ answers[s[1]].worker_of[s[2]] = w
<1> PICK n \in Nat : n = Len(answers)
  BY DEF AnswersInv
<1> PICK C : C = components_on(answers, w)
  OBVIOUS
<1>1. ASSUME NEW s \in C
      PROVE  /\ s \in (1 .. n) \X (1 .. MaxComponents)
             /\ s[1] \in 1 .. n /\ answers[s[1]] \in WellCut
             /\ s[2] \in components(answers[s[1]]) /\ answers[s[1]].worker_of[s[2]] = w
  <2>1. PICK k \in DOMAIN answers : s \in {k} \X components(answers[k])
    BY DEF components_on
  <2>2. k \in 1 .. n /\ answers[k] \in WellCut
    BY DEF AnswersInv
  <2>3. components(answers[k]) \subseteq 1 .. MaxComponents
    BY <2>2, CutFacts
  <2>4. answers[s[1]].worker_of[s[2]] = w
    BY DEF components_on
  <2> QED BY <2>1, <2>2, <2>3, <2>4
<1>2. IsFiniteSet((1 .. n) \X (1 .. MaxComponents))
  <2>1. IsFiniteSet(1 .. n) /\ IsFiniteSet(1 .. MaxComponents)
    BY MaxComponentsAssumption, FS_Interval
  <2> QED BY <2>1, FS_Product
<1>3. C \subseteq (1 .. n) \X (1 .. MaxComponents)
  BY <1>1
<1>4. IsFiniteSet(C)
  BY <1>2, <1>3, FS_Subset
<1> QED BY <1>1, <1>4

\* What a hop takes, its component was taken to take.
LEMMA HopTakes ==
  ASSUME AnswersInv, NEW w, NEW s \in executable_slots(Solved, w),
         NEW a, a = answers[s[1]], NEW hop, hop = replica_id(Solved, s)
  PROVE  /\ WeightOf(hop) \in Nat /\ WeightOf(hop) <= component_weight(context, a, s[2])
         /\ HeldBy(hop) = context.models[a.variant].max_cut
<1> PICK id, v : id = hop.of /\ v = a.variant
  OBVIOUS
<1> PICK t, within : t = Models[v].topology /\ within = layers_of(a, s[2])
  OBVIOUS
<1>1. a \in WellCut /\ id.variant = v /\ id.layers = within \ boundary(t)
  BY ExecutedSlots
<1>2. v \in DOMAIN Files /\ within \subseteq t.layers
  <2>1. DOMAIN Models = DOMAIN Files
    BY DEF Models
  <2>2. v \in DOMAIN Models /\ DOMAIN a.component_of = t.layers
    BY <1>1, CutFacts
  <2> QED BY <2>1, <2>2 DEF layers_of
<1>3. t = build_model_topology(Files[v])
  BY <1>2, FilesAreModels
<1>4. context.models = Models
  BY ContextFacts
<1> PICK h : h = [x \in WeightsOf(id) |-> Bytes(v, x)]
  OBVIOUS
<1>5. Counts(h, WeightsOf(id)) /\ SumOver(h, WeightsOf(id)) <= SumOver(Models[v].weight, within)
  BY <1>1, <1>2, <1>3, PartitionWeighs
<1>6. WeightOf(hop) = SumOver(h, WeightsOf(id))
  BY <1>1, <1>5, BytesAreSummed
<1>7. component_weight(context, a, s[2]) = SumOver(Models[v].weight, within)
  BY <1>4, ComponentWeightIs
<1>8. HeldBy(hop) = Models[v].max_cut
  <2>1. Models[v].max_cut = max_cut_size(t, BytesOf(v))
    BY <1>2, <1>3, ModelSizes
  <2>2. BytesOf(v) = [x \in profiled_tensors(t) |-> Bytes(v, x)]
    BY <1>3 DEF BytesOf
  <2> QED BY <1>1, <2>1, <2>2, Zenon DEF HeldBy
<1> QED BY <1>4, <1>5, <1>6, <1>7, <1>8, SumIsNatural

LEMMA ComponentsCount ==
  ASSUME AnswersInv, NEW w, NEW C, C = components_on(answers, w)
  PROVE  /\ Counts([s \in C |-> component_weight(context, answers[s[1]], s[2])], C)
         /\ Counts([s \in C |-> context.models[answers[s[1]].variant].max_cut], C)
<1> SUFFICES ASSUME NEW s \in C
             PROVE  /\ component_weight(context, answers[s[1]], s[2]) \in Nat
                    /\ context.models[answers[s[1]].variant].max_cut \in Nat
  BY ComponentsOn DEF Counts
<1> PICK a : a = answers[s[1]]
  OBVIOUS
<1> PICK v : v = a.variant
  OBVIOUS
<1> PICK t, within : t = Models[v].topology /\ within = layers_of(a, s[2])
  OBVIOUS
<1>1. a \in WellCut
  BY ComponentsOn
<1>2. v \in DOMAIN Files /\ within \subseteq t.layers
  <2>1. DOMAIN Models = DOMAIN Files
    BY DEF Models
  <2>2. v \in DOMAIN Models /\ DOMAIN a.component_of = t.layers
    BY <1>1, CutFacts
  <2> QED BY <2>1, <2>2 DEF layers_of
<1>3. t = build_model_topology(Files[v]) /\ context.models = Models
  BY <1>2, FilesAreModels, ContextFacts
<1> PICK id : id = [variant |-> v, layers |-> within \ boundary(t)]
  OBVIOUS
<1>4. Counts(Models[v].weight, within)
  <2>1. id.variant = v /\ id.layers = within \ boundary(t)
    OBVIOUS
  <2> QED BY <1>2, <1>3, <2>1, PartitionWeighs
<1>5. component_weight(context, a, s[2]) = SumOver(Models[v].weight, within)
  BY <1>3, ComponentWeightIs
<1>6. Models[v].max_cut \in Nat
  BY <1>2, ModelSizes, MaxCutIs
<1> QED BY <1>3, <1>4, <1>5, <1>6, SumIsNatural

\* What is put into places that it fits fits where the places do.
IsRoom(k, m, C, most) ==
  Counts(k, C) /\ Counts(m, C) /\ most = {0} \cup {m[s] : s \in C}

Holdings(D) == {0} \cup {HeldBy(hop) : hop \in D}

HaveComponents(h, D, k, m, C) ==
  /\ Counts(h, D) /\ \E into : AtMostInto(h, D, k, C, into)
  /\ \A hop \in D : \E s \in C : HeldBy(hop) = m[s]

LEMMA FitsInto ==
  ASSUME NEW C, NEW k, NEW m, NEW most, IsRoom(k, m, C, most),
         NEW D, NEW h, HaveComponents(h, D, k, m, C),
         NEW z \in Nat, SumOver(k, C) + Max(most) <= z
  PROVE  SumOver(h, D) + Max(Holdings(D)) <= z
<1> PICK held : held = Holdings(D)
  OBVIOUS
<1>a. Counts(h, D) /\ \A hop \in D : \E s \in C : HeldBy(hop) = m[s]
  BY DEF HaveComponents
<1>b. PICK into : AtMostInto(h, D, k, C, into)
  BY DEF HaveComponents
<1>0. Counts(k, C) /\ Counts(m, C) /\ most = {0} \cup {m[s] : s \in C}
  BY DEF IsRoom
<1>1. SumOver(h, D) <= SumOver(k, C) /\ SumOver(h, D) \in Nat /\ SumOver(k, C) \in Nat
  BY <1>0, <1>a, <1>b, SumAtMost, SumIsNatural
<1>2. most \subseteq Nat /\ SumOver(m, C) \in Nat
  BY <1>0, SumIsNatural DEF Counts
<1>3. ASSUME NEW x \in most PROVE x <= SumOver(m, C)
  <2>1. CASE x = 0
    BY <1>2, <2>1
  <2>2. CASE \E s \in C : x = m[s]
    BY <1>0, <2>2, CountIsAtMostSum
  <2> QED BY <1>0, <2>1, <2>2
<1>4. held \subseteq most /\ held # {}
  BY <1>0, <1>a DEF Holdings
<1>5. /\ Max(held) \in held /\ Max(most) \in most /\ \A x \in most : x <= Max(most)
  <2>1. \A x \in most : x <= SumOver(m, C)
    BY <1>3
  <2>2. held \subseteq Nat /\ \A x \in held : x <= SumOver(m, C)
    BY <1>2, <1>4, <2>1
  <2>3. held # {} /\ most # {}
    BY <1>0, <1>4
  <2> QED BY <1>2, <2>1, <2>2, <2>3, MaxIsGreatest
<1>6. Max(held) \in Nat /\ Max(most) \in Nat /\ Max(held) <= Max(most)
  BY <1>2, <1>4, <1>5
<1> QED BY <1>1, <1>6

\* Each hop has a component of its own.
LEMMA HopsHaveComponents ==
  ASSUME AnswersInv, NEW w, NEW C, C = components_on(answers, w),
         NEW k, k = [s \in C |-> component_weight(context, answers[s[1]], s[2])],
         NEW m, m = [s \in C |-> context.models[answers[s[1]].variant].max_cut],
         NEW D, D = {replica_id(Solved, s) : s \in executable_slots(Solved, w)},
         NEW h, h = [hop \in D |-> WeightOf(hop)]
  PROVE  HaveComponents(h, D, k, m, C)
<1> PICK E : E = executable_slots(Solved, w)
  OBVIOUS
<1> PICK hops : hops = [s \in E |-> replica_id(Solved, s)]
  OBVIOUS
<1>1. D = {hops[s] : s \in E} /\ hops \in Surjection(E, D)
  BY DEF Surjection
<1>2. E \subseteq C
  BY ExecutedSlots
<1>3. ASSUME NEW s \in E
      PROVE  h[hops[s]] \in Nat /\ h[hops[s]] <= k[s] /\ HeldBy(hops[s]) = m[s]
  <2> PICK hop, a : hop = replica_id(Solved, s) /\ a = answers[s[1]]
    OBVIOUS
  <2>1. /\ WeightOf(hop) \in Nat /\ WeightOf(hop) <= component_weight(context, a, s[2])
        /\ HeldBy(hop) = context.models[a.variant].max_cut
    BY HopTakes
  <2>2. hops[s] = hop /\ hop \in D
    BY <1>1
  <2> QED BY <1>2, <2>1, <2>2
<1>4. IsFiniteSet(D)
  <2>1. IsFiniteSet(E)
    <3>1. IsFiniteSet(C)
      BY ComponentsOn
    <3> QED BY <1>2, <3>1, FS_Subset
  <2> QED BY <1>1, <2>1, FS_Surjection
<1> PICK into : into = [hop \in D |-> CHOOSE s \in E : hops[s] = hop]
  OBVIOUS
<1>5. ASSUME NEW hop \in D PROVE into[hop] \in E /\ hops[into[hop]] = hop
  BY <1>1
<1>6. AtMostInto(h, D, k, C, into)
  <2>1. into \in [D -> C]
    BY <1>2, <1>5
  <2>2. ASSUME NEW x \in D, NEW y \in D, into[x] = into[y] PROVE x = y
    BY <1>5, <2>2
  <2>3. ASSUME NEW x \in D PROVE h[x] <= k[into[x]]
    <3>1. into[x] \in E /\ hops[into[x]] = x
      BY <1>5
    <3> QED BY <1>3, <3>1
  <2> QED BY <2>1, <2>2, <2>3 DEF AtMostInto
<1>7. ASSUME NEW hop \in D PROVE \E s \in C : HeldBy(hop) = m[s]
  <2> PICK x : x = into[hop]
    OBVIOUS
  <2>1. x \in E /\ hops[x] = hop
    BY <1>5
  <2>2. HeldBy(hop) = m[x] /\ x \in C
    BY <1>2, <1>3, <2>1
  <2> QED BY <2>2
<1>8. ASSUME NEW hop \in D PROVE h[hop] \in Nat
  BY <1>3, <1>5
<1> QED BY <1>4, <1>6, <1>7, <1>8 DEF Counts, HaveComponents

\* The hops of a worker take no more than all that the optimizer has placed there.
LEMMA HopsTake ==
  ASSUME AnswersInv, NEW w \in Workers, memory_capacity(context, answers, w),
         NEW D, D = {replica_id(Solved, s) : s \in executable_slots(Solved, w)}
  PROVE  MapThenSumSet(WeightOf, D) + Max(Holdings(D)) <= context.memory[w]
<1>a. PICK C : C = components_on(answers, w)
  OBVIOUS
<1>b. PICK k, m : /\ k = [s \in C |-> component_weight(context, answers[s[1]], s[2])]
                  /\ m = [s \in C |-> context.models[answers[s[1]].variant].max_cut]
  OBVIOUS
<1>c. PICK h : h = [hop \in D |-> WeightOf(hop)]
  OBVIOUS
<1>d. PICK most : most = {0} \cup {m[s] : s \in C}
  OBVIOUS
<1>1. Counts(k, C) /\ Counts(m, C)
  BY <1>a, <1>b, ComponentsCount
<1>2. HaveComponents(h, D, k, m, C)
  BY <1>a, <1>b, <1>c, HopsHaveComponents
<1>3. IsRoom(k, m, C, most)
  BY <1>1, <1>d DEF IsRoom
<1>4. PICK z \in Nat : z = context.memory[w]
  BY DEF AnswersInv, context, ContextOf, Context
<1>5. SumOver(k, C) + Max(most) <= z
  <2>1. MapThenSumSet(LAMBDA s : component_weight(context, answers[s[1]], s[2]), C) = SumOver(k, C)
    BY <1>1, <1>a, <1>b, ComponentsAreSummed
  <2>2. max_activation(context, answers, w) = Max(most)
    <3>1. most = {0} \cup {context.models[answers[s[1]].variant].max_cut : s \in C}
      BY <1>b, <1>d
    <3> QED BY <1>a, <3>1 DEF max_activation
  <2> QED BY <1>4, <1>a, <2>1, <2>2, Zenon DEF memory_capacity
<1>6. MapThenSumSet(WeightOf, D) = SumOver(h, D)
  <2>1. Counts(h, D)
    BY <1>2 DEF HaveComponents
  <2> QED BY <1>c, <2>1, HopsAreSummed
<1>7. SumOver(h, D) + Max(Holdings(D)) <= z
  BY <1>2, <1>3, <1>5, FitsInto
<1> QED BY <1>4, <1>6, <1>7

\* The memory the flows share is never overcommitted, at any number of flows.
FeasibleInv == answers # <<>> => feasible(context, answers)

LEMMA FeasibleInvariance == Spec => []FeasibleInv
<1>1. Init => FeasibleInv
  BY DEF Init, FeasibleInv
<1>2. FeasibleInv /\ [Next]_vars => FeasibleInv'
  <2> SUFFICES ASSUME FeasibleInv, [Next]_vars PROVE FeasibleInv'
    OBVIOUS
  <2>1. CASE AddFlow
    <3>1. feasible(context, answers') /\ network' = network
      BY <2>1 DEF AddFlow
    <3>2. context' = context
      BY <3>1 DEF context
    <3>3. \A c, as : c = context /\ c = context' /\ as = answers' /\ feasible(c, as) => FeasibleInv'
      BY DEF FeasibleInv
    <3> QED BY <3>1, <3>2, <3>3
  <2>2. CASE UNCHANGED <<network, answers>>
    <3>1. context' = context
      BY <2>2 DEF context
    <3>2. \A c, as :
            c = context /\ c = context' /\ as = answers /\ as = answers'
              /\ (as # <<>> => feasible(c, as)) => FeasibleInv'
      BY DEF FeasibleInv
    <3>3. answers # <<>> => feasible(context, answers)
      BY DEF FeasibleInv
    <3> QED BY <2>2, <3>1, <3>2, <3>3
  <2>3. Convert \/ UNCHANGED vars => UNCHANGED <<network, answers>>
    BY DEF Convert, vars
  <2> QED BY <2>1, <2>2, <2>3 DEF Next
<1> QED BY <1>1, <1>2, PTL DEF Spec

LEMMA DeploymentsOfInvFit ==
  ASSUME AnswersInv, PlansInv, FeasibleInv
  PROVE  DeploymentsFitTheWorkers
<1> SUFFICES ASSUME NEW w \in DOMAIN plans
             PROVE  LET D == {plans[w].executable_hops[s] : s \in DOMAIN plans[w].executable_hops}
                    IN  MapThenSumSet(WeightOf, D) + Max({0} \cup {HeldBy(hop) : hop \in D})
                          <= context.memory[w]
  BY Zenon DEF DeploymentsFitTheWorkers, WeightOf, HeldBy
<1> PICK sol : sol = Solved
  OBVIOUS
<1>1. plans = worker_plans(sol) /\ w \in involved_workers(sol)
  BY DEF PlansInv, worker_plans
<1>2. plans[w].executable_hops = [s \in executable_slots(sol, w) |-> replica_id(sol, s)]
  BY <1>1 DEF worker_plans, worker_plan
<1> PICK n \in Nat : n = Len(answers)
  BY DEF AnswersInv
<1>3. DOMAIN sol = 1 .. n /\ \A k \in 1 .. n : answers[k] \in WellCut /\ IsSolutionOf(sol[k], answers[k])
  BY SolvedOf, SolvedFlows
<1>4. answers # <<>> /\ w \in Workers
  <2>1. ASSUME NEW k \in 1 .. n, NEW i \in components(answers[k]), w = answers[k].worker_of[i]
        PROVE  w \in Workers
    BY <1>3, <2>1, CutFacts
  <2>2. PICK k \in 1 .. n :
          \/ w = sol[k].ingress \/ w = sol[k].sink
          \/ \E i \in DOMAIN sol[k].components : w = sol[k].components[i].worker
    <3>1. CASE \E k \in DOMAIN sol : w = sol[k].ingress \/ w = sol[k].sink
      BY <1>3, <3>1
    <3>2. CASE \E s \in ExecutableSlots(sol) : w = sol[s[1]].components[s[2]].worker
      BY <1>3, <3>2 DEF ExecutableSlots
    <3> QED BY <1>1, <3>1, <3>2 DEF involved_workers
  <2>3. answers # <<>>
    BY <2>2 DEF AnswersInv
  <2>4. \E i \in components(answers[k]) : w = answers[k].worker_of[i]
    <3> PICK a, fs : a = answers[k] /\ fs = sol[k]
      OBVIOUS
    <3> PICK last : last = component_last(a)
      OBVIOUS
    <3>1. a \in WellCut /\ IsSolutionOf(fs, a)
      BY <1>3
    <3>2. last \in Nat \ {0} /\ components(a) = 1 .. last
      BY <3>1, Shape
    <3>3. /\ DOMAIN fs.components = 1 .. last
          /\ fs.ingress = a.worker_of[1] /\ fs.sink = a.worker_of[last]
          /\ \A i \in 1 .. last : fs.components[i].worker = a.worker_of[i]
      BY <3>1 DEF IsSolutionOf
    <3>4. w = a.worker_of[1] \/ w = a.worker_of[last] \/ \E i \in 1 .. last : w = a.worker_of[i]
      BY <2>2, <3>3
    <3> QED BY <3>2, <3>4
  <2> QED BY <2>1, <2>3, <2>4
<1>5. memory_capacity(context, answers, w)
  <2>1. context.workers = Workers
    BY DEF AnswersInv, context, ContextOf, Context
  <2> QED BY <1>4, <2>1 DEF FeasibleInv, feasible
<1> PICK D : D = {plans[w].executable_hops[s] : s \in DOMAIN plans[w].executable_hops}
  OBVIOUS
<1>6. D = {replica_id(Solved, s) : s \in executable_slots(Solved, w)}
  BY <1>2
<1>7. MapThenSumSet(WeightOf, D) + Max(Holdings(D)) <= context.memory[w]
  BY <1>4, <1>5, <1>6, HopsTake
<1> QED BY <1>7, Zenon DEF Holdings

-----------------------------------------------------------------------------
(* What the optimizer takes from the profiles, as the problem of its       *)
(* times needs it.                                                         *)

LEMMA BackendTimes ==
  ASSUME NEW layers, NEW backend, NEW l \in DOMAIN BackendProfile(layers, backend).time
  PROVE  BackendProfile(layers, backend).time[l] \in Nat
<1>1. BackendProfile(layers, backend).time =
        [m \in layers |-> (IF backend = "cpu" THEN 2 ELSE 1) * (IF m = "c" THEN 2 ELSE 1)]
  BY DEF BackendProfile
<1>2. \A m : (IF backend = "cpu" THEN 2 ELSE 1) * (IF m = "c" THEN 2 ELSE 1) \in Nat
  OBVIOUS
<1> QED BY <1>1, <1>2

LEMMA MeasuredTimes ==
  ASSUME NEW v, NEW layers, NEW lacking, NEW b \in Range(ProfiledBackends(v, layers, lacking)),
         NEW l \in DOMAIN b.time
  PROVE  b.time[l] \in Nat
<1>1. \E some : \E backend : b = BackendProfile(some, backend)
  <2>1. CASE lacking
    BY <2>1 DEF ProfiledBackends, Range
  <2>2. CASE ~ lacking
    BY <2>2 DEF ProfiledBackends, Range
  <2> QED BY <2>1, <2>2
<1> QED BY <1>1, BackendTimes

LEMMA ProfiledTimes ==
  ASSUME NEW w, NEW v, NEW dto, NEW profile, NEW lacking, NEW backend, NEW times,
         times = layer_execution_times(profile, ExecutionProfile(w, v, dto, lacking), backend),
         NEW l \in DOMAIN times
  PROVE  times[l] \in Nat
<1> PICK sent : sent = ExecutionProfile(w, v, dto, lacking)
  OBVIOUS
<1> PICK all : all = of_backend(profile, sent, backend)
  OBVIOUS
<1> PICK shapes : shapes = model_static_profile_from_dto(dto).input_shape_configurations
  OBVIOUS
<1> PICK backends : backends = ProfiledBackends(v, Executed(topology_of(dto)), lacking)
  OBVIOUS
<1>1. sent.shape_execution_profiles =
        [i \in DOMAIN shapes |-> [input_shapes |-> shapes[i], backend_profiles |-> backends]]
  BY DEF ExecutionProfile, model_execution_profile_to_dto
<1>2. ASSUME NEW b \in all PROVE b \in Range(backends)
  <2>1. PICK s \in under_shapes(profile, sent) : b \in Range(s.backend_profiles)
    BY DEF of_backend
  <2>2. PICK i \in DOMAIN shapes :
          s = [input_shapes |-> shapes[i], backend_profiles |-> backends]
    BY <1>1, <2>1 DEF under_shapes, Range
  <2> QED BY <2>1, <2>2
<1> PICK ends : ends = profile.topology.inputs \cup profile.topology.outputs
  OBVIOUS
<1> PICK time : time = IF all = {} THEN <<>> ELSE (CHOOSE b \in all : TRUE).time
  OBVIOUS
<1>3. times = [m \in DOMAIN time \cup ends |-> IF m \in ends THEN 0 ELSE time[m]]
  BY Zenon DEF layer_execution_times
<1>4. ASSUME NEW m \in DOMAIN time PROVE time[m] \in Nat
  <2>1. CASE all = {}
    BY <2>1
  <2>2. CASE all # {}
    <3>1. PICK b \in all : time = b.time
      BY <2>2
    <3>2. b \in Range(ProfiledBackends(v, Executed(topology_of(dto)), lacking))
      BY <1>2
    <3> QED BY <3>1, <3>2, MeasuredTimes
  <2> QED BY <2>1, <2>2
<1> QED BY <1>3, <1>4

LEMMA ContextLinks ==
  ASSUME AnswersInv
  PROVE  AreLinks(context) /\ context.workers = Workers
<1>1. /\ context.workers = Workers
      /\ context.connections = network.connections
      /\ context.bandwidth = [p \in Everywhere |-> IF p[1] \in network.hubs THEN 2 ELSE 4]
      /\ context.round_trip_time = [p \in Everywhere |-> 1]
  BY DEF AnswersInv, context, ContextOf, Context
<1>2. network.connections \subseteq Everywhere
  BY DEF AnswersInv, Networks, ByHub
<1>3. \A c \in context.connections :
        /\ context.bandwidth[c] \in {2, 4} /\ context.bandwidth[c] \in Positive
        /\ context.round_trip_time[c] \in Nat
  BY <1>1, <1>2 DEF Positive
<1>4. IsFiniteSet({context.bandwidth[c] : c \in context.connections})
  <2>1. {context.bandwidth[c] : c \in context.connections} \subseteq {2} \cup {4}
    BY <1>3
  <2>2. IsFiniteSet({2} \cup {4})
    BY FS_Singleton, FS_Union
  <2> QED BY <2>1, <2>2, FS_Subset
<1> QED BY <1>1, <1>3, <1>4 DEF AreLinks

\* What is profiled is measured, and takes some time.
LEMMA ContextTimes ==
  ASSUME AnswersInv, NEW v \in DOMAIN Files, NEW w \in Workers,
         NEW l \in layer_execution_profiles(context, v, w)
  PROVE  layer_time(context, v, w, l) \in Nat
<1>1. CASE l \in boundary(context.models[v].topology)
  BY <1>1 DEF layer_time
<1>2. CASE l \notin boundary(context.models[v].topology)
  <2> PICK lacking : lacking = (w \in network.lacking)
    OBVIOUS
  <2>a. (w \in network.lacking) \in BOOLEAN
    OBVIOUS
  <2>0. lacking \in BOOLEAN
    BY <2>a
  <2> PICK measured : measured = TimesOf[w][lacking]
    OBVIOUS
  <2> PICK profiled : profiled = UNION {{u} \X DOMAIN measured[u] : u \in DOMAIN Files}
    OBVIOUS
  <2>1. /\ context.profiled[w] = profiled
        /\ context.time[w] = [p \in profiled |-> measured[p[1]][p[2]]]
    BY Zenon DEF AnswersInv, context, ContextOf, Context
  <2>2. <<v, l>> \in profiled
    BY <1>2, <2>1 DEF layer_execution_profiles
  <2>3. l \in DOMAIN measured[v]
    BY <2>2
  <2>4. layer_time(context, v, w, l) = measured[v][l]
    BY <1>2, <2>1, <2>2 DEF layer_time
  <2>5. measured[v] = layer_execution_times(StaticProfileOf[v],
          ExecutionProfile(w, v, StoredProfiles[v], lacking), BackendOf(lacking))
    BY <2>0, Zenon DEF TimesOf
  <2> QED BY <2>3, <2>4, <2>5, ProfiledTimes
<1> QED BY <1>1, <1>2

LEMMA BatchesArePositive ==
  ASSUME NEW v \in DOMAIN Files
  PROVE  Models[v].batch_size \in Positive
<1> PICK g, t, dto, profile : IsProfileOf(v, g, t, dto, profile)
  BY DEF IsProfileOf
<1>1. profile = StaticProfileOf[v]
  BY DEF IsProfileOf
<1> PICK shape : shape = Files[v].shape["x"]
  OBVIOUS
<1> PICK bound : bound = bind(shape, Two)
  OBVIOUS
<1>2. Range(fixed_shape_profile(profile).input_shapes) = {bound}
  <2>1. fixed_shape_profile(profile).input_shapes = [x \in {"x"} |-> bound]
    <3>1. fixed_shape_profile(profile).input_shapes = OnlyShapes(v)
      BY FixedShapeProfile
    <3> QED BY <3>1 DEF OnlyShapes
  <2> QED BY <2>1 DEF Range
<1>3. Models[v].batch_size = bound[1]
  <2>1. Models[v].batch_size = batch_size(profile)
    BY <1>1, ModelFields DEF TakesFields
  <2> QED BY <1>2, <2>1 DEF batch_size
<1>4. bound # <<>>
  <2>1. optimizable(profile)
    BY <1>1, ProfilesAreKept
  <2> QED BY <1>2, <2>1 DEF optimizable
<1>5. shape \in Seq(Dimensions) /\ positive(shape)
  <2>1. "x" \in DOMAIN Files[v].shape
    BY FilesAreDescribed DEF IsDescribed, graph_inputs
  <2>2. shape \in Seq(Dimensions)
    BY <2>1, FilesAreDescribed DEF IsDescribed
  <2>3. info_is_valid(Info(v, {2}))
    BY ProfilesAreKept
  <2>4. positive(shape)
    <3>1. Info(v, {2}).inputs_info = [x \in {"x"} |-> shape]
      BY DEF Info
    <3> QED BY <2>3, <3>1 DEF info_is_valid
  <2> QED BY <2>2, <2>4
<1>6. 1 \in DOMAIN shape
  <2>1. bound = [k \in DOMAIN shape |-> IF shape[k].symbolic THEN Two[shape[k].name] ELSE shape[k].value]
    BY DEF bind
  <2>2. shape # <<>>
    <3>1. SUFFICES ASSUME DOMAIN shape = {} PROVE FALSE
      OBVIOUS
    <3>2. bound = [k \in {} |-> 0]
      BY <2>1, <3>1
    <3> QED BY <1>4, <3>2
  <2> QED BY <1>5, <2>2
<1>7. bound[1] = IF shape[1].symbolic THEN Two[shape[1].name] ELSE shape[1].value
  BY <1>6 DEF bind
<1>8. shape[1] \in Dimensions
  BY <1>5, <1>6
<1>9. CASE shape[1].symbolic
  <2>1. shape[1].name = "batch"
    BY <1>8, <1>9 DEF Dimensions
  <2> QED BY <1>3, <1>7, <1>9, <2>1 DEF Two, Positive
<1>10. CASE ~ shape[1].symbolic
  <2>1. shape[1].value \in Nat
    BY <1>8, <1>10 DEF Dimensions
  <2>2. shape[1].value > 0
    BY <1>5, <1>6, <1>10 DEF positive
  <2> QED BY <1>3, <1>7, <1>10, <2>1, <2>2 DEF Positive
<1> QED BY <1>9, <1>10

LEMMA RequestsAreProfiled ==
  ASSUME AnswersInv, NEW request \in Requests
  PROVE  IsProfiled(context, request)
<1>1. request.arrival_rate \in Positive
  BY DEF Requests, Request, Positive
<1>2. eligible_models(context, request) \subseteq DOMAIN Files
  <2>1. DOMAIN context.models = DOMAIN Files
    BY ContextFacts DEF Models
  <2> QED BY <2>1 DEF eligible_models
<1>3. IsFiniteSet(DOMAIN Files)
  <2>1. DOMAIN Files = {"skipping"} \cup {"branching"}
    BY DEF Files
  <2>2. IsFiniteSet({"skipping"} \cup {"branching"})
    <3>1. IsFiniteSet({"skipping"}) /\ IsFiniteSet({"branching"})
      BY FS_Singleton
    <3> QED BY <3>1, FS_Union
  <2> QED BY <2>1, <2>2
<1>4. IsFiniteSet(eligible_models(context, request))
  BY <1>2, <1>3, FS_Subset
<1>5. ASSUME NEW v \in eligible_models(context, request)
      PROVE  /\ context.models[v].batch_size \in Positive /\ context.models[v].max_cut \in Nat
             /\ IsFiniteSet(context.models[v].topology.layers)
             /\ \A w \in context.workers : \A l \in layer_execution_profiles(context, v, w) :
                  layer_time(context, v, w, l) \in Nat
  <2>1. v \in DOMAIN Files /\ v \in DOMAIN Models /\ context.models = Models
    BY <1>2, ContextFacts DEF Models
  <2>2. Models[v].batch_size \in Positive
    BY <2>1, BatchesArePositive
  <2>3. Models[v].max_cut \in Nat
    <3>1. max_cut_size(build_model_topology(Files[v]), BytesOf(v)) \in Nat
      BY <2>1, ModelSizes, MaxCutIs
    <3> QED BY <2>1, <3>1, ModelSizes
  <2>4. IsFiniteSet(Models[v].topology.layers)
    BY <2>1, ModelFacts DEF IsDataFlow
  <2>5. \A w \in context.workers : \A l \in layer_execution_profiles(context, v, w) :
          layer_time(context, v, w, l) \in Nat
    BY <2>1, ContextLinks, ContextTimes
  <2> QED BY <2>1, <2>2, <2>3, <2>4, <2>5
<1> QED BY <1>1, <1>4, <1>5 DEF IsProfiled

\* What two components exchange crosses the cut between their layers, so that it is
\* no more than the largest one.
LEMMA CutsAreBounded ==
  ASSUME AnswersInv, NEW a \in WellCut, NEW k \in components(a)
  PROVE  /\ transmitted_data_size(context, a, k) \in Nat
         /\ transmitted_data_size(context, a, k) <= context.models[a.variant].max_cut
<1> PICK v : v = a.variant
  OBVIOUS
<1> PICK t, c : t = Models[v].topology /\ c = a.component_of
  OBVIOUS
<1> PICK size : size = Models[v].size
  OBVIOUS
<1> PICK X : X = cut_tensors(Models[v].tensor_routes, a, k)
  OBVIOUS
<1> PICK y : y = {l \in t.layers : c[l] <= k}
  OBVIOUS
<1>1. v \in DOMAIN Models /\ v \in DOMAIN Files /\ t = build_model_topology(Files[v])
  BY CutFacts, FilesAreModels DEF Models
<1>2. /\ size = BytesOf(v) /\ Models[v].max_cut = max_cut_size(t, size)
      /\ Counts(size, DOMAIN size)
  BY <1>1, ModelSizes
<1>3. DOMAIN size = profiled_tensors(t)
  BY <1>1, <1>2 DEF BytesOf
<1>4. transmitted_data_size(context, a, k) = SumOver(size, X)
  <2>1. context.models[a.variant] = Models[v]
    BY ContextFacts
  <2>2. transmitted_data_size(context, a, k) =
          SumOver(context.models[a.variant].size,
                  cut_tensors(context.models[a.variant].tensor_routes, a, k))
    BY Zenon DEF transmitted_data_size, MapThenSumSet, MapThenFoldSet, SumOver, IsSumming, Summed
  <2> QED BY <2>1, <2>2
<1>5. k \in Nat /\ IsDataFlow(t)
  <2>1. k \in 1 .. MaxComponents
    BY CutFacts
  <2>2. k \in Nat
    BY <2>1, MaxComponentsAssumption
  <2> QED BY <1>1, <2>2, ModelFacts
<1>6. \A e \in t.edges : c[e.source] <= c[e.target]
  BY CutFacts DEF well_cut, layer_assignments_respect_precedence
<1>7. \A l \in t.layers : c[l] \in Nat
  BY CutFacts, MaxComponentsAssumption
<1>8. y \in cuts_of(t)
  <2>1. ASSUME NEW e \in t.edges, e.target \in y PROVE e.source \in y
    <3>1. e.source \in t.layers /\ e.target \in t.layers /\ c[e.target] <= k
      BY <1>5, <2>1 DEF IsDataFlow
    <3>2. c[e.source] \in Nat /\ c[e.target] \in Nat /\ c[e.source] <= c[e.target]
      BY <1>6, <1>7, <3>1
    <3>3. c[e.source] <= k
      BY <1>5, <3>1, <3>2
    <3> QED BY <3>1, <3>3
  <2> QED BY <2>1 DEF cuts_of
<1>9. X \subseteq Crossing(t, size, y)
  <2> SUFFICES ASSUME NEW x \in X PROVE x \in DOMAIN size /\ crosses(t, y, x)
    BY DEF Crossing
  <2>1. PICK e \in t.edges : x \in e.tensors /\ c[e.source] <= k /\ k < c[e.target]
    BY <1>5, CrossesCut
  <2>2. /\ e.source \in t.layers /\ e.target \in t.layers
        /\ \A d \in t.edges : x \in d.tensors => d.source = e.source
    BY <1>5, <2>1 DEF IsDataFlow
  <2>3. x \in profiled_tensors(t)
    <3>1. e \in get_layer_out_edges(t, e.source)
      BY DEF get_layer_out_edges
    <3>2. e \in UNION {get_layer_out_edges(t, l) : l \in t.layers}
      BY <2>2, <3>1
    <3> QED BY <2>1, <3>2 DEF profiled_tensors, TensorsOf
  <2>4. find_tensor_producers(t, x) \subseteq y
    BY <2>1, <2>2 DEF find_tensor_producers
  <2>5. e.target \in find_tensor_consumer_set(t, x) /\ e.target \notin y
    <3>1. c[e.target] \in Nat
      BY <1>7, <2>2
    <3>2. ~ c[e.target] <= k
      BY <1>5, <2>1, <3>1
    <3> QED BY <2>1, <3>2 DEF find_tensor_consumer_set
  <2> QED BY <1>3, <2>3, <2>4, <2>5 DEF crosses
<1> PICK C : C = Crossing(t, size, y)
  OBVIOUS
<1>10. Counts(size, C) /\ Counts(size, X)
  <2>1. C \in SUBSET DOMAIN size /\ X \in SUBSET DOMAIN size
    BY <1>9 DEF Crossing
  <2> QED BY <1>2, <2>1, CountsOfPart
<1>11. SumOver(size, X) <= SumOver(size, C)
  BY <1>9, <1>10, SumOfPart
<1>12. SumOver(size, C) <= max_cut_size(t, size) /\ max_cut_size(t, size) \in Nat
  BY <1>2, <1>8, MaxCutIs
<1>13. SumOver(size, X) \in Nat /\ SumOver(size, C) \in Nat
  BY <1>10, SumIsNatural
<1>14. context.models[a.variant].max_cut = max_cut_size(t, size)
  BY <1>2, ContextFacts
<1> QED BY <1>4, <1>11, <1>12, <1>13, <1>14

LEMMA AnswersAreServed ==
  ASSUME AnswersInv, NEW f \in 1 .. Len(answers)
  PROVE  IsServed(context, requests[f], answers[f])
<1> PICK a, t : a = answers[f] /\ t = Models[a.variant].topology
  OBVIOUS
<1>1. a \in WellCut /\ placeable(context, requests[f], a)
  BY DEF AnswersInv
<1>2. components(a) # {}
  <2>1. IsDataFlow(t) /\ DOMAIN a.component_of = t.layers
    BY <1>1, CutFacts, ModelFacts
  <2>2. PICK l \in t.layers : TRUE
    BY <2>1 DEF IsDataFlow
  <2>3. a.component_of[l] \in components(a)
    BY <1>1, <2>1, CutFacts
  <2> QED BY <2>3
<1>3. component_last(a) \in Positive /\ components(a) = 1 .. component_last(a)
  BY <1>1, <1>2, LastOfCut DEF Positive
<1>4. successive_components_use_different_workers(a)
  BY <1>1, CutFacts DEF well_cut
<1>5. \A k \in components(a) : a.worker_of[k] \in context.workers
  BY <1>1, CutFacts, ContextLinks
<1>6. \A k \in CutsOf(a) :
        /\ transmitted_data_size(context, a, k) \in Nat
        /\ transmitted_data_size(context, a, k) <= context.models[a.variant].max_cut
  <2>1. CutsOf(a) \subseteq components(a)
    BY DEF CutsOf
  <2> QED BY <1>1, <2>1, CutsAreBounded
<1> QED BY <1>1, <1>3, <1>4, <1>5, <1>6 DEF IsServed

-----------------------------------------------------------------------------
(* The times kept of each flow are those of its request and answer.        *)

TimingsIn(n) == UNION {{timing(ContextOf[n], r, a) : a \in WellCut} : r \in Requests}

TimesInv ==
  /\ timings \in Seq(TimingsIn(network)) /\ Len(timings) = Len(answers)
  /\ \A k \in 1 .. Len(answers) : timings[k] = timing(context, requests[k], answers[k])
  /\ answers # <<>> => Len(answers) <= MaxFlows /\ stable(context, answers, timings)

\* Requests that arrive alike have the same times.
LEMMA TimingOfRate ==
  ASSUME NEW ctx, NEW q, NEW r, q.arrival_rate = r.arrival_rate, NEW a
  PROVE  timing(ctx, q, a) = timing(ctx, r, a)
<1>1. \A v : /\ service_arrival_rate(ctx, q, v) = service_arrival_rate(ctx, r, v)
             /\ batch_fill_time(ctx, q, v) = batch_fill_time(ctx, r, v)
  BY DEF service_arrival_rate, batch_fill_time
<1> QED BY <1>1, Zenon DEF timing

LEMMA TimingOfFlow ==
  ASSUME network \in Networks, NEW r \in Requests, NEW a \in Admissible[network][r]
  PROVE  a \in WellCut /\ Timing[network][r.arrival_rate][a] = timing(context, r, a)
<1> PICK rate : rate = r.arrival_rate
  OBVIOUS
<1> PICK some : some = CHOOSE q \in AtRate(rate) : TRUE
  OBVIOUS
<1>1. r \in AtRate(rate) /\ some \in AtRate(rate)
  BY DEF AtRate
<1>2. some.arrival_rate = r.arrival_rate
  BY <1>1 DEF AtRate
<1>3. a \in UNION {Admissible[network][q] : q \in AtRate(rate)}
  BY <1>1
<1>4. rate \in {q.arrival_rate : q \in Requests}
  OBVIOUS
<1>5. Timing[network][rate][a] = timing(ContextOf[network], some, a)
  BY <1>3, <1>4, Zenon DEF Timing
<1>6. timing(ContextOf[network], some, a) = timing(ContextOf[network], r, a)
  BY <1>2, TimingOfRate
<1>7. a \in WellCut
  BY DEF Admissible
<1> QED BY <1>5, <1>6, <1>7 DEF context

LEMMA TimesStep ==
  ASSUME AnswersInv, TimesInv, AddFlow
  PROVE  TimesInv'
<1>1. PICK r \in Requests : \E a \in Admissible[network][r] :
        /\ requests' = Append(requests, r)
        /\ answers' = Append(answers, a)
        /\ timings' = Append(timings, Timing[network][r.arrival_rate][a])
        /\ stable(context, answers', timings')
  BY DEF AddFlow
<1>2. PICK a \in Admissible[network][r] :
        /\ requests' = Append(requests, r)
        /\ answers' = Append(answers, a)
        /\ timings' = Append(timings, Timing[network][r.arrival_rate][a])
        /\ stable(context, answers', timings')
  BY <1>1
<1> PICK time : time = timing(context, r, a)
  OBVIOUS
<1>3. a \in WellCut /\ timings' = Append(timings, time)
  BY <1>2, TimingOfFlow DEF AnswersInv
<1>4. network' = network
  BY DEF AddFlow
<1>5. context' = context
  BY <1>4 DEF context
<1> PICK n \in Nat : n = Len(answers)
  BY DEF AnswersInv
<1> PICK T : T = TimingsIn(network)
  OBVIOUS
<1>6. /\ requests \in Seq(Requests) /\ answers \in Seq(WellCut) /\ timings \in Seq(T)
      /\ Len(requests) = n /\ Len(timings) = n
  BY DEF AnswersInv, TimesInv
<1>7. time \in T
  BY <1>3 DEF TimingsIn, context
<1>8. timings' \in Seq(T) /\ Len(timings') = n + 1 /\ Len(answers') = n + 1
  BY <1>2, <1>3, <1>6, <1>7
<1>9. /\ \A k \in 1 .. n : /\ requests'[k] = requests[k] /\ answers'[k] = answers[k]
                           /\ timings'[k] = timings[k]
      /\ requests'[n + 1] = r /\ answers'[n + 1] = a /\ timings'[n + 1] = time
  BY <1>2, <1>3, <1>6, <1>7
<1>10. ASSUME NEW k \in 1 .. n + 1
       PROVE  timings'[k] = timing(context, requests'[k], answers'[k])
  <2>1. CASE k \in 1 .. n
    BY <1>9, <2>1 DEF TimesInv
  <2>2. CASE k = n + 1
    BY <1>9, <2>2
  <2> QED BY <2>1, <2>2
<1>11. n + 1 <= MaxFlows
  <2>1. n < MaxFlows
    BY DEF AddFlow
  <2> QED BY <2>1, MaxFlowsAssumption
<1>12. timings' \in Seq(TimingsIn(network'))
  BY <1>4, <1>8
<1>13. \A k \in 1 .. Len(answers') : timings'[k] = timing(context, requests'[k], answers'[k])
  BY <1>8, <1>10
<1>14. \A k \in 1 .. Len(answers') : timings'[k] = timing(context', requests'[k], answers'[k])
  BY <1>5, <1>13
<1>15. stable(context', answers', timings')
  BY <1>2, <1>5
<1>16. Len(timings') = Len(answers') /\ Len(answers') <= MaxFlows
  BY <1>8, <1>11
<1> QED BY <1>12, <1>14, <1>15, <1>16 DEF TimesInv

LEMMA TimesInvariance == Spec => []TimesInv
<1>1. Init => TimesInv
  <2> SUFFICES ASSUME Init PROVE TimesInv
    OBVIOUS
  <2>1. timings = <<>> /\ answers = <<>>
    BY DEF Init
  <2>2. timings \in Seq(TimingsIn(network)) /\ Len(timings) = 0 /\ Len(answers) = 0
    BY <2>1
  <2> QED BY <2>1, <2>2 DEF TimesInv
<1>2. Inv /\ TimesInv /\ [Next]_vars => TimesInv'
  <2> SUFFICES ASSUME Inv, TimesInv, [Next]_vars PROVE TimesInv'
    OBVIOUS
  <2>1. CASE AddFlow
    BY <2>1, TimesStep DEF Inv
  <2>2. CASE UNCHANGED <<network, requests, answers, timings>>
    <3>1. context' = context
      BY <2>2 DEF context
    <3>2. \A c, as, ts, rs, n :
            /\ c = context /\ c = context' /\ as = answers /\ as = answers'
            /\ ts = timings /\ ts = timings' /\ rs = requests /\ rs = requests'
            /\ n = network /\ n = network'
            /\ TimesInv
            => TimesInv'
      BY DEF TimesInv
    <3> QED BY <2>2, <3>1, <3>2
  <2>3. Convert \/ UNCHANGED vars => UNCHANGED <<network, requests, answers, timings>>
    BY DEF Convert, vars
  <2> QED BY <2>1, <2>2, <2>3 DEF Next
<1>3. Spec => []Inv
  BY Invariance
<1> QED BY <1>1, <1>2, <1>3, PTL DEF Spec

-----------------------------------------------------------------------------
(* So is the state the problem that OperatorProofs are about.              *)

LEMMA AnswersAreProblem ==
  ASSUME AnswersInv, TimesInv, answers # <<>>
  PROVE  /\ IsProblem(context, requests, answers, timings) /\ stable(context, answers, timings)
         /\ DOMAIN requests # {} /\ DOMAIN answers = 1 .. Len(answers)
         /\ Len(answers) \in DOMAIN answers
         /\ context.workers = Workers
         /\ \A w \in Workers :
              MaxQueueWait[network][requests][w] = max_queue_wait(context, requests, w)
<1> PICK n \in Nat : n = Len(answers)
  BY DEF AnswersInv
<1>1. /\ DOMAIN answers = 1 .. n /\ DOMAIN requests = 1 .. n
      /\ requests \in [1 .. n -> Requests]
  BY DEF AnswersInv
<1>2. n \in 1 .. n /\ n \in 1 .. MaxFlows
  <2>1. n # 0
    BY DEF AnswersInv
  <2>2. n <= MaxFlows
    BY DEF TimesInv
  <2> QED BY <2>1, <2>2, MaxFlowsAssumption
<1>3. IsFiniteSet(1 .. n)
  BY FS_Interval
<1>4. AreLinks(context) /\ context.workers = Workers
  BY ContextLinks
<1>5. ASSUME NEW f \in 1 .. n
      PROVE  /\ IsProfiled(context, requests[f]) /\ IsServed(context, requests[f], answers[f])
             /\ timings[f] = timing(context, requests[f], answers[f])
  <2>1. requests[f] \in Requests
    BY <1>1
  <2>2. IsProfiled(context, requests[f])
    BY <2>1, RequestsAreProfiled
  <2>3. IsServed(context, requests[f], answers[f])
    BY AnswersAreServed
  <2> QED BY <2>2, <2>3 DEF TimesInv
<1>6. IsProblem(context, requests, answers, timings)
  BY <1>1, <1>3, <1>4, <1>5 DEF IsProblem
<1>7. stable(context, answers, timings)
  BY DEF TimesInv
<1>8. ASSUME NEW w \in Workers
      PROVE  MaxQueueWait[network][requests][w] = max_queue_wait(context, requests, w)
  <2>1. requests \in UNION {[1 .. f -> Requests] : f \in 1 .. MaxFlows}
    BY <1>1, <1>2
  <2>2. network \in Networks
    BY DEF AnswersInv
  <2> QED BY <2>1, <2>2, Zenon DEF MaxQueueWait, context
<1> QED BY <1>1, <1>2, <1>4, <1>6, <1>7, <1>8

\* Priorities rank the components on a worker, those of a ranking and those by flow.
LEMMA RankingsRank ==
  ASSUME NEW w, NEW r \in rankings(components_on(answers, w))
  PROVE  Ranks(r, answers, w)
<1>1. r \in [components_on(answers, w) -> 1 .. PriorityCount]
  BY DEF rankings
<1> QED BY <1>1, ProblemConfigAssumption DEF Ranks

LEMMA FlowsRank ==
  ASSUME NEW w, NEW first
  PROVE  Ranks(ByFlow(first), answers, w)
<1> SUFFICES ASSUME NEW s \in components_on(answers, w)
             PROVE  ByFlow(first)[s] \in Nat \ {0}
  BY DEF Ranks
<1>1. s \in UNION {{f} \X components(answers[f]) : f \in DOMAIN answers}
  BY DEF components_on
<1>2. ByFlow(first)[s] \in {1, 2}
  BY <1>1 DEF ByFlow
<1> QED BY <1>2

LEMMA ExactIs ==
  /\ \A r, w, p : ExactWait(r, w, p) = exact_wait(answers, timings, r, w, p)
  /\ \A s : ExactTransmission(s) = exact_transmission(answers, timings, s)
  /\ \A r, f : ExactResponse(r, f) = exact_response(answers, timings, r, f)
<1>1. \A r, w, p : ExactWait(r, w, p) = exact_wait(answers, timings, r, w, p)
  BY DEF ExactWait, exact_wait
<1>2. \A s : ExactTransmission(s) = exact_transmission(answers, timings, s)
  BY DEF ExactTransmission, exact_transmission
<1>3. ASSUME NEW r, NEW f PROVE ExactResponse(r, f) = exact_response(answers, timings, r, f)
  BY <1>1, <1>2, Zenon DEF ExactResponse, exact_response
<1> QED BY <1>1, <1>2, <1>3

LEMMA CloseIs ==
  ASSUME NEW exact, NEW promised, IsClose(exact, promised)
  PROVE  Close(exact, promised)
BY DEF IsClose, Close

LEMMA ResponsesOfInvAreClose ==
  ASSUME AnswersInv, TimesInv
  PROVE  ResponsesAreNotUnderestimated
<1> SUFFICES ASSUME answers # <<>>
             PROVE  /\ \A w \in Workers : \A r \in rankings(components_on(answers, w)) :
                         \A p \in 1 .. PriorityCount :
                           Close(ExactWait(r, w, p), queue_wait(answers, timings, r, w, p))
                    /\ \A f \in DOMAIN answers : \A first \in {0} \cup DOMAIN answers :
                         Close(ExactResponse(ByFlow(first), f),
                               response_time(context, requests, answers, timings, ByFlow(first), f))
  BY Zenon DEF ResponsesAreNotUnderestimated
<1>1. /\ IsProblem(context, requests, answers, timings) /\ stable(context, answers, timings)
      /\ context.workers = Workers
  BY AnswersAreProblem
<1>2. ASSUME NEW w \in Workers, NEW r \in rankings(components_on(answers, w)),
             NEW p \in 1 .. PriorityCount
      PROVE  Close(ExactWait(r, w, p), queue_wait(answers, timings, r, w, p))
  <2>1. Ranks(r, answers, w) /\ w \in context.workers
    BY <1>1, RankingsRank
  <2>2. p \in Nat \ {0}
    BY ProblemConfigAssumption
  <2>3. IsClose(exact_wait(answers, timings, r, w, p), queue_wait(answers, timings, r, w, p))
    BY <1>1, <2>1, <2>2, WaitsAreClose
  <2> QED BY <2>3, ExactIs, CloseIs
<1>3. ASSUME NEW f \in DOMAIN answers, NEW first
      PROVE  Close(ExactResponse(ByFlow(first), f),
                   response_time(context, requests, answers, timings, ByFlow(first), f))
  <2> PICK r : r = ByFlow(first)
    OBVIOUS
  <2>1. \A w \in context.workers : Ranks(r, answers, w)
    BY FlowsRank
  <2>2. IsClose(exact_response(answers, timings, r, f),
                response_time(context, requests, answers, timings, r, f))
    BY <1>1, <2>1, ResponsesAreClose
  <2> QED BY <2>2, ExactIs, CloseIs
<1> QED BY <1>2, <1>3

LEMMA BoundsOfInvHold ==
  ASSUME AnswersInv, TimesInv
  PROVE  BoundsCutNothingOff
<1> PICK n : n = Len(answers)
  OBVIOUS
<1>1. SUFFICES ASSUME answers # <<>>
      PROVE  /\ \A k \in CutsOf(answers[n]) :
                  /\ transmitted_data_size(context, answers[n], k)
                       <= context.models[answers[n].variant].max_cut
                  /\ Leq(timings[n].transmission[k],
                         nominal_upper(context, requests[n], answers[n].worker_of[k]))
             /\ \A w \in Workers : \A r \in rankings(components_on(answers, w)) :
                  \A p \in 1 .. PriorityCount :
                    /\ Leq(queue_wait(answers, timings, r, w, p),
                           queue_wait_bound(MaxQueueWait[network][requests][w],
                                            answers, timings, r, w, p))
                    /\ Leq(queue_wait(answers, timings, r, w, p),
                           MaxQueueWait[network][requests][w])
  BY Zenon DEF BoundsCutNothingOff
<1>2. /\ IsProblem(context, requests, answers, timings) /\ stable(context, answers, timings)
      /\ DOMAIN requests # {} /\ DOMAIN answers = DOMAIN requests
      /\ n \in DOMAIN answers /\ context.workers = Workers
      /\ \A w \in Workers :
           MaxQueueWait[network][requests][w] = max_queue_wait(context, requests, w)
  BY <1>1, AnswersAreProblem DEF IsProblem
<1>3. ASSUME NEW k \in CutsOf(answers[n])
      PROVE  /\ transmitted_data_size(context, answers[n], k)
                  <= context.models[answers[n].variant].max_cut
             /\ Leq(timings[n].transmission[k],
                    nominal_upper(context, requests[n], answers[n].worker_of[k]))
  <2>1. IsServed(context, requests[n], answers[n])
    BY <1>2 DEF IsProblem
  <2>2. transmitted_data_size(context, answers[n], k)
          <= context.models[answers[n].variant].max_cut
    BY <2>1 DEF IsServed
  <2> QED BY <1>2, <2>2, TransmissionsAreBounded
<1>4. ASSUME NEW w \in Workers, NEW r \in rankings(components_on(answers, w)),
             NEW p \in 1 .. PriorityCount
      PROVE  /\ Leq(queue_wait(answers, timings, r, w, p),
                    queue_wait_bound(MaxQueueWait[network][requests][w],
                                     answers, timings, r, w, p))
             /\ Leq(queue_wait(answers, timings, r, w, p), MaxQueueWait[network][requests][w])
  <2>1. Ranks(r, answers, w) /\ w \in context.workers
    BY <1>2, RankingsRank
  <2>2. p \in Nat \ {0}
    BY ProblemConfigAssumption
  <2> PICK worst : worst = MaxQueueWait[network][requests][w]
    OBVIOUS
  <2>3. worst = max_queue_wait(context, requests, w)
    BY <1>2
  <2> QED BY <1>2, <2>1, <2>2, <2>3, WaitsAreBounded
<1> QED BY <1>3, <1>4

-----------------------------------------------------------------------------

\* What a hop sends is what the hop it sends to waits for, in the plans of any
\* answer of the optimizer.
THEOREM RoutesMeetHolds == Spec => []RoutesMeet
<1>1. Inv => RoutesMeet
  BY RoutesOfPlansMeet DEF Inv
<1> QED BY <1>1, Invariance, PTL

\* Of a plan version a hop is deployed once, by whichever flows and workers.
THEOREM HopsAreDeployedOnceHolds == Spec => []HopsAreDeployedOnce
<1>1. Inv => HopsAreDeployedOnce
  BY HopsOfPlansDiffer DEF Inv, HopsAreDeployedOnce
<1> QED BY <1>1, Invariance, PTL

\* A hop sends within its worker or over a connection that was measured.
THEOREM RoutesFollowConnectionsHolds == Spec => []RoutesFollowConnections
<1>1. Inv => RoutesFollowConnections
  BY RoutesOfPlansFollow DEF Inv
<1> QED BY <1>1, Invariance, PTL

\* What the optimizer answers passes the checks of extraction and conversion.
THEOREM AnswersAreAcceptedHolds == Spec => []AnswersAreAccepted
<1>1. Inv => AnswersAreAccepted
  BY AnswersOfInvAccepted DEF Inv
<1> QED BY <1>1, Invariance, PTL

\* Every tensor that a later part of a model needs travels with the request, over
\* however many components that do not need it.
THEOREM ContextIsCarriedHolds == Spec => []ContextIsCarried
<1>1. Inv => ContextIsCarried
  BY ContextOfPlansIsCarried DEF Inv
<1> QED BY <1>1, Invariance, PTL

\* Neither the controller nor a worker rejects a plan, and a worker finds for a hop
\* the priority and a backend it has, for any answers the optimizer may give.
THEOREM PlansAreWellFormedHolds == Spec => []PlansAreWellFormed
<1>1. Inv => PlansAreWellFormed
  BY PlansOfInvWellFormed DEF Inv
<1> QED BY <1>1, Invariance, PTL

\* The file of a partition has the layers that the plan says, reads nothing that it
\* is not given or makes itself, and makes what it is asked for; and each output of
\* the model is made by a partition of the flow.
THEOREM PartitionsComputeTheModelHolds == Spec => []PartitionsComputeTheModel
<1>1. Inv => PartitionsComputeTheModel
  BY PartitionsOfInvCompute DEF Inv
<1> QED BY <1>1, Invariance, PTL

\* A request is answered, once and in the sink, by what the whole model computes of it,
\* however the model is cut, placed and shared, over the plans the workers have read.
THEOREM RequestsPassTheWholeModelHolds == Spec => []RequestsPassTheWholeModel
<1>1. Inv => RequestsPassTheWholeModel
  BY RequestsOfInvPass DEF Inv
<1> QED BY <1>1, Invariance, PTL

\* What a worker reads is what the controller sent.
THEOREM PlansArriveAsSent == Spec => [](ReadPlans = Sent)
<1>1. Inv => ReadPlans = Sent
  BY PlansOfInvArrive DEF Inv
<1> QED BY <1>1, Invariance, PTL

\* What all flows deploy on a worker fits its memory, together with the largest set
\* of tensors that one of the deployed models holds at a time, in bytes of the files.
THEOREM DeploymentsFitTheWorkersHolds == Spec => []DeploymentsFitTheWorkers
<1>1. Inv /\ FeasibleInv => DeploymentsFitTheWorkers
  BY DeploymentsOfInvFit DEF Inv
<1> QED BY <1>1, Invariance, FeasibleInvariance, PTL

\* The waits and response times that the optimizer reckons with are not shorter than the
\* queues' formulas give at the utilization there is, and not longer than the relative
\* error allows: of any number of flows, workers and priorities, for any limits of
\* utilization in whole percents, any fraction above zero as relative error, whatever
\* number of bins it makes, and any order of the flows.
THEOREM ResponsesAreNotUnderestimatedHolds == Spec => []ResponsesAreNotUnderestimated
<1>1. Inv /\ TimesInv => ResponsesAreNotUnderestimated
  BY ResponsesOfInvAreClose DEF Inv
<1> QED BY <1>1, Invariance, TimesInvariance, PTL

\* No bound of the problem excludes an answer that is stable: nothing transmits more
\* than the largest cut, and no queue waits longer than its worker's, priority's and
\* bin's bounds, for the same limits and relative errors.
THEOREM BoundsCutNothingOffHolds == Spec => []BoundsCutNothingOff
<1>1. Inv /\ TimesInv => BoundsCutNothingOff
  BY BoundsOfInvHold DEF Inv
<1> QED BY <1>1, Invariance, TimesInvariance, PTL
=============================================================================
