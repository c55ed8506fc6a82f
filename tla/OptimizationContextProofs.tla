---------------------- MODULE OptimizationContextProofs ----------------------
(***************************************************************************)
(* Spec => []ContextsAreBuilt, for any workers, variants and readings.     *)
(*                                                                         *)
(* The first part proves about the operators of ResourceProfiling that the *)
(* controller accepts every profile a worker of one GPU can collect.  The  *)
(* second proves the inductive invariant: published resource profiles are  *)
(* collected ones, and no worker measures itself.                          *)
(***************************************************************************)
EXTENDS OptimizationContext, TLAPS

LEMMA ProductPositive ==
  ASSUME NEW m \in Int, NEW n \in Int, m > 0, n > 0 PROVE m * n \in Int /\ m * n > 0
  OBVIOUS

LEMMA ProductNotNegative ==
  ASSUME NEW m \in Int, NEW n \in Int, m >= 0, n > 0 PROVE m * n \in Int /\ m * n >= 0
  OBVIOUS

-----------------------------------------------------------------------------
(* Profiles.                                                               *)

\* The capacity of a valid reading is a fraction above 0, of all cores at most.
LEMMA CapacityIsValid ==
  ASSUME NEW r \in CpuReading, capacity_is_valid(r)
  PROVE  \E n \in Int, d \in Int :
           /\ capacity_cores(r) = <<n, d>> /\ n > 0 /\ d > 0
           /\ at_most(<<n, d>>, <<r.logical, 1>>)
<1>1. /\ r.logical \in Int /\ r.logical > 0 /\ r.period \in Int /\ r.period > 0
      /\ r.quota = Unlimited \/ (r.quota \in Int /\ r.quota > 0)
  BY DEF CpuReading, capacity_is_valid
<1>2. CASE r.quota = Unlimited
  BY <1>1, <1>2 DEF capacity_cores, at_most
<1>3. CASE r.quota # Unlimited
  <2>1. r.logical * r.period \in Int /\ r.quota * 1 = r.quota
    BY <1>1, <1>3
  <2>2. CASE r.logical * r.period <= r.quota
    <3>1. capacity_cores(r) = <<r.logical, 1>>
      BY <1>3, <2>1, <2>2 DEF capacity_cores, lower, at_most
    <3> QED BY <1>1, <3>1 DEF at_most
  <2>3. CASE ~(r.logical * r.period <= r.quota)
    <3>1. capacity_cores(r) = <<r.quota, r.period>>
      BY <1>3, <2>1, <2>3 DEF capacity_cores, lower, at_most
    <3>2. at_most(<<r.quota, r.period>>, <<r.logical, 1>>)
      BY <1>1, <1>3, <2>1, <2>3 DEF at_most
    <3> QED BY <1>1, <1>3, <3>1, <3>2
  <2> QED BY <2>2, <2>3
<1> QED BY <1>2, <1>3

\* Between comparable samples the utilization is a ratio, and not None.
LEMMA UtilizationIsARatio ==
  ASSUME NEW r \in CpuReading, NEW previous \in CpuReading \cup {None},
         capacity_is_valid(r), is_comparable(r, previous)
  PROVE  /\ is_ratio(utilization_ratio(r, previous))
         /\ utilization_ratio(r, previous) # None
         /\ r.now - previous.now # None /\ r.now - previous.now > 0
<1>1. previous \in CpuReading /\ r.now > previous.now /\ r.usage >= previous.usage
  BY DEF is_comparable
<1>2. PICK n \in Int, d \in Int : capacity_cores(r) = <<n, d>> /\ n > 0 /\ d > 0
  BY CapacityIsValid
<1>3. /\ r.usage - previous.usage \in Int /\ r.usage - previous.usage >= 0
      /\ r.now - previous.now \in Int /\ r.now - previous.now > 0
  BY <1>1 DEF CpuReading
<1> DEFINE used == (r.usage - previous.usage) * d
           had == (r.now - previous.now) * n
<1>4. used \in Int /\ used >= 0
  BY <1>2, <1>3, ProductNotNegative
<1>5. had \in Int /\ had > 0
  BY <1>2, <1>3, ProductPositive
<1>6. utilization_ratio(r, previous) = lower(<<used, had>>, <<1, 1>>)
  BY <1>2 DEF utilization_ratio
<1> HIDE DEF used, had
<1>7. CASE used <= had
  <2>1. utilization_ratio(r, previous) = <<used, had>>
    BY <1>4, <1>5, <1>6, <1>7 DEF lower, at_most
  <2> QED BY <1>3, <1>4, <1>5, <1>7, <2>1, NoneAssumption DEF is_ratio
<1>8. CASE ~(used <= had)
  <2>1. utilization_ratio(r, previous) = <<1, 1>>
    BY <1>4, <1>5, <1>6, <1>8 DEF lower, at_most
  <2> QED BY <1>3, <2>1, NoneAssumption DEF is_ratio
<1> QED BY <1>7, <1>8

LEMMA CpuProfileIsAccepted ==
  ASSUME NEW r \in CpuReading, NEW previous \in CpuReading \cup {None},
         profile_cpu(r, previous) # Refused
  PROVE  cpu_profile_is_valid(profile_cpu(r, previous))
<1> DEFINE p == profile_cpu(r, previous)
<1>1. capacity_is_valid(r)
  BY DEF profile_cpu
<1>2. /\ p.logical_cpu_count = r.logical
      /\ p.capacity_cores = capacity_cores(r)
      /\ p.utilization_ratio =
           IF is_comparable(r, previous) THEN utilization_ratio(r, previous) ELSE None
      /\ p.sample_duration =
           IF is_comparable(r, previous) THEN r.now - previous.now ELSE None
  BY DEF profile_cpu
<1>3. PICK n \in Int, d \in Int : /\ capacity_cores(r) = <<n, d>> /\ n > 0 /\ d > 0
                                  /\ at_most(<<n, d>>, <<r.logical, 1>>)
  BY <1>1, CapacityIsValid
<1>4. r.logical > 0
  BY <1>1 DEF capacity_is_valid
<1> HIDE DEF p
<1>5. /\ p.logical_cpu_count > 0 /\ p.capacity_cores[1] > 0
      /\ at_most(p.capacity_cores, <<p.logical_cpu_count, 1>>)
  BY <1>2, <1>3, <1>4
<1>6. CASE is_comparable(r, previous)
  <2>1. p.utilization_ratio # None /\ p.sample_duration # None
    BY <1>1, <1>2, <1>6, UtilizationIsARatio
  <2>2. is_ratio(p.utilization_ratio) /\ p.sample_duration > 0
    BY <1>1, <1>2, <1>6, UtilizationIsARatio
  <2> QED BY <1>5, <2>1, <2>2 DEF cpu_profile_is_valid, p
<1>7. CASE ~is_comparable(r, previous)
  <2>1. p.utilization_ratio = None /\ p.sample_duration = None
    BY <1>2, <1>7
  <2>2. is_ratio(p.utilization_ratio)
    BY <2>1 DEF is_ratio
  <2> QED BY <1>5, <2>1, <2>2 DEF cpu_profile_is_valid, p
<1> QED BY <1>6, <1>7

LEMMA RamProfileIsAccepted ==
  ASSUME NEW r \in RamReading, profile_ram(r) # Refused
  PROVE  ram_profile_is_valid(profile_ram(r))
<1>1. ram_is_valid(r)
  BY DEF profile_ram
<1>2. CASE r.limit = Unlimited
  BY <1>1, <1>2 DEF profile_ram, ram_is_valid, ram_profile_is_valid, RamReading
<1>3. CASE r.limit # Unlimited
  BY <1>1, <1>3 DEF profile_ram, ram_is_valid, ram_profile_is_valid, RamReading
<1> QED BY <1>2, <1>3

\* A percentage within its bounds is a ratio.
LEMMA PercentageIsARatio ==
  ASSUME NEW r \in GpuReading, rates_are_valid(r), NEW i \in 1 .. 2
  PROVE  is_ratio(percentage_to_ratio(r, i))
<1>1. CASE r.rates = Unsupported
  BY <1>1 DEF percentage_to_ratio, is_ratio
<1>2. CASE r.rates # Unsupported /\ r.rates[i] = None
  BY <1>2 DEF percentage_to_ratio, is_ratio
<1>3. CASE r.rates # Unsupported /\ r.rates[i] # None
  <2>1. r.rates[i] \in 0 .. 100
    BY <1>3 DEF rates_are_valid
  <2>2. percentage_to_ratio(r, i) = <<r.rates[i], 100>>
    BY <1>3 DEF percentage_to_ratio
  <2> QED BY <2>1, <2>2 DEF is_ratio
<1> QED BY <1>1, <1>2, <1>3

LEMMA GpuProfileIsAccepted ==
  ASSUME NEW r \in GpuReading, profile_gpu(r) # Refused
  PROVE  gpu_profile_is_valid(profile_gpu(r))
<1>1. gpu_memory_is_valid(r) /\ rates_are_valid(r)
  BY DEF profile_gpu
<1>2. /\ is_ratio(percentage_to_ratio(r, 1)) /\ is_ratio(percentage_to_ratio(r, 2))
  BY <1>1, PercentageIsARatio
<1>3. profile_gpu(r) =
        [total_memory_bytes |-> r.total, used_memory_bytes |-> r.used,
         available_memory_bytes |-> r.free,
         compute_utilization_ratio |-> percentage_to_ratio(r, 1),
         memory_io_utilization_ratio |-> percentage_to_ratio(r, 2)]
  BY <1>1 DEF profile_gpu
<1> QED BY <1>1, <1>2, <1>3 DEF gpu_profile_is_valid, gpu_memory_is_valid

\* The profiles a worker with one GPU at most can collect.
SingleGpuReading == {r \in HostReading : Len(r.gpus) <= 1}
Collected == {profile_resources(r) : r \in SingleGpuReading} \ {Refused}

\* The controller takes a collected profile as it is.
THEOREM CollectedProfilesAreAccepted ==
  \A p \in Collected : worker_resource_profile_from_dto(p) = p
<1> SUFFICES ASSUME NEW r \in SingleGpuReading, profile_resources(r) # Refused
             PROVE  worker_resource_profile_from_dto(profile_resources(r))
                      = profile_resources(r)
  BY DEF Collected
<1>1. /\ r.gpus \in Seq(GpuReading) /\ Len(r.gpus) <= 1
      /\ r.cpu \in CpuReading /\ r.previous \in CpuReading \cup {None}
      /\ r.ram \in RamReading
  BY DEF SingleGpuReading, HostReading
<1> DEFINE gpus == profile_gpus(r.gpus)
           cpu == profile_cpu(r.cpu, r.previous)
           ram == profile_ram(r.ram)
           p == [gpu_profiles |-> gpus, cpu_profile |-> cpu, ram_profile |-> ram]
<1>2. /\ profile_resources(r) = p /\ cpu # Refused /\ ram # Refused
      /\ \A i \in DOMAIN gpus : gpus[i] # Refused
  BY DEF profile_resources
<1>3. /\ DOMAIN gpus = 1 .. Len(r.gpus) /\ Len(gpus) <= 1
      /\ \A i \in DOMAIN gpus : r.gpus[i] \in GpuReading /\ gpus[i] = profile_gpu(r.gpus[i])
  BY <1>1 DEF profile_gpus
<1>4. \A i \in DOMAIN gpus : gpu_profile_is_valid(gpus[i])
  BY <1>2, <1>3, GpuProfileIsAccepted
<1>5. cpu_profile_is_valid(cpu)
  BY <1>1, <1>2, CpuProfileIsAccepted
<1>6. ram_profile_is_valid(ram)
  BY <1>1, <1>2, RamProfileIsAccepted
<1> HIDE DEF gpus, cpu, ram
<1>7. worker_resource_profile_from_dto(p) = p
  BY <1>3, <1>4, <1>5, <1>6 DEF worker_resource_profile_from_dto
<1> QED BY <1>2, <1>7
-----------------------------------------------------------------------------
(* The inductive invariant.                                                *)

\* ContextsAreBuilt says only what building.step is not.  What keeps it so is
\* what the stores hold: collected profiles, and connections to others.
Rounds ==
  [step : {"sleep", "probe"}, targets : SUBSET Workers, connections : SUBSET Workers]

Steps == {"idle", "static", "workers", "network", "resources", "built", "failed"}
Buildings == [step : Steps, variants : SUBSET Variants, workers : SUBSET Workers]

TypeInvariant ==
  /\ rounds \in [Workers -> Rounds]
  /\ network_profiles \in [Workers -> {NoProfile} \cup SUBSET Workers]
  /\ resource_profiles \in [Workers -> {NoProfile} \cup Collected]
  /\ static_profiles \in SUBSET Variants
  /\ building \in Buildings

NobodyMeasuresItself ==
  \A w \in Workers :
    /\ w \notin rounds[w].targets /\ w \notin rounds[w].connections
    /\ network_profiles[w] # NoProfile => w \notin network_profiles[w]

Inv == TypeInvariant /\ NobodyMeasuresItself /\ ContextsAreBuilt

LEMMA SleepingAndIdle ==
  /\ Sleeping \in Rounds /\ Sleeping.targets = {} /\ Sleeping.connections = {}
  /\ Idle \in Buildings /\ Idle.step # "failed"
<1>1. Sleeping \in Rounds
  BY DEF Sleeping, Rounds
<1>2. Idle \in Buildings
  BY DEF Idle, Buildings, Steps
<1> QED BY <1>1, <1>2 DEF Sleeping, Idle

LEMMA InitInv == Init => Inv
<1> SUFFICES ASSUME Init PROVE Inv
  OBVIOUS
<1>1. TypeInvariant
  BY ContextAssumption, SleepingAndIdle DEF Init, TypeInvariant
<1>2. NobodyMeasuresItself /\ ContextsAreBuilt
  BY SleepingAndIdle DEF Init, NobodyMeasuresItself, ContextsAreBuilt
<1> QED BY <1>1, <1>2 DEF Inv

\* A step of a round keeps the two network parts of the invariant, if the round
\* it goes on with measures others.
LEMMA GoOnKeeps ==
  ASSUME TypeInvariant, NobodyMeasuresItself, NEW w \in Workers,
         NEW STATE round,
         round \in Rounds,
         w \notin round.targets, w \notin round.connections,
         go_on(w, round),
         UNCHANGED <<resource_profiles, static_profiles, building>>
  PROVE  TypeInvariant' /\ NobodyMeasuresItself'
<1>1. CASE round.targets # {}
  BY <1>1 DEF go_on, TypeInvariant, NobodyMeasuresItself
<1>2. CASE round.targets = {}
  <2>1. /\ rounds' = [rounds EXCEPT ![w] = Sleeping]
        /\ network_profiles' = [network_profiles EXCEPT ![w] = round.connections]
    BY <1>2 DEF go_on
  <2>2. TypeInvariant'
    <3>1. round.connections \in SUBSET Workers
      BY DEF Rounds
    <3> QED BY <2>1, <3>1, SleepingAndIdle DEF TypeInvariant
  <2>3. NobodyMeasuresItself'
    BY <2>1, SleepingAndIdle DEF TypeInvariant, NobodyMeasuresItself
  <2> QED BY <2>2, <2>3
<1> QED BY <1>1, <1>2

LEMMA ProbeKeeps ==
  ASSUME TypeInvariant, NobodyMeasuresItself, NEW w \in Workers, ProbeConnection(w)
  PROVE  TypeInvariant' /\ NobodyMeasuresItself'
<1>1. PICK t, answered :
        /\ t \in rounds[w].targets
        /\ go_on(w, [rounds[w] EXCEPT !.targets = @ \ {t},
                       !.connections = IF answered THEN @ \cup {t} ELSE @])
  BY DEF ProbeConnection
<1>2. /\ rounds[w] \in Rounds /\ rounds[w].connections \in SUBSET Workers
      /\ w \notin rounds[w].targets /\ w \notin rounds[w].connections
  BY DEF TypeInvariant, NobodyMeasuresItself, Rounds
<1>3. t \in Workers /\ t # w
  BY <1>1, <1>2 DEF Rounds
<1>4. UNCHANGED <<resource_profiles, static_profiles, building>>
  BY DEF ProbeConnection
<1>5. ASSUME NEW C \in SUBSET Workers, w \notin C,
             go_on(w, [rounds[w] EXCEPT !.targets = @ \ {t}, !.connections = C])
      PROVE  TypeInvariant' /\ NobodyMeasuresItself'
  <2>1. /\ [rounds[w] EXCEPT !.targets = @ \ {t}, !.connections = C] \in Rounds
        /\ w \notin [rounds[w] EXCEPT !.targets = @ \ {t}, !.connections = C].targets
        /\ w \notin [rounds[w] EXCEPT !.targets = @ \ {t}, !.connections = C].connections
    BY <1>2, <1>5 DEF Rounds
  <2> QED BY <1>4, <1>5, <2>1, GoOnKeeps
<1>6. CASE answered
  <2>1. go_on(w, [rounds[w] EXCEPT !.targets = @ \ {t},
                    !.connections = rounds[w].connections \cup {t}])
    BY <1>1, <1>6
  <2>2. /\ rounds[w].connections \cup {t} \in SUBSET Workers
        /\ w \notin rounds[w].connections \cup {t}
    BY <1>2, <1>3
  <2> QED BY <1>5, <2>1, <2>2
<1>7. CASE ~answered
  <2>1. go_on(w, [rounds[w] EXCEPT !.targets = @ \ {t},
                    !.connections = rounds[w].connections])
    BY <1>1, <1>7
  <2> QED BY <1>2, <1>5, <2>1
<1> QED BY <1>6, <1>7

LEMMA ReadsAreTyped ==
  ASSUME Inv, BuildOptimizationContext PROVE building' \in Buildings
<1>1. building \in Buildings /\ static_profiles \in SUBSET Variants
  BY DEF Inv, TypeInvariant
<1>2. get_all_worker_instances \in SUBSET Workers
  BY DEF get_all_worker_instances, get_all_service_instances
<1>3. \/ \E step \in Steps : building' = [building EXCEPT !.step = step]
      \/ building' = [building EXCEPT !.step = "static", !.variants = static_profiles]
      \/ building' = [building EXCEPT !.step = "workers",
                                      !.workers = get_all_worker_instances]
      \/ building' = Idle
  BY DEF BuildOptimizationContext, GetAllModelVariantStaticProfiles,
         GetRegisteredWorkerIds, GetNetworkTopology, GetResourceProfiles,
         GetExecutionProfiles, Optimize, Steps
<1>4. "static" \in Steps /\ "workers" \in Steps
  BY DEF Steps
<1> QED BY <1>1, <1>2, <1>3, <1>4, SleepingAndIdle DEF Buildings

\* No read of build_optimization_context fails.
LEMMA NoReadFails ==
  ASSUME Inv, BuildOptimizationContext PROVE ContextsAreBuilt'
<1> building \in Buildings /\ building.workers \in SUBSET Workers
  BY DEF Inv, TypeInvariant, Buildings
<1>1. CASE GetAllModelVariantStaticProfiles \/ GetRegisteredWorkerIds
  BY <1>1 DEF GetAllModelVariantStaticProfiles, GetRegisteredWorkerIds, Buildings,
              ContextsAreBuilt
<1>5. CASE Optimize
  BY <1>5, SleepingAndIdle DEF Optimize, ContextsAreBuilt
<1>2. CASE GetNetworkTopology
  <2>1. topology_is_valid(building.workers,
                          get_network_connections_by_workers(building.workers))
    BY DEF Inv, NobodyMeasuresItself, topology_is_valid,
           get_network_connections_by_workers
  <2> QED BY <1>2, <2>1 DEF GetNetworkTopology, Buildings, ContextsAreBuilt
<1>3. CASE GetResourceProfiles
  <2>1. ASSUME NEW w \in building.workers, resource_profiles[w] # NoProfile
        PROVE  worker_resource_profile_from_dto(resource_profiles[w]) # Refused
    <3>1. resource_profiles[w] \in Collected
      BY <2>1 DEF Inv, TypeInvariant
    <3> QED BY <3>1, CollectedProfilesAreAccepted DEF Collected
  <2>2. ~ \E w \in DOMAIN get_resource_profiles_for_workers(building.workers) :
            get_resource_profiles_for_workers(building.workers)[w] = Refused
    BY <2>1 DEF get_resource_profiles_for_workers
  <2> QED BY <1>3, <2>2 DEF GetResourceProfiles, Buildings, ContextsAreBuilt
<1>4. CASE GetExecutionProfiles
  <2>1. indexes_are_valid(building.variants,
          get_execution_profiles_for_workers_and_variants(
            building.workers, building.variants))
    BY DEF indexes_are_valid, get_execution_profiles_for_workers_and_variants
  <2> QED BY <1>4, <2>1 DEF GetExecutionProfiles, Buildings, ContextsAreBuilt
<1> QED BY <1>1, <1>2, <1>3, <1>4, <1>5 DEF BuildOptimizationContext

\* The steps of the worker w that touch neither its round nor a profile.
Elsewhere(w) ==
  \/ Advertise(w) \/ CapabilityNotAlive(w) \/ HeartbeatMissed(w) \/ Start(w)
  \/ \E v \in Variants : PublishExecutionProfile(w, v)

LEMMA WorkerKeeps ==
  ASSUME Inv, NEW w \in Workers,
         \/ Elsewhere(w) \/ StartNetworkRound(w) \/ ProbeConnection(w)
         \/ NetworkRoundFails(w) \/ ProfileResources(w) \/ Stop(w)
  PROVE  Inv'
<1>1. UNCHANGED building
  BY DEF Elsewhere, Advertise, CapabilityNotAlive, HeartbeatMissed, register_or_renew,
         Start, PublishExecutionProfile, StartNetworkRound, ProbeConnection,
         NetworkRoundFails, ProfileResources, Stop, profileVars
<1>2. ContextsAreBuilt'
  BY <1>1 DEF Inv, ContextsAreBuilt
<1>3. CASE Elsewhere(w)
  <2>1. UNCHANGED <<rounds, network_profiles, resource_profiles, static_profiles>>
    BY <1>3 DEF Elsewhere, Advertise, CapabilityNotAlive, HeartbeatMissed,
       register_or_renew, Start, PublishExecutionProfile, profileVars
  <2> QED BY <1>1, <1>2, <2>1 DEF Inv, TypeInvariant, NobodyMeasuresItself
<1>4. CASE StartNetworkRound(w)
  <2>1. /\ go_on(w, [step |-> "probe", targets |-> get_all_worker_instances \ {w},
                     connections |-> {}])
        /\ UNCHANGED <<resource_profiles, static_profiles, building>>
    BY <1>4 DEF StartNetworkRound
  <2>2. get_all_worker_instances \in SUBSET Workers
    BY DEF get_all_worker_instances, get_all_service_instances
  <2>3. [step |-> "probe", targets |-> get_all_worker_instances \ {w}, connections |-> {}]
          \in Rounds
    BY <2>2 DEF Rounds
  <2>4. TypeInvariant' /\ NobodyMeasuresItself'
    BY <2>1, <2>3, GoOnKeeps DEF Inv
  <2> QED BY <1>2, <2>4 DEF Inv
<1>5. CASE ProbeConnection(w)
  BY <1>2, <1>5, ProbeKeeps DEF Inv
<1>6. CASE NetworkRoundFails(w) \/ Stop(w)
  <2>1. /\ rounds' = [rounds EXCEPT ![w] = Sleeping]
        /\ UNCHANGED <<network_profiles, resource_profiles, static_profiles>>
    BY <1>6 DEF NetworkRoundFails, Stop, round_failed, profileVars
  <2>2. TypeInvariant'
    BY <1>1, <2>1, SleepingAndIdle DEF Inv, TypeInvariant
  <2>3. NobodyMeasuresItself'
    BY <2>1, SleepingAndIdle DEF Inv, TypeInvariant, NobodyMeasuresItself
  <2> QED BY <1>2, <2>2, <2>3 DEF Inv
<1>7. CASE ProfileResources(w)
  <2>1. PICK profile \in collected_profiles[w] :
          resource_profiles' = [resource_profiles EXCEPT ![w] = profile]
    BY <1>7 DEF ProfileResources, publish_resource_profile
  <2>2. profile \in Collected
    BY ReadingsAssumption DEF collected_profiles, Collected, SingleGpuReading
  <2>3. UNCHANGED <<rounds, network_profiles, static_profiles>>
    BY <1>7 DEF ProfileResources
  <2>4. TypeInvariant'
    BY <1>1, <2>1, <2>2, <2>3 DEF Inv, TypeInvariant
  <2>5. NobodyMeasuresItself'
    BY <2>3 DEF Inv, NobodyMeasuresItself
  <2> QED BY <1>2, <2>4, <2>5 DEF Inv
<1> QED BY <1>3, <1>4, <1>5, <1>6, <1>7

LEMMA NextInv == Inv /\ [Next]_vars => Inv'
<1> SUFFICES ASSUME Inv, [Next]_vars PROVE Inv'
  OBVIOUS
<1>1. CASE \E w \in Workers :
             \/ Elsewhere(w) \/ StartNetworkRound(w) \/ ProbeConnection(w)
             \/ NetworkRoundFails(w) \/ ProfileResources(w) \/ Stop(w)
  BY <1>1, WorkerKeeps
<1>2. CASE \E v \in Variants : RegisterModelVariant(v)
  BY <1>2 DEF RegisterModelVariant, Inv, TypeInvariant, NobodyMeasuresItself,
              ContextsAreBuilt
<1>3. CASE BuildOptimizationContext
  <2>1. UNCHANGED <<rounds, network_profiles, resource_profiles, static_profiles>>
    BY <1>3 DEF BuildOptimizationContext, profileVars
  <2>2. building' \in Buildings
    BY <1>3, ReadsAreTyped
  <2> QED BY <1>3, <2>1, <2>2, NoReadFails DEF Inv, TypeInvariant, NobodyMeasuresItself
<1>4. CASE UNCHANGED vars
  BY <1>4 DEF vars, profileVars, Inv, TypeInvariant, NobodyMeasuresItself,
              ContextsAreBuilt
<1> QED BY <1>1, <1>2, <1>3, <1>4 DEF Next, Elsewhere

\* Stores that change between two reads of build_optimization_context, workers
\* that come and go: it builds a context, whatever the hosts read.
THEOREM ContextsAreBuiltHolds == Spec => []ContextsAreBuilt
<1>1. Inv => ContextsAreBuilt
  BY DEF Inv
<1> QED BY <1>1, InitInv, NextInv, PTL DEF Spec
=============================================================================
