------------------------- MODULE OptimizationContext -------------------------
(***************************************************************************)
(* How the controller comes to know the workers: what they advertise in    *)
(* the service catalog (AdvertisingManager, RedisServiceRegistrar,         *)
(* RedisServiceDirectory), the network, resource and execution profiles    *)
(* they publish, and DefaultOptimizationContextBuilder, which reads all of *)
(* it one store after the other while it changes.                          *)
(*                                                                         *)
(*   running[w]             the process of worker w runs                   *)
(*   catalog[w]             the capability types of its entry in the       *)
(*                          catalog, or NoEntry                            *)
(*   missed[w]              heartbeat intervals since it was renewed       *)
(*   rounds[w]              its network profiling loop: the workers left   *)
(*                          to probe and the connections measured          *)
(*   network_profiles[w], resource_profiles[w], execution_profiles[w]      *)
(*                          what it last published (NoProfile; the         *)
(*                          targets; a profile; the variants profiled)     *)
(*   static_profiles        the registered model variants, see             *)
(*                          ModelRegistration                              *)
(*   building               the controller's build_optimization_context    *)
(*                                                                         *)
(* A connection is its target: what the probes measure is not looked at.   *)
(* An activity grant is a delay here, see ActivityManager.  A failure that *)
(* leaves everything as it was (of a resource round, of a read of the      *)
(* builder) is not a step.  MaxFaults bounds the others.                   *)
(***************************************************************************)
EXTENDS ResourceProfiling, FiniteSets

CONSTANTS
  Workers, Variants,
  Capabilities,      \* what a worker declares
  Answering,         \* the sets of capabilities whose life checks may pass
  EntryLife,         \* the missed heartbeats an entry does not survive
  Readings,          \* Readings[w]: what w may read off its host
  StoredVariants,    \* registered and profiled in an earlier life of the workers
  NoEntry, NoProfile, MaxFaults

\* What validate_capabilities of WorkerInstance asks for.
RequiredCapabilities ==
  {"HOP_INVOCATION", "PLAN_ACTUATION", "IN_NETWORK_PROFILING", "RESULT_RETRIEVE"}

ASSUME ContextAssumption ==
  /\ EntryLife \in Nat \ {0} /\ MaxFaults \in Nat
  /\ RequiredCapabilities \subseteq Capabilities
  /\ Answering \subseteq SUBSET Capabilities
  /\ StoredVariants \subseteq Variants

\* Hosts have one GPU at most: the controller supports no more.
ASSUME ReadingsAssumption ==
  \A w \in Workers : \A r \in Readings[w] : r \in HostReading /\ Len(r.gpus) <= 1

VARIABLES running, catalog, missed, rounds, network_profiles, resource_profiles,
          execution_profiles, static_profiles, building, faults

catalogVars == <<catalog, missed>>
profileVars == <<network_profiles, resource_profiles, execution_profiles, static_profiles>>
vars == <<running, catalogVars, rounds, profileVars, building, faults>>

Sleeping == [step |-> "sleep", targets |-> {}, connections |-> {}]
Idle == [step |-> "idle", variants |-> {}, workers |-> {}]

Init ==
  /\ running = [w \in Workers |-> TRUE]
  /\ catalog = [w \in Workers |-> NoEntry]
  /\ missed = [w \in Workers |-> 0]
  /\ rounds = [w \in Workers |-> Sleeping]
  /\ network_profiles = [w \in Workers |-> NoProfile]
  /\ resource_profiles = [w \in Workers |-> NoProfile]
  /\ execution_profiles = [w \in Workers |-> StoredVariants]
  /\ static_profiles = StoredVariants /\ building = Idle /\ faults = 0

Fault == faults < MaxFaults /\ faults' = faults + 1

(***************************************************************************)
(* The catalog.                                                            *)
(***************************************************************************)

\* A heartbeat publishes the capabilities that answer their life check.
register_or_renew(w, alive) ==
  /\ catalog' = [catalog EXCEPT ![w] = alive]
  /\ missed' = [missed EXCEPT ![w] = 0]
  /\ UNCHANGED <<running, rounds, profileVars, building>>

Advertise(w) ==
  /\ running[w] /\ register_or_renew(w, Capabilities) /\ UNCHANGED faults

CapabilityNotAlive(w) ==
  running[w] /\ Fault /\ \E alive \in Answering : register_or_renew(w, alive)

\* An interval without a heartbeat: the process is down, or publishing it
\* failed, which _heartbeat_loop logs.
HeartbeatMissed(w) ==
  /\ catalog[w] # NoEntry
  /\ IF running[w] THEN Fault ELSE UNCHANGED faults
  /\ IF missed[w] + 1 < EntryLife
     THEN missed' = [missed EXCEPT ![w] = @ + 1] /\ UNCHANGED catalog
     ELSE /\ catalog' = [catalog EXCEPT ![w] = NoEntry]
          /\ missed' = [missed EXCEPT ![w] = 0]
  /\ UNCHANGED <<running, rounds, profileVars, building>>

get_all_service_instances == {w \in Workers : catalog[w] # NoEntry}

\* Entries that are no WorkerInstance are skipped.
get_all_worker_instances ==
  {w \in get_all_service_instances : RequiredCapabilities \subseteq catalog[w]}

(***************************************************************************)
(* The profiling loops of a worker.                                        *)
(***************************************************************************)

\* publish_network_profile replaces the whole profile; the last probe of a
\* round is followed by it.
go_on(w, round) ==
  IF round.targets # {}
  THEN rounds' = [rounds EXCEPT ![w] = round] /\ UNCHANGED network_profiles
  ELSE /\ rounds' = [rounds EXCEPT ![w] = Sleeping]
       /\ network_profiles' = [network_profiles EXCEPT ![w] = round.connections]

StartNetworkRound(w) ==
  /\ running[w] /\ rounds[w].step = "sleep"
  /\ go_on(w, [step |-> "probe", targets |-> get_all_worker_instances \ {w},
               connections |-> {}])
  /\ UNCHANGED <<running, catalogVars, resource_profiles, execution_profiles,
                 static_profiles, building, faults>>

\* A worker that runs answers the probe of t, unless the transfer fails.
probe_answers(t) == {running[t], FALSE}

\* probe_connection: a NetworkProbeError only leaves the connection out.
ProbeConnection(w) ==
  /\ running[w] /\ rounds[w].step = "probe"
  /\ \E t \in rounds[w].targets : \E answered \in probe_answers(t) :
       /\ IF running[t] /\ ~answered THEN Fault ELSE UNCHANGED faults
       /\ go_on(w, [rounds[w] EXCEPT !.targets = @ \ {t},
                      !.connections = IF answered THEN @ \cup {t} ELSE @])
  /\ UNCHANGED <<running, catalogVars, resource_profiles, execution_profiles,
                 static_profiles, building>>

\* Mutant of round_failed: the exception ends the loop.
loop_ended == [Sleeping EXCEPT !.step = "ended"]

\* _profile_loop logs what a round raises and goes on.
round_failed == Sleeping

\* Any other exception than a NetworkProbeError, from acquiring the activity
\* to publishing the profile.
NetworkRoundFails(w) ==
  /\ running[w] /\ rounds[w].step = "probe" /\ Fault
  /\ rounds' = [rounds EXCEPT ![w] = round_failed]
  /\ UNCHANGED <<running, catalogVars, profileVars, building>>

collected_profiles ==
  [w \in Workers |-> {profile_resources(r) : r \in Readings[w]} \ {Refused}]

publish_resource_profile(w, profile) ==
  resource_profiles' = [resource_profiles EXCEPT ![w] = profile]

ProfileResources(w) ==
  /\ running[w]
  /\ \E profile \in collected_profiles[w] : publish_resource_profile(w, profile)
  /\ UNCHANGED <<running, catalogVars, rounds, network_profiles, execution_profiles,
                 static_profiles, building, faults>>

\* The rounds of the execution profiling loop are those of ModelRegistration.
PublishExecutionProfile(w, v) ==
  /\ running[w] /\ v \in static_profiles \ execution_profiles[w]
  /\ execution_profiles' = [execution_profiles EXCEPT ![w] = @ \cup {v}]
  /\ UNCHANGED <<running, catalogVars, rounds, network_profiles, resource_profiles,
                 static_profiles, building, faults>>

\* A worker that stops keeps what it published, and its entry till it expires.
Stop(w) ==
  /\ running[w] /\ Fault
  /\ running' = [running EXCEPT ![w] = FALSE]
  /\ rounds' = [rounds EXCEPT ![w] = Sleeping]
  /\ UNCHANGED <<catalogVars, profileVars, building>>

\* The new process is the same worker: SERVICE_ID is set.  Without it a new process is
\* another worker, with profiles of its own.
Start(w) ==
  /\ ~running[w] /\ running' = [running EXCEPT ![w] = TRUE]
  /\ UNCHANGED <<catalogVars, rounds, profileVars, building, faults>>

RegisterModelVariant(v) ==
  /\ v \notin static_profiles /\ static_profiles' = static_profiles \cup {v}
  /\ UNCHANGED <<running, catalogVars, rounds, network_profiles, resource_profiles,
                 execution_profiles, building, faults>>

(***************************************************************************)
(* build_optimization_context.  Each read is of its own moment.            *)
(***************************************************************************)

\* The index of variants is a Redis set: a scan of it is taken to return every member
\* once, so that the check for duplicates passes.  What is stored is read back without
\* errors of the mapper, see StaticProfiles.
GetAllModelVariantStaticProfiles ==
  /\ building.step = "idle"
  /\ building' = [building EXCEPT !.step = "static", !.variants = static_profiles]

GetRegisteredWorkerIds ==
  /\ building.step = "static"
  /\ building' = [building EXCEPT !.step = "workers", !.workers = get_all_worker_instances]

\* Mutant of get_network_connections_by_workers: every target is taken.
connections_to_any_target(workers) ==
  {c \in workers \X Workers :
     network_profiles[c[1]] # NoProfile /\ c[2] \in network_profiles[c[1]]}

\* Connections to workers that were not asked for are left out.
get_network_connections_by_workers(workers) ==
  {c \in workers \X workers :
     network_profiles[c[1]] # NoProfile /\ c[2] \in network_profiles[c[1]]}

\* NetworkTopology.
topology_is_valid(workers, connections) ==
  \A c \in connections : c[1] \in workers /\ c[2] \in workers /\ c[1] # c[2]

GetNetworkTopology ==
  LET connections == get_network_connections_by_workers(building.workers)
  IN  /\ building.step = "workers"
      /\ building' = [building EXCEPT !.step =
           IF topology_is_valid(building.workers, connections)
           THEN "network" ELSE "failed"]

\* get_resource_profiles_for_workers, by worker.
get_resource_profiles_for_workers(workers) ==
  [w \in {x \in workers : resource_profiles[x] # NoProfile} |->
     worker_resource_profile_from_dto(resource_profiles[w])]

GetResourceProfiles ==
  LET profiles == get_resource_profiles_for_workers(building.workers)
  IN  /\ building.step = "network"
      /\ building' = [building EXCEPT !.step =
           IF \E w \in DOMAIN profiles : profiles[w] = Refused
           THEN "failed" ELSE "resources"]

\* The variants profiled by each worker; others than asked for are skipped.
get_execution_profiles_for_workers_and_variants(workers, variants) ==
  [w \in IF variants = {} THEN {} ELSE workers |-> execution_profiles[w] \cap variants]

\* _validate_indexes of OptimizationContext.
indexes_are_valid(variants, executions) ==
  \A w \in DOMAIN executions : executions[w] \subseteq variants

GetExecutionProfiles ==
  LET executions == get_execution_profiles_for_workers_and_variants(
                      building.workers, building.variants)
  IN  /\ building.step = "resources"
      /\ building' = [building EXCEPT !.step =
           IF indexes_are_valid(building.variants, executions) THEN "built" ELSE "failed"]

\* The context goes to the solver.
Optimize == building.step = "built" /\ building' = Idle

BuildOptimizationContext ==
  /\ \/ GetAllModelVariantStaticProfiles \/ GetRegisteredWorkerIds
     \/ GetNetworkTopology \/ GetResourceProfiles \/ GetExecutionProfiles \/ Optimize
  /\ UNCHANGED <<running, catalogVars, rounds, profileVars, faults>>

Next ==
  \/ \E w \in Workers :
       \/ Advertise(w) \/ CapabilityNotAlive(w) \/ HeartbeatMissed(w)
       \/ StartNetworkRound(w) \/ ProbeConnection(w) \/ NetworkRoundFails(w)
       \/ ProfileResources(w) \/ Stop(w) \/ Start(w)
       \/ \E v \in Variants : PublishExecutionProfile(w, v)
  \/ \E v \in Variants : RegisterModelVariant(v)
  \/ BuildOptimizationContext

(***************************************************************************)
(* Fairness: the loops of a running worker go on, the grants it waits for  *)
(* come.  Nothing obliges a worker to stop or to start, a variant to be    *)
(* registered or a request to be made.                                     *)
(***************************************************************************)
Fairness ==
  \A w \in Workers :
    /\ WF_vars(Advertise(w)) /\ WF_vars(ProfileResources(w))
    /\ WF_vars(StartNetworkRound(w) \/ ProbeConnection(w))
    /\ WF_vars(\E v \in Variants : PublishExecutionProfile(w, v))

Spec == Init /\ [][Next]_vars /\ Fairness

(***************************************************************************)
(* Properties.                                                             *)
(***************************************************************************)

\* Whatever is published, registered, expires or stops between two of its
\* reads, build_optimization_context builds a context: no connection leads out
\* of the workers it found, no profile is of a variant it did not read, and the
\* profiles the workers collect are ones the controller accepts.
ContextsAreBuilt == building.step # "failed"

\* Workers that run are listed, measured and connected to one another in the
\* end and stay so, whatever probes, rounds and heartbeats failed before.
running_workers == {w \in Workers : running[w]}

is_usable(w) ==
  /\ w \in get_all_worker_instances
  /\ network_profiles[w] # NoProfile /\ running_workers \ {w} \subseteq network_profiles[w]
  /\ resource_profiles[w] # NoProfile
  /\ static_profiles \subseteq execution_profiles[w]

RunningWorkersBecomeUsable ==
  <>[](\A w \in running_workers : is_usable(w))
================================================================================
