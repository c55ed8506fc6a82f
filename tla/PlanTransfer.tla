---------------------------- MODULE PlanTransfer ----------------------------
(***************************************************************************)
(* How a worker plan gets from the controller to the worker: as parallel   *)
(* lists that the two sides check, each on its own, and look up by         *)
(* position, in a message where a hop is told by a tag.                    *)
(*                                                                         *)
(* The plan of PlanBuilding is listed in the order of its slots.  A listed *)
(* plan has the parts deployment_plan, scheduling_plan,                    *)
(* partition_execution_plan and hop_routing_plan.  Tensors of a route or   *)
(* scheme are a set: the code keeps them in tuples without repetition.     *)
(***************************************************************************)
EXTENDS PlanBuilding, SequencesExt

in_order(slots) ==
  [n \in 1 .. Cardinality(slots) |->
     CHOOSE s \in slots : Cardinality({t \in slots : Before(t, s)}) = n - 1]

Listed(entry, slots) ==
  LET order == in_order(slots) IN [n \in DOMAIN order |-> entry[order[n]]]

-----------------------------------------------------------------------------
(* DefaultWorkerPlanBuilder._build_worker_plan and what the controller     *)
(* checks of the parts.                                                    *)

build_worker_plan(plan) ==
  LET of_kind(kind) ==
        {s \in DOMAIN plan.endpoint_hops : plan.endpoint_hops[s].kind = kind}
      executed == DOMAIN plan.executable_hops
      partition == [s \in executed |-> plan.executable_hops[s].of]
      with_scheme == {s \in executed :
                        \E p \in plan.schemes : p.partition = partition[s]}
      first == {s \in with_scheme : \A t \in with_scheme :
                  Before(t, s) => partition[t] # partition[s]}
      scheme == [s \in first |->
                   CHOOSE p \in plan.schemes : p.partition = partition[s]]
  IN [deployment_plan |->
        [executable_hops |-> Listed(plan.executable_hops, executed),
         allocations |-> Listed(plan.allocations, executed),
         ingress_hops |-> Listed(plan.endpoint_hops, of_kind("ingress")),
         sink_hops |-> Listed(plan.endpoint_hops, of_kind("sink"))],
      scheduling_plan |->
        [priority_keys |-> Listed(plan.priority_keys, executed),
         priorities |-> Listed(plan.priorities, executed)],
      partition_execution_plan |->
        [partition_ids |-> Listed(partition, first),
         schemes |-> Listed([s \in first |-> [inputs |-> scheme[s].inputs,
                                              outputs |-> scheme[s].outputs]], first)],
      hop_routing_plan |->
        [hop_addresses |-> Listed(plan.hop_addresses, DOMAIN plan.hop_addresses),
         routings |-> Listed([s \in DOMAIN plan.routings |->
                                [input_routings |-> {plan.routings[s].input},
                                 output_routings |-> plan.routings[s].output]],
                             DOMAIN plan.routings)]]

planned_hops(plan) ==
  Range(plan.deployment_plan.executable_hops)
    \cup Range(plan.deployment_plan.ingress_hops)
    \cup Range(plan.deployment_plan.sink_hops)

deployed_partitions(plan) ==
  {hop.of : hop \in Range(plan.deployment_plan.executable_hops)}

deployment_is_valid(d) ==
  /\ \A hops \in {d.executable_hops, d.ingress_hops, d.sink_hops} : IsInjective(hops)
  /\ Len(d.executable_hops) = Len(d.allocations)

scheduling_is_valid(s) ==
  /\ IsInjective(s.priority_keys)
  /\ Len(s.priority_keys) = Len(s.priorities)
  /\ \A n \in DOMAIN s.priorities : s.priorities[n] >= 0

execution_is_valid(e) ==
  /\ IsInjective(e.partition_ids)
  /\ Len(e.partition_ids) = Len(e.schemes)

\* Every route carries something, every peer and every tensor occurs once.
hop_routings_are_valid(r) ==
  /\ \A i \in r.input_routings \cup r.output_routings : i.tensors # {}
  /\ \A i, j \in r.input_routings :
       i # j => i.source # j.source /\ i.tensors \cap j.tensors = {}
  /\ \A i, j \in r.output_routings : i # j => i.destination # j.destination

routing_is_valid(h) ==
  /\ IsInjective(h.hop_addresses)
  /\ Len(h.hop_addresses) = Len(h.routings)
  /\ \A n \in DOMAIN h.routings : hop_routings_are_valid(h.routings[n])

worker_plan_is_valid(plan) ==
  /\ deployment_is_valid(plan.deployment_plan)
  /\ scheduling_is_valid(plan.scheduling_plan)
  /\ execution_is_valid(plan.partition_execution_plan)
  /\ routing_is_valid(plan.hop_routing_plan)
  /\ planned_hops(plan) = {a.hop : a \in Range(plan.hop_routing_plan.hop_addresses)}
  /\ deployed_partitions(plan) = Range(plan.partition_execution_plan.partition_ids)
  /\ {key.hop : key \in Range(plan.scheduling_plan.priority_keys)}
       \subseteq Range(plan.deployment_plan.executable_hops)

-----------------------------------------------------------------------------
(* The message.  The lists keep their order, an identifier its fields; a   *)
(* hop of a route is tagged, because the identifiers of an ingress and a   *)
(* sink look alike.                                                        *)

SourceTags == {"external", "ingress", "partition_replica"}
DestinationTags == {"ingress", "partition_replica", "sink"}

hop_to_dto(hop) ==
  IF hop = ExternalHop THEN [kind |-> "external"]
  ELSE [kind |-> IF hop.kind = "partition" THEN "partition_replica" ELSE hop.kind,
        id |-> [of |-> hop.of, replica_idx |-> hop.replica_idx]]

hop_from_dto(dto) ==
  IF dto.kind = "external" THEN ExternalHop
  ELSE [kind |-> IF dto.kind = "partition_replica" THEN "partition" ELSE dto.kind,
        of |-> dto.id.of, replica_idx |-> dto.id.replica_idx]

\* The addresses of a routing plan, each mapped by f.
map_hops(f(_), h) ==
  LET moved(a) == [flow |-> a.flow, hop |-> f(a.hop)] IN
  [hop_addresses |-> [n \in DOMAIN h.hop_addresses |-> moved(h.hop_addresses[n])],
   routings |-> [n \in DOMAIN h.routings |->
     [input_routings |->
        {[source |-> moved(i.source), tensors |-> i.tensors] :
           i \in h.routings[n].input_routings},
      output_routings |->
        {[destination |-> moved(o.destination), tensors |-> o.tensors] :
           o \in h.routings[n].output_routings}]]]

to_worker_plan_dto(plan) ==
  [plan EXCEPT !.hop_routing_plan = map_hops(hop_to_dto, @)]

\* Only an ingress listens to callers, and nothing is sent by a sink.
dto_is_valid(dto) ==
  LET h == dto.hop_routing_plan IN
  /\ \A n \in DOMAIN h.hop_addresses : h.hop_addresses[n].hop.kind \in DestinationTags
  /\ \A n \in DOMAIN h.routings :
       /\ \A i \in h.routings[n].input_routings : i.source.hop.kind \in SourceTags
       /\ \A o \in h.routings[n].output_routings :
            o.destination.hop.kind \in DestinationTags
  /\ \A n \in DOMAIN dto.scheduling_plan.priorities :
       dto.scheduling_plan.priorities[n] >= 0

worker_plan_from_dto(dto) ==
  [dto EXCEPT !.hop_routing_plan = map_hops(hop_from_dto, @)]

-----------------------------------------------------------------------------
(* What the worker checks, and looks up.                                   *)

worker_accepts(dto) ==
  LET plan == worker_plan_from_dto(dto) IN
  /\ dto_is_valid(dto)
  /\ deployment_is_valid(plan.deployment_plan)
  /\ scheduling_is_valid(plan.scheduling_plan)
  /\ execution_is_valid(plan.partition_execution_plan)
  /\ deployed_partitions(plan) = Range(plan.partition_execution_plan.partition_ids)

\* The position of x in list, 0 if it is not there.
index(list, x) == SelectInSeq(list, LAMBDA y : y = x)

\* The deployer goes through hops and allocations side by side.
get_allocation(plan, hop) ==
  LET d == plan.deployment_plan IN d.allocations[index(d.executable_hops, hop)]

get_priority_by_key(plan, key) ==
  LET s == plan.scheduling_plan IN s.priorities[index(s.priority_keys, key)]

get_scheme_by_partition_id(plan, partition) ==
  LET e == plan.partition_execution_plan IN e.schemes[index(e.partition_ids, partition)]

has_routings(plan, at) ==
  at \in Range(plan.hop_routing_plan.hop_addresses)

get_routings_for_hop_address(plan, at) ==
  LET h == plan.hop_routing_plan IN h.routings[index(h.hop_addresses, at)]
=============================================================================
