---------------------------- MODULE HopExecution ----------------------------
(***************************************************************************)
(* What a worker does with the tensors of one hop invocation: the checks   *)
(* and look-ups in the plan it was sent, the payload, the partition's      *)
(* inference session, and what is sent on.                                 *)
(*                                                                         *)
(* A TensorBundle is a function from tensor names to values.  A value is   *)
(* the term it was computed as, so that two tensors are equal only if the  *)
(* same operators made them of the same inputs and weights.                *)
(*                                                                         *)
(* A contribution is [source, destination, bundle], source and destination *)
(* being addresses [flow, hop].                                            *)
(***************************************************************************)
EXTENDS PlanTransfer

NoTensors == [x \in {} |-> {}]

merge(bundle, other) ==
  [x \in DOMAIN bundle \cup DOMAIN other |->
     IF x \in DOMAIN other THEN other[x] ELSE bundle[x]]

filter(bundle, names) == Restrict(bundle, DOMAIN bundle \cap names)

full_payload(contributions) ==
  FoldSet(LAMBDA c, bundle : merge(bundle, c.bundle), NoTensors, contributions)

-----------------------------------------------------------------------------
(* HopRoutings.                                                            *)

arrived(contributions) ==
  [s \in {c.source : c \in contributions} |->
     UNION {DOMAIN c.bundle : c \in {d \in contributions : d.source = s}}]

expected(routings) ==
  [s \in {i.source : i \in routings.input_routings} |->
     (CHOOSE i \in routings.input_routings : i.source = s).tensors]

check_valid_sources(routings, tensors) ==
  \A s \in DOMAIN tensors :
    s \in DOMAIN expected(routings) /\ tensors[s] \subseteq expected(routings)[s]

check_inputs_ready(routings, tensors) ==
  \A s \in DOMAIN expected(routings) :
    s \in DOMAIN tensors /\ tensors[s] = expected(routings)[s]

-----------------------------------------------------------------------------
(* DefaultHopInvocationRequestAssembler.                                   *)

can_assemble(plan, hop, contributions) ==
  /\ contributions # {}
  /\ \A c, d \in contributions : c.destination = d.destination
  /\ hop.kind = "partition" =>
       /\ hop.of \in Range(plan.partition_execution_plan.partition_ids)
       /\ get_scheme_by_partition_id(plan, hop.of).inputs
            \subseteq DOMAIN full_payload(contributions)

\* A partition is given what its scheme names, an ingress and a sink everything.
assemble(plan, hop, contributions) ==
  IF hop.kind = "partition"
  THEN filter(full_payload(contributions),
              get_scheme_by_partition_id(plan, hop.of).inputs)
  ELSE full_payload(contributions)

-----------------------------------------------------------------------------
(* The executor of a partition: ONNX Runtime on the partition's file.      *)

provider_of(allocation) ==
  IF allocation.use_gpu THEN "CUDAExecutionProvider" ELSE "CPUExecutionProvider"

\* Otherwise no executor is created, and the plan is not deployed.
session_is_built(available_providers, allocation) ==
  provider_of(allocation) \in available_providers

\* A session: every node runs when all it reads is there.
run_session(file, bundle) ==
  LET given == merge([x \in file.initializers |-> [weight |-> x]],
                     filter(bundle, file.inputs))
      reads(n, known) == Restrict(known, file.nodes[n].inputs)
      ready(known) ==
        {n \in DOMAIN file.nodes : file.nodes[n].inputs \subseteq DOMAIN known}
      written(known) ==
        [x \in UNION {file.nodes[n].outputs : n \in ready(known)} |->
           LET n == CHOOSE n \in ready(known) : x \in file.nodes[n].outputs
           IN [operator |-> n, output |-> x, of |-> reads(n, known)]]
      known[n \in 0 .. Cardinality(DOMAIN file.nodes)] ==
        IF n = 0 THEN given
        ELSE LET before == known[n - 1] IN merge(before, written(before))
  IN filter(known[Cardinality(DOMAIN file.nodes)], file.outputs)

\* No input of the session is optional.
can_execute(file, payload) == file.inputs \subseteq DOMAIN payload

execute(file, payload) == run_session(file, payload)

-----------------------------------------------------------------------------
(* The handlers of the three kinds of hops.                                *)

can_handle(hop, file, payload) == hop.kind = "partition" => can_execute(file, payload)

\* The sink keeps the payload as the outcome of the model pass.
handle(hop, file, payload) ==
  CASE hop.kind = "ingress" -> payload
    [] hop.kind = "partition" -> execute(file, payload)
    [] hop.kind = "sink" -> NoTensors

-----------------------------------------------------------------------------
(* DefaultHopOutputRouter: what comes in may be passed on with the result. *)

\* Mutant of available_payload: only the result is sent on.
available_result(contributions, result) == result

available_payload(contributions, result) == merge(full_payload(contributions), result)

can_route(plan, from, contributions, result) ==
  /\ has_routings(plan, from)
  /\ LET routes == get_routings_for_hop_address(plan, from).output_routings IN
     /\ \A o \in routes : o.tensors \subseteq DOMAIN available_payload(contributions, result)
     /\ from.hop.kind = "sink" => routes = {}
     /\ \A o \in routes : o.destination.flow = from.flow

route(plan, from, contributions, result) ==
  {[source |-> from, destination |-> o.destination,
    bundle |-> filter(available_payload(contributions, result), o.tensors)] :
     o \in get_routings_for_hop_address(plan, from).output_routings}

-----------------------------------------------------------------------------
(* One invocation.                                                         *)

\* An invocation that fails anywhere sends nothing on.  (A sink keeps its payload
\* before its routes are looked up.)
invocable(plan, at, file, contributions) ==
  /\ has_routings(plan, at)
  /\ LET routings == get_routings_for_hop_address(plan, at) IN
     /\ check_valid_sources(routings, arrived(contributions))
     /\ check_inputs_ready(routings, arrived(contributions))
  /\ can_assemble(plan, at.hop, contributions)
  /\ LET payload == assemble(plan, at.hop, contributions) IN
     /\ can_handle(at.hop, file, payload)
     /\ can_route(plan, at, contributions, handle(at.hop, file, payload))

invoke(plan, at, file, contributions) ==
  LET payload == assemble(plan, at.hop, contributions) IN
  [at |-> at, payload |-> payload,
   sent |-> route(plan, at, contributions, handle(at.hop, file, payload))]
=============================================================================
