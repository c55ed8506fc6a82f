---------------------------- MODULE PlanBuilding ----------------------------
(***************************************************************************)
(* DefaultSolutionToPlanConverter: what the controller turns a solution of *)
(* the optimizer into, one plan for every involved worker and one for      *)
(* every flow.                                                             *)
(*                                                                         *)
(* A solution is a sequence of flow solutions                              *)
(*   [flow, variant, ingress, sink, components, cuts]                      *)
(* whose components, [worker, layers, inputs, outputs, backend, priority], *)
(* are in the order of their component index, and where cuts[i] holds the  *)
(* tensors between components i and i + 1.  "layers" are the executable    *)
(* layers: a component without any only stands for the model's boundary.   *)
(*                                                                         *)
(* The lists of a plan are functions over the slots their entries come     *)
(* from: slot <<k, i>> is component i of flow solution k, <<k, 0>> its     *)
(* ingress and <<k, Len(components) + 1>> its sink.                        *)
(***************************************************************************)
EXTENDS Integers, FiniteSets, Sequences, FiniteSetsExt

ExternalHop == [kind |-> "external"]

-----------------------------------------------------------------------------
(* Routes of one flow.                                                     *)

executable_components(fs) ==
  {i \in DOMAIN fs.components : fs.components[i].layers # {}}

FirstExecuted(fs) == Min(executable_components(fs))
LastExecuted(fs) == Max(executable_components(fs))
SinkIndex(fs) == Len(fs.components) + 1

\* Mutant of previous: the component before, executable or not.
previous_component(fs, i) == i - 1

previous(fs, i) == Max({0} \cup {j \in executable_components(fs) : j < i})

next(fs, i) ==
  Min({SinkIndex(fs)} \cup {j \in executable_components(fs) : j > i})

input_tensors(fs) ==
  IF FirstExecuted(fs) = 1
  THEN fs.components[1].inputs ELSE fs.cuts[FirstExecuted(fs) - 1]

result_tensors(fs) ==
  IF LastExecuted(fs) = Len(fs.components)
  THEN fs.components[LastExecuted(fs)].outputs ELSE fs.cuts[LastExecuted(fs)]

\* The tensors on the route that leaves index i.
tensors_from(fs, i) ==
  IF i = 0 THEN input_tensors(fs)
  ELSE IF i = LastExecuted(fs) THEN result_tensors(fs)
  ELSE fs.cuts[i]

\* tensors_between raises when a component that executes nothing changes
\* what is routed through it.
collapsible(fs) ==
  \A i \in executable_components(fs) \ {LastExecuted(fs)} :
    \A j \in i .. next(fs, i) - 1 : fs.cuts[j] = fs.cuts[i]

-----------------------------------------------------------------------------
(* Identifiers of hops.                                                    *)

partition_id(fs, i) ==
  [variant |-> fs.variant, layers |-> fs.components[i].layers]

ExecutableSlots(sol) ==
  {s \in UNION {{k} \X DOMAIN sol[k].components : k \in DOMAIN sol} :
     s[2] \in executable_components(sol[s[1]])}

Before(s, t) == s[1] < t[1] \/ (s[1] = t[1] /\ s[2] < t[2])

\* Mutant of replica_index: every flow counts its own replicas.
replica_index_of_flow(sol, t) ==
  Cardinality({s \in ExecutableSlots(sol) :
    /\ s[1] = t[1] /\ Before(s, t)
    /\ partition_id(sol[s[1]], s[2]) = partition_id(sol[t[1]], t[2])})

\* next_replica_index is shared by the flows of the solution.
replica_index(sol, t) ==
  Cardinality({s \in ExecutableSlots(sol) :
    /\ Before(s, t)
    /\ partition_id(sol[s[1]], s[2]) = partition_id(sol[t[1]], t[2])})

replica_id(sol, t) ==
  [kind |-> "partition", of |-> partition_id(sol[t[1]], t[2]),
   replica_idx |-> replica_index(sol, t)]

endpoint_index(sol, k) ==
  Cardinality({j \in 1 .. k - 1 : sol[j].variant = sol[k].variant})

\* An endpoint belongs to the variant, not to layers of it.
endpoint_id(sol, k, kind) ==
  [kind |-> kind, of |-> [variant |-> sol[k].variant, layers |-> {}],
   replica_idx |-> endpoint_index(sol, k)]

ingress_id(sol, k) == endpoint_id(sol, k, "ingress")
sink_id(sol, k) == endpoint_id(sol, k, "sink")

hop_at(sol, s) ==
  IF s[2] = 0 THEN ingress_id(sol, s[1])
  ELSE IF s[2] = SinkIndex(sol[s[1]]) THEN sink_id(sol, s[1])
  ELSE replica_id(sol, s)

address(sol, s) == [flow |-> sol[s[1]].flow, hop |-> hop_at(sol, s)]

-----------------------------------------------------------------------------
(* Worker plans.                                                           *)

ingress_slots(sol, w) ==
  {<<k, 0>> : k \in {j \in DOMAIN sol : sol[j].ingress = w}}
sink_slots(sol, w) ==
  {<<k, SinkIndex(sol[k])>> : k \in {j \in DOMAIN sol : sol[j].sink = w}}
executable_slots(sol, w) ==
  {s \in ExecutableSlots(sol) : sol[s[1]].components[s[2]].worker = w}

involved_workers(sol) ==
  {sol[k].ingress : k \in DOMAIN sol}
    \cup {sol[k].sink : k \in DOMAIN sol}
    \cup {sol[s[1]].components[s[2]].worker : s \in ExecutableSlots(sol)}

input_routing(sol, k, i) ==
  LET fs == sol[k] IN
  IF i = 0
  THEN [source |-> [flow |-> fs.flow, hop |-> ExternalHop],
        tensors |-> input_tensors(fs)]
  ELSE LET from == IF i = SinkIndex(fs) THEN LastExecuted(fs) ELSE previous(fs, i)
       IN [source |-> address(sol, <<k, from>>),
           tensors |-> tensors_from(fs, from)]

\* A sink has no output routing.
output_routings(sol, k, i) ==
  LET fs == sol[k] IN
  IF i = SinkIndex(fs) THEN {}
  ELSE {[destination |-> address(sol, <<k, next(fs, i)>>),
         tensors |-> tensors_from(fs, i)]}

\* Mutant of schemes: those of a later flow replace those of an earlier one.
schemes_of_last_flow(sol, w) ==
  {[partition |-> partition_id(sol[s[1]], s[2]),
    inputs |-> sol[s[1]].components[s[2]].inputs,
    outputs |-> sol[s[1]].components[s[2]].outputs] :
     s \in {t \in executable_slots(sol, w) :
              \A u \in executable_slots(sol, w) : u[1] <= t[1]}}

schemes(sol, w) ==
  {[partition |-> partition_id(sol[s[1]], s[2]),
    inputs |-> sol[s[1]].components[s[2]].inputs,
    outputs |-> sol[s[1]].components[s[2]].outputs] : s \in executable_slots(sol, w)}

worker_plan(sol, w) ==
  LET executed == executable_slots(sol, w)
      slots == executed \cup ingress_slots(sol, w) \cup sink_slots(sol, w)
      component(s) == sol[s[1]].components[s[2]]
  IN [executable_hops |-> [s \in executed |-> replica_id(sol, s)],
      allocations |-> [s \in executed |-> [use_gpu |-> component(s).backend = "gpu"]],
      endpoint_hops |-> [s \in slots \ executed |-> hop_at(sol, s)],
      priority_keys |-> [s \in executed |-> address(sol, s)],
      priorities |-> [s \in executed |-> component(s).priority],
      schemes |-> schemes(sol, w),
      hop_addresses |-> [s \in slots |-> address(sol, s)],
      routings |-> [s \in slots |->
        [input |-> input_routing(sol, s[1], s[2]),
         output |-> output_routings(sol, s[1], s[2])]]]

worker_plans(sol) == [w \in involved_workers(sol) |-> worker_plan(sol, w)]

\* _add_partition_scheme raises when two components of a worker give one
\* partition different tensors.
consistent_schemes(sol) ==
  \A w \in involved_workers(sol) :
    \A p, q \in schemes(sol, w) :
      p.partition = q.partition => p = q

flow_plans(sol) ==
  [k \in DOMAIN sol |->
     [flow |-> sol[k].flow, variant |-> sol[k].variant,
      ingress |-> ingress_id(sol, k), sink |-> sink_id(sol, k)]]

\* inputs are the tensors callers are told to send.
flow_plan_is_valid(fp, inputs) ==
  /\ fp.ingress.of.variant = fp.variant /\ fp.sink.of.variant = fp.variant
  /\ inputs # {}

-----------------------------------------------------------------------------
(* The conversion raises unless this holds.                                *)

convertible(sol) ==
  /\ \A j, k \in DOMAIN sol : sol[j].flow = sol[k].flow => j = k
  /\ \A k \in DOMAIN sol : executable_components(sol[k]) # {}
  /\ \A k \in DOMAIN sol : collapsible(sol[k])
  /\ consistent_schemes(sol)
=============================================================================
