-------------------------- MODULE FlowOptimization --------------------------
(***************************************************************************)
(* What the optimizer may answer: the discrete part of GurobiSolver's      *)
(* problem (which model serves a flow, how its layers are cut into         *)
(* components, where these are placed) and the extraction of a solution.   *)
(*                                                                         *)
(* The binary variables of a flow are read as one record                   *)
(*   [variant, component_of, worker_of]                                    *)
(* component_of maps the layers of the selected model to components,       *)
(* worker_of maps the active components to workers: one model per flow,    *)
(* one component per layer, one worker per active component and no active  *)
(* component without layers are in the shape of the record.  Queueing      *)
(* times, utilization and objective only select among these answers.       *)
(*                                                                         *)
(* ctx, the OptimizationContext, is a record                               *)
(*   [workers, connections, profiled, memory, models]                      *)
(* with the active workers that have a resource profile, the pairs of      *)
(* workers with a network profile, the <<variant, layer>> pairs profiled   *)
(* on each worker's backend, its memory, and the models' static profiles   *)
(*   [task, accuracies, weight, max_cut, topology, tensor_routes].         *)
(***************************************************************************)
EXTENDS Integers, FiniteSets, Sequences, FiniteSetsExt

CONSTANT MaxComponents

ASSUME MaxComponentsAssumption == MaxComponents \in Nat \ {0}

AnyPlacement == [fixed |-> FALSE]
FixedPlacement(w) == [fixed |-> TRUE, worker |-> w]

-----------------------------------------------------------------------------
(* ModelVariantTopology: [layers, inputs, outputs, edges], an edge being   *)
(* [source, target, tensors].                                              *)

is_reachable(t, from, to) ==
  LET within[n \in 0 .. Cardinality(t.layers)] ==
        IF n = 0 THEN {from}
        ELSE within[n - 1]
               \cup {e.target : e \in {d \in t.edges : d.source \in within[n - 1]}}
  IN to \in within[Cardinality(t.layers)]

Tensors(t) == UNION {e.tensors : e \in t.edges}

source(t, x) == (CHOOSE e \in t.edges : x \in e.tensors).source
destinations(t, x) == {e.target : e \in {d \in t.edges : x \in d.tensors}}

\* The consumers of a tensor that no other consumer comes after.
maximal_destinations(t, x) ==
  {l \in destinations(t, x) :
     ~ \E other \in destinations(t, x) \ {l} : is_reachable(t, l, other)}

tensor_routes(t) ==
  [x \in Tensors(t) |->
     [source |-> source(t, x), maximal_destinations |-> maximal_destinations(t, x)]]

component_tensor_contract(t, layers) ==
  [inputs |-> UNION {e.tensors : e \in {d \in t.edges :
     \/ d.target \in layers /\ d.source \notin layers
     \/ d.source \in layers /\ d.source \in t.inputs}},
   outputs |-> UNION {e.tensors : e \in {d \in t.edges :
     \/ d.source \in layers /\ d.target \notin layers
     \/ d.target \in layers /\ d.target \in t.outputs}}]

-----------------------------------------------------------------------------
(* The problem: which models and workers a request may use.                *)

ErrorMetrics == {"mae", "rmse"}

is_metric_satisfied(metric, requirement) ==
  /\ metric.type = requirement.type
  /\ metric.dataset = requirement.dataset
  /\ IF metric.type \in ErrorMetrics THEN metric.value <= requirement.value
     ELSE metric.value >= requirement.value

eligible_models(ctx, request) ==
  {v \in DOMAIN ctx.models :
     /\ ctx.models[v].task = request.task
     /\ \E metric \in ctx.models[v].accuracies :
          is_metric_satisfied(metric, request.min_model_performance)}

\* No problem is built for a request fixed to a worker that is not active.
endpoints_are_active(ctx, request) ==
  \A p \in {request.ingress, request.sink} : p.fixed => p.worker \in ctx.workers

boundary(t) == t.inputs \cup t.outputs

\* Boundary layers take no time on any worker; the others need a profile of the
\* worker's own backend.
layer_execution_profiles(ctx, v, w) ==
  {l \in ctx.models[v].topology.layers :
     l \in boundary(ctx.models[v].topology) \/ <<v, l>> \in ctx.profiled[w]}

\* Mutant of available: the request's own worker is as good as any.
available_to_all(ctx, request, v, w) == layer_execution_profiles(ctx, v, w)

\* A local worker that runs no inference only relays.
available(ctx, request, v, w) ==
  layer_execution_profiles(ctx, v, w)
    \cap (IF request.relay = {w} THEN boundary(ctx.models[v].topology)
          ELSE ctx.models[v].topology.layers)

-----------------------------------------------------------------------------
(* Constraints on the answer for one flow.                                 *)

components(a) == DOMAIN a.worker_of
layers_of(a, k) == {l \in DOMAIN a.component_of : a.component_of[l] = k}
component_last(a) == Max(components(a))

component_sequence_is_prefix(a) ==
  components(a) = 1 .. Cardinality(components(a))

endpoint_placement(request, a) ==
  /\ request.ingress.fixed => a.worker_of[1] = request.ingress.worker
  /\ request.sink.fixed => a.worker_of[component_last(a)] = request.sink.worker

successive_components_use_different_workers(a) ==
  \A k \in components(a) \ {1} : a.worker_of[k - 1] # a.worker_of[k]

input_layers_on_first_component(t, a) ==
  \A l \in t.inputs : a.component_of[l] = 1

output_layers_on_last_component(t, a) ==
  \A l \in t.outputs : a.component_of[l] = component_last(a)

\* Mutant of layer_assignments_respect_precedence: only the inputs' edges.
layer_assignments_respect_inputs(t, a) ==
  \A e \in t.edges : e.source \in t.inputs =>
    a.component_of[e.source] <= a.component_of[e.target]

layer_assignments_respect_precedence(t, a) ==
  \A e \in t.edges : a.component_of[e.source] <= a.component_of[e.target]

supported(ctx, request, a) ==
  \A l \in DOMAIN a.component_of :
    l \in available(ctx, request, a.variant, a.worker_of[a.component_of[l]])

\* Mutant of transition_marginals: only a way back is looked for.
transition_marginals_reversed(ctx, a) ==
  \A k \in components(a) \ {1} :
    \/ a.worker_of[k - 1] = a.worker_of[k]
    \/ <<a.worker_of[k], a.worker_of[k - 1]>> \in ctx.connections

\* Every component but the first is entered over a connection or locally.
transition_marginals(ctx, a) ==
  \A k \in components(a) \ {1} :
    \/ a.worker_of[k - 1] = a.worker_of[k]
    \/ <<a.worker_of[k - 1], a.worker_of[k]>> \in ctx.connections

\* The constraints that only concern how the model is cut ...
well_cut(t, a) ==
  /\ component_sequence_is_prefix(a)
  /\ successive_components_use_different_workers(a)
  /\ input_layers_on_first_component(t, a)
  /\ output_layers_on_last_component(t, a)
  /\ layer_assignments_respect_precedence(t, a)

\* ... and those on where its components may be.
placeable(ctx, request, a) ==
  /\ a.variant \in eligible_models(ctx, request)
  /\ endpoints_are_active(ctx, request)
  /\ endpoint_placement(request, a)
  /\ supported(ctx, request, a)
  /\ transition_marginals(ctx, a)

\* The bindings of the variables of one flow that cut its model well.
Assignments(models, workers) ==
  UNION {LET t == models[v].topology IN
         UNION {{a \in {[variant |-> v, component_of |-> c, worker_of |-> w] :
                          w \in [{c[l] : l \in t.layers} -> workers]} : well_cut(t, a)} :
                c \in [t.layers -> 1 .. MaxComponents]} :
         v \in DOMAIN models}

-----------------------------------------------------------------------------
(* Memory, which the flows of a solution share.  answers is a sequence of  *)
(* assignments, one per flow.                                              *)

component_weight(ctx, a, k) ==
  MapThenSumSet(LAMBDA l : ctx.models[a.variant].weight[l], layers_of(a, k))

components_on(answers, w) ==
  {s \in UNION {{i} \X components(answers[i]) : i \in DOMAIN answers} :
     answers[s[1]].worker_of[s[2]] = w}

max_activation(ctx, answers, w) ==
  Max({0} \cup {ctx.models[answers[s[1]].variant].max_cut :
                  s \in components_on(answers, w)})

\* Mutant of memory_capacity: the flows do not share the memory.
memory_capacity_per_flow(ctx, answers, w) ==
  \A i \in DOMAIN answers :
    MapThenSumSet(LAMBDA s : component_weight(ctx, answers[s[1]], s[2]),
                  {s \in components_on(answers, w) : s[1] = i})
      + max_activation(ctx, answers, w) <= ctx.memory[w]

\* The weights of all components stay resident, one activation at a time.
memory_capacity(ctx, answers, w) ==
  MapThenSumSet(LAMBDA s : component_weight(ctx, answers[s[1]], s[2]),
                components_on(answers, w))
    + max_activation(ctx, answers, w) <= ctx.memory[w]

\* The constraint that flows share on memory.  Those on the utilization of queues are in
\* ResponseTimes (stable).  The requirement on a request's mean response time is left out:
\* without it more answers are admitted, so what holds of these holds of the solver's.
feasible(ctx, answers) == \A w \in ctx.workers : memory_capacity(ctx, answers, w)

-----------------------------------------------------------------------------
(* Extraction of the solution.                                             *)

\* Mutant of destination_crossing: read by the very next component.
destination_crossing_next(a, from, destination, k) ==
  /\ a.component_of[from] <= k
  /\ a.component_of[destination] = k + 1

destination_crossing(a, from, destination, k) ==
  a.component_of[from] <= k /\ k < a.component_of[destination]

\* With several maximal consumers an auxiliary variable is the disjunction of
\* their crossings; without any the tensor crosses no cut.
tensor_crossing(a, route, k) ==
  \E d \in route.maximal_destinations : destination_crossing(a, route.source, d, k)

cut_tensors(routes, a, k) == {x \in DOMAIN routes : tensor_crossing(a, routes[x], k)}

\* A boundary layer of the model is in the component, but is not executed.
extract_component(t, a, k) ==
  LET contract == component_tensor_contract(t, layers_of(a, k))
  IN [worker |-> a.worker_of[k],
      layers |-> layers_of(a, k) \ boundary(t),
      inputs |-> contract.inputs, outputs |-> contract.outputs]

extract_flow(models, flow, a) ==
  LET t == models[a.variant].topology
      last == component_last(a)
  IN [flow |-> flow, variant |-> a.variant,
      ingress |-> a.worker_of[1], sink |-> a.worker_of[last],
      components |-> [k \in 1 .. last |-> extract_component(t, a, k)],
      cuts |-> [k \in 1 .. last - 1 |-> cut_tensors(models[a.variant].tensor_routes, a, k)]]

\* Every component gets the backend of its worker and the priority selected for it.
extract_execution(backend, priority, sol) ==
  LET executed(c, s) ==
        [worker |-> c.worker, layers |-> c.layers, inputs |-> c.inputs,
         outputs |-> c.outputs, backend |-> backend[c.worker], priority |-> priority[s]]
  IN [k \in DOMAIN sol |->
        [sol[k] EXCEPT !.components =
           [i \in DOMAIN sol[k].components |->
              executed(sol[k].components[i], <<k, i>>)]]]

\* What a solution and its components raise ValueError for.
flow_solution_is_valid(t, a, fs) ==
  /\ fs.components # <<>>
  /\ fs.components[1].worker = fs.ingress
  /\ fs.components[Len(fs.components)].worker = fs.sink
  /\ \A k \in DOMAIN fs.components :
       fs.components[k].priority > 0 /\ layers_of(a, k) \cap t.inputs \cap t.outputs = {}

\* What the extraction raises GurobiSolutionError for.
placements_are_kept(request, fs) ==
  /\ request.ingress.fixed => fs.ingress = request.ingress.worker
  /\ request.sink.fixed => fs.sink = request.sink.worker
  /\ \A k \in DOMAIN fs.components :
       fs.components[k].worker \in request.relay => fs.components[k].layers = {}

-----------------------------------------------------------------------------
(* What the enricher tells the callers of a flow to send.                  *)

input_tensor_properties(t) ==
  UNION {e.tensors : e \in {d \in t.edges : d.source \in t.inputs}}

=============================================================================
