--------------------------- MODULE MCPlanBuilding ---------------------------
(***************************************************************************)
(* From model files and requests to plans: the files are profiled and cut, *)
(* every solution the optimizer may answer for up to MaxFlows flows over   *)
(* three workers, and the plans made of it, as the workers read them and   *)
(* pass requests by them.  Flows are added one at a time: the constraints  *)
(* of a flow are its own, and the memory, processors and links the flows   *)
(* share only fill up, so that every answer for several flows is reached   *)
(* over answers for fewer.                                                 *)
(*                                                                         *)
(* Of the two models one has an input that two layers read, a tensor that  *)
(* is read on the way and returned as well, so that tensors skip           *)
(* components, and a node that only makes a constant; in the other two     *)
(* layers read a tensor side by side, and it is run in batches of two.     *)
(***************************************************************************)
EXTENDS HopExecution, ResponseTimes, StaticProfiles, TLC

CONSTANTS Workers, MaxFlows

ASSUME MaxFlowsAssumption == MaxFlows \in Nat

Symmetry == Permutations(Workers)

\* 50%: four bins up to a utilization of 75%.
MCRelativeError == <<1, 2>>

VARIABLES network, requests, answers, timings, solution, plans
vars == <<network, requests, answers, timings, solution, plans>>

Node(inputs, outputs) == [inputs |-> inputs, outputs |-> outputs]

Graph(nodes, inputs, outputs, initializers) ==
  [nodes |-> nodes, inputs |-> inputs, outputs |-> outputs,
   initializers |-> initializers]

\* All tensors of a model have one shape and type, and so have its weights.
Described(g, tensor, weight, type_size) ==
  LET tensors == g.inputs \cup g.initializers
                   \cup UNION {g.nodes[n].outputs : n \in DOMAIN g.nodes}
  IN g @@ [shape |-> [x \in tensors |-> IF x \in g.initializers THEN weight ELSE tensor],
           type_size |-> [x \in tensors |-> type_size]]

\* The node k only makes a constant, and is no layer.
Skipping ==
  Described(Graph([k |-> Node({}, {"c"}),
                   a |-> Node({"x", "wa"}, {"y"}),
                   b |-> Node({"x", "y", "c", "wb"}, {"z"})],
                  {"x"}, {"y", "z"}, {"wa", "wb"}),
            <<Concrete(1), Concrete(1)>>, <<Concrete(1)>>, 2)

Branching ==
  Described(Graph([a |-> Node({"x", "wa"}, {"y"}), b |-> Node({"y", "wb"}, {"u"}),
                   c |-> Node({"y", "wc"}, {"v"})],
                  {"x"}, {"u", "v"}, {"wa", "wb", "wc"}),
            <<Symbol("batch"), Concrete(1)>>, <<Concrete(2), Concrete(1)>>, 1)

Files == [skipping |-> Skipping, branching |-> Branching]

\* What is registered with the files; no input has the dimension "beam".
Info(v, batches) ==
  [inputs_info |-> [x \in {"x"} |-> Files[v].shape["x"]],
   dynamic_dimension_values |-> [batch |-> batches, beam |-> {1, 4}]]

Accuracy(value) == {[type |-> "accuracy", dataset |-> "d", value |-> value]}
Accuracies == [skipping |-> Accuracy(70), branching |-> Accuracy(90)]

Stored(v, batches) ==
  to_profiled_model_variant_dto(profile_model_variant(Files[v], Info(v, batches)))

ReadByController(dto, v) ==
  model_variant_static_profile_from_dto(dto, "detect", Accuracies[v])

StoredProfiles == [v \in DOMAIN Files |-> Stored(v, {2})]
StaticProfileOf == [v \in DOMAIN Files |-> ReadByController(StoredProfiles[v], v)]

Model(profile) ==
  LET m == optimizer_model(profile) IN
  [field \in DOMAIN m \cup {"tensor_routes"} |->
     IF field = "tensor_routes" THEN tensor_routes(profile.topology) ELSE m[field]]
Models == [v \in DOMAIN Files |-> Model(StaticProfileOf[v])]

\* Either all workers are connected and have every layer profiled, or they are
\* connected over a hub, from which the way to one of them was not measured, and
\* that one has no graphics card and lacks the profile of a layer.  The memory
\* holds three layers and the largest cut.
Everywhere == {p \in Workers \X Workers : p[1] # p[2]}
ByHub(hub, other) ==
  {p \in Everywhere : hub \in {p[1], p[2]}} \ {<<hub, other>>}

Networks ==
  {[connections |-> Everywhere, hubs |-> {}, lacking |-> {}]}
    \cup {[connections |-> ByHub(p[1], p[2]), hubs |-> {p[1]}, lacking |-> {p[2]}] :
             p \in Everywhere}

\* What a worker has measured: every shape on every backend it has.
Executed(t) == t.layers \ boundary(t)
BackendProfile(layers, backend) ==
  [backend |-> backend,
   time |-> [l \in layers |-> (IF backend = "cpu" THEN 2 ELSE 1)
                                * (IF l = "c" THEN 2 ELSE 1)]]
ProfiledBackends(v, layers, lacking) ==
  IF lacking
  THEN <<BackendProfile(IF v = "branching" THEN layers \ {"b"} ELSE layers, "cpu")>>
  ELSE <<BackendProfile(layers, "cpu"), BackendProfile(layers, "gpu")>>
ExecutionProfile(w, v, dto, lacking) ==
  LET shapes == model_static_profile_from_dto(dto).input_shape_configurations IN
  model_execution_profile_to_dto(w, v,
    [i \in DOMAIN shapes |->
       [input_shapes |-> shapes[i],
        backend_profiles |-> ProfiledBackends(v, Executed(topology_of(dto)), lacking)]])

BackendOf(lacking) == IF lacking THEN "cpu" ELSE "gpu"
ProvidersOf(lacking) ==
  {"CPUExecutionProvider"} \cup (IF lacking THEN {} ELSE {"CUDAExecutionProvider"})

TimesOf ==
  [w \in Workers |-> [lacking \in BOOLEAN |->
     [v \in DOMAIN Files |->
        layer_execution_times(StaticProfileOf[v],
                              ExecutionProfile(w, v, StoredProfiles[v], lacking),
                              BackendOf(lacking))]]]

Context(n, models, times) ==
  LET measured(w) == times[w][(w \in n.lacking)]
      profiled(w) == UNION {{v} \X DOMAIN measured(w)[v] : v \in DOMAIN Files}
  IN [workers |-> Workers, connections |-> n.connections, models |-> models,
      memory |-> [w \in Workers |-> 10],
      bandwidth |-> [p \in Everywhere |-> IF p[1] \in n.hubs THEN 2 ELSE 4],
      round_trip_time |-> [p \in Everywhere |-> 1],
      time |-> [w \in Workers |-> [p \in profiled(w) |-> measured(w)[p[1]][p[2]]]],
      profiled |-> [w \in Workers |-> profiled(w)]]

ContextOf == [n \in Networks |-> Context(n, Models, TimesOf)]
context == ContextOf[network]

\* A caller leaves the placement open, enters at its own worker, or uses it for
\* both ends without letting it compute.
Request(ingress, sink, relay, accuracy) ==
  [task |-> "detect", ingress |-> ingress, sink |-> sink, relay |-> relay,
   arrival_rate |-> IF accuracy > 70 THEN 2 ELSE 1,
   min_model_performance |->
     [type |-> "accuracy", dataset |-> "d", value |-> accuracy]]

Requests ==
  {Request(AnyPlacement, AnyPlacement, {}, 80)}
    \cup {Request(FixedPlacement(w), AnyPlacement, {}, 60) : w \in Workers}
    \cup {Request(FixedPlacement(w), FixedPlacement(w), {w}, 60) : w \in Workers}

WellCut == Assignments(Models, Workers)
Admissible ==
  [n \in Networks |->
     [r \in Requests |-> {a \in WellCut : placeable(ContextOf[n], r, a)}]]

\* The requests of one arrival rate have the same times.
AtRate(rate) == {r \in Requests : r.arrival_rate = rate}
Timing ==
  [n \in Networks |->
     [rate \in {r.arrival_rate : r \in Requests} |->
        [a \in UNION {Admissible[n][r] : r \in AtRate(rate)} |->
           timing(ContextOf[n], CHOOSE r \in AtRate(rate) : TRUE, a)]]]

MaxQueueWait ==
  [n \in Networks |->
     [rs \in UNION {[1 .. f -> Requests] : f \in 1 .. MaxFlows} |->
        [w \in Workers |-> max_queue_wait(ContextOf[n], rs, w)]]]

\* What is extracted from an answer does not depend on the other flows.
Extracted == [a \in WellCut |-> extract_flow(Models, 1, a)]

Init ==
  /\ network \in Networks
  /\ requests = <<>> /\ answers = <<>> /\ timings = <<>> /\ solution = <<>>
  /\ plans = <<>>

\* The optimizer's answer for one flow more.
AddFlow ==
  /\ plans = <<>>
  /\ Len(answers) < MaxFlows
  /\ \E r \in Requests : \E a \in Admissible[network][r] :
       /\ requests' = Append(requests, r)
       /\ answers' = Append(answers, a)
       /\ timings' = Append(timings, Timing[network][r.arrival_rate][a])
       /\ feasible(context, answers')
       /\ stable(context, answers', timings')
       /\ solution' = Append(solution,
                            [Extracted[a] EXCEPT !.flow = Len(solution) + 1])
  /\ UNCHANGED <<network, plans>>

\* The flow whose number is given before the others, or (0) all alike.
ByFlow(first) ==
  [s \in UNION {{f} \X components(answers[f]) : f \in DOMAIN answers} |->
     IF /\ first # 0 /\ s[1] # first
        /\ \E k \in components(answers[first]) :
             answers[first].worker_of[k] = answers[s[1]].worker_of[s[2]]
     THEN 2 ELSE 1]

\* The solution with the priorities the first flow goes before the others by.
Solved ==
  extract_execution([w \in Workers |-> BackendOf(w \in network.lacking)], ByFlow(1), solution)

\* The conversion of the solution, unless it raises.
Convert ==
  /\ plans = <<>> /\ solution # <<>>
  /\ convertible(Solved)
  /\ plans' = worker_plans(Solved)
  /\ UNCHANGED <<network, requests, answers, timings, solution>>

Next == AddFlow \/ Convert

Spec == Init /\ [][Next]_vars

-----------------------------------------------------------------------------
Slots(w) == DOMAIN plans[w].hop_addresses
Placed == UNION {{w} \X Slots(w) : w \in DOMAIN plans}
HopOf(p) == plans[p[1]].hop_addresses[p[2]].hop
AddressOf(p) == plans[p[1]].hop_addresses[p[2]]
RoutingsOf(p) == plans[p[1]].routings[p[2]]
Topology(k) == Models[solution[k].variant].topology

\* What the controller sends to a worker, and what the worker reads.
Sent == [w \in DOMAIN plans |-> build_worker_plan(plans[w])]
ReadPlans == [w \in DOMAIN plans |-> worker_plan_from_dto(to_worker_plan_dto(Sent[w]))]

\* Of a plan version a hop is deployed once in the whole system, so that the
\* catalog's entry for it, written by every worker on its own, names one address.
HopsAreDeployedOnce == \A p, q \in Placed : HopOf(p) = HopOf(q) => p = q

\* Plans are well formed: neither the controller nor a worker rejects one, because
\* hops, partitions or priority keys occur twice in it or its parts disagree; what
\* the worker looks up for a hop, position by position, is the priority and the
\* backend the solution has for it, on which the worker can run it; and a hop is
\* deployed once.
PlansAreWellFormed ==
  /\ \A w \in DOMAIN plans :
       LET sent == Sent[w] IN
       /\ worker_plan_is_valid(sent)
       /\ worker_accepts(to_worker_plan_dto(sent))
       /\ LET read == worker_plan_from_dto(to_worker_plan_dto(sent)) IN
          \A s \in DOMAIN plans[w].executable_hops :
            LET component == Solved[s[1]].components[s[2]]
                allocation == get_allocation(read, plans[w].executable_hops[s])
            IN /\ get_priority_by_key(read, plans[w].hop_addresses[s])
                    = component.priority
               /\ allocation.use_gpu <=> component.backend = "gpu"
               /\ session_is_built(ProvidersOf(w \in network.lacking), allocation)
  /\ HopsAreDeployedOnce

\* What a hop sends is what the hop it sends to waits for: to every output
\* routing on one worker belongs the input routing of the same tensors at the
\* worker of its destination, and every input routing but an ingress's is sent.
\* (A hop whose expected tensors never all arrive is never invoked.)
RoutesMeet ==
  /\ \A p \in Placed : \A out \in RoutingsOf(p).output :
       \E q \in Placed :
         /\ AddressOf(q) = out.destination
         /\ RoutingsOf(q).input =
              [source |-> AddressOf(p), tensors |-> out.tensors]
  /\ \A q \in Placed :
       RoutingsOf(q).input.source.hop = ExternalHop
         \/ \E p \in Placed :
              /\ AddressOf(p) = RoutingsOf(q).input.source
              /\ \E out \in RoutingsOf(p).output :
                   out.destination = AddressOf(q)

PartitionFile(hop) ==
  extract_model_partition(Files[hop.of.variant], Models[hop.of.variant].topology,
                          hop.of.layers)
FileOf(hop) == IF hop.kind = "partition" THEN PartitionFile(hop) ELSE <<>>

\* What comes of a contribution where its destination is hosted, if every hop has
\* one source (RoutesMeet).
Invocation(read, c) ==
  LET at == c.destination IN
  {invoke(read[w], at, FileOf(at.hop), {c}) :
     w \in {v \in DOMAIN read : at.hop \in planned_hops(read[v])
                             /\ invocable(read[v], at, FileOf(at.hop), {c})}}

\* The contributions in flight after n rounds of a model pass, and what the sinks
\* have kept by then.
ModelPassAfter(read, first, n) ==
  LET pass[m \in 0 .. n] ==
        IF m = 0 THEN [sent |-> {first}, kept |-> {}]
        ELSE LET before == pass[m - 1]
                 invoked == UNION {Invocation(read, c) : c \in before.sent}
             IN [sent |-> UNION {i.sent : i \in invoked},
                 kept |-> before.kept \cup
                   {i.payload : i \in {j \in invoked : j.at.hop.kind = "sink"}}]
  IN pass[n]

\* What a caller is told to send goes to the ingress of its flow's plan.
CallersRequest(fp) ==
  [source |-> [flow |-> fp.flow, hop |-> ExternalHop],
   destination |-> [flow |-> fp.flow, hop |-> fp.ingress],
   bundle |-> [x \in input_tensor_properties(Models[fp.variant].topology) |->
                 [caller |-> x]]]

\* A request sent to the ingress of a flow plan is answered by what the whole model
\* computes of it: passed from hop to hop over the plans the workers have read and
\* run by the partition files they have fetched, whatever other flows share
\* workers, models and partitions with it, it ends once, in the sink of the flow
\* plan, with every result of the model as the one file would compute it.
RequestsPassTheWholeModel ==
  plans # <<>> =>
    LET read == ReadPlans IN
    \A k \in DOMAIN solution :
      LET fp == flow_plans(solution)[k]
          request == CallersRequest(fp)
          hops == Cardinality(executable_components(solution[k])) + 2
          arriving == ModelPassAfter(read, request, hops - 1).sent
          outcomes == ModelPassAfter(read, request, hops).kept
          model == Files[fp.variant]
      IN /\ flow_plan_is_valid(fp, DOMAIN request.bundle)
         /\ {c.destination : c \in arriving} = {[flow |-> fp.flow, hop |-> fp.sink]}
         /\ Cardinality(outcomes) = 1
         /\ \A outcome \in outcomes :
              filter(outcome, model.outputs) = run_session(model, request.bundle)

\* What the optimizer answers is accepted further on: the extraction finds the
\* endpoints and the relay where the request wants them, the solution it makes is
\* a valid one, and the conversion has something to execute and can take the
\* boundary components out.
AnswersAreAccepted ==
  \A k \in DOMAIN solution :
    /\ placements_are_kept(requests[k], solution[k])
    /\ flow_solution_is_valid(Topology(k), answers[k], Solved[k])
    /\ executable_components(solution[k]) # {}
    /\ collapsible(solution[k])

Received(p) == RoutingsOf(p).input.tensors
Made(p) ==
  IF HopOf(p).kind = "partition"
  THEN extract_outgoing(Topology(p[2][1]), HopOf(p).of.layers) ELSE {}

\* The context that later parts of a model need travels with the request: no
\* hop is asked to send a tensor that it neither received nor made, every
\* partition receives what its scheme names and, with it, all that the cut-out
\* model reads, the sink receives every result of the model, and the ingress
\* waits for exactly what the callers are told to send.
ContextIsCarried ==
  \A p \in Placed :
    LET t == Topology(p[2][1])
        hop == HopOf(p)
    IN
    /\ \A out \in RoutingsOf(p).output :
         out.tensors \subseteq Received(p) \cup Made(p)
    /\ hop.kind = "partition" =>
         LET scheme == CHOOSE s \in plans[p[1]].schemes : s.partition = hop.of
         IN /\ scheme.inputs \subseteq Received(p)
            /\ extract_incoming(t, hop.of.layers) \subseteq scheme.inputs
    /\ hop.kind = "sink" =>
         UNION {e.tensors : e \in {d \in t.edges : d.target \in t.outputs}}
           \subseteq Received(p)
    /\ hop.kind = "ingress" => Received(p) = input_tensor_properties(t)

\* A hop only sends within its worker or over a connection that was measured,
\* also where boundary components between two hops are taken out.
RoutesFollowConnections ==
  \A p \in Placed : \A out \in RoutingsOf(p).output : \A q \in Placed :
    AddressOf(q) = out.destination =>
      p[1] = q[1] \/ <<p[1], q[1]>> \in context.connections

\* What all flows deploy on a worker fits its memory, together with the largest
\* set of tensors that one of the deployed models ever holds at a time.
Bytes(v, x) == Files[v].type_size[x] * prod(bind(Files[v].shape[x], [batch |-> 2]))

DeploymentsFitTheWorkers ==
  \A w \in DOMAIN plans :
    LET deployed == {plans[w].executable_hops[s] : s \in DOMAIN plans[w].executable_hops}
        weight(hop) ==
          MapThenSumSet(LAMBDA x : Bytes(hop.of.variant, x),
            UNION {Files[hop.of.variant].nodes[l].inputs
                     \cap Files[hop.of.variant].initializers : l \in hop.of.layers})
        held(hop) ==
          LET t == Models[hop.of.variant].topology IN
          max_cut_size(t, [x \in profiled_tensors(t) |-> Bytes(hop.of.variant, x)])
    IN MapThenSumSet(weight, deployed) + Max({0} \cup {held(hop) : hop \in deployed})
         <= context.memory[w]

\* The partition files the workers fetch compute the model: each can be cut out,
\* holds exactly the layers it is named for and the constants they read, reads
\* nothing but its inputs and weights from elsewhere, and makes its outputs; what
\* the layers of a flow's partitions write includes every output of the file.
Written(g) == UNION {g.nodes[n].outputs : n \in DOMAIN g.nodes}
ReadBy(g) == UNION {g.nodes[n].inputs : n \in DOMAIN g.nodes}

PartitionsComputeTheModel ==
  /\ \A p \in {q \in Placed : HopOf(q).kind = "partition"} :
       LET hop == HopOf(p)
           layers == Models[hop.of.variant].topology.layers
           file == PartitionFile(hop)
       IN /\ extractable(Models[hop.of.variant].topology, hop.of.layers)
          /\ DOMAIN file.nodes \cap layers = hop.of.layers
          /\ ReadBy(file) \subseteq file.inputs \cup file.initializers \cup Written(file)
          /\ file.outputs \subseteq Written(file)
          /\ file.inputs \cap Written(file) = {}
  /\ plans # <<>> => \A k \in DOMAIN solution :
       Files[solution[k].variant].outputs \subseteq
         UNION {Written(PartitionFile(HopOf(p))) :
                  p \in {q \in Placed : q[2][1] = k /\ HopOf(q).kind = "partition"}}

\* The waiting time in an M/G/1 queue with priorities, and the response time of a
\* link that transmissions share, at the utilization there really is.
ExactWait(r, w, p) ==
  Over(second_moment(answers, timings, w),
       Times(<<2, 1>>, Times(Minus(One, higher_priority_rho(answers, timings, r, w, p)),
                             Minus(One, higher_equal_priority_rho(answers, timings, r, w, p)))))
ExactTransmission(s) ==
  Over(timings[s[1]].transmission[s[2]],
       Minus(One, network_utilization(answers, timings, answers[s[1]].worker_of[s[2]])))

ExactResponse(r, f) ==
  LET a == answers[f] IN
  Plus(timings[f].batch_fill,
       Plus(Total([k \in components(a) |->
                     Plus(timings[f].execution[k], ExactWait(r, a.worker_of[k], r[<<f, k>>]))]),
            Total([k \in CutsOf(a) |->
                     Plus(ExactTransmission(<<f, k>>), timings[f].latency[k])])))

Close(exact, promised) ==
  /\ Leq(exact, promised)
  /\ Leq(promised, Times(growth_factor, exact))

\* The optimizer takes the utilization for the upper limit of a bin, so that its
\* constraints are convex.  No wait or response time that satisfies its constraints is
\* shorter than the formulas give, and the least ones, which an optimal answer has
\* where the objective counts them, are not longer than the configured relative error
\* allows, whatever the priorities are.
ResponsesAreNotUnderestimated ==
  plans = <<>> /\ answers # <<>> =>
    /\ \A w \in Workers : \A r \in rankings(components_on(answers, w)) :
         \A p \in 1 .. PriorityCount :
           Close(ExactWait(r, w, p), queue_wait(answers, timings, r, w, p))
    /\ \A f \in DOMAIN answers : \A first \in {0} \cup DOMAIN answers :
         Close(ExactResponse(ByFlow(first), f),
               response_time(context, requests, answers, timings, ByFlow(first), f))

\* The constants that the problem bounds its variables with, and that relax the
\* constraints of what is not selected, exclude no stable answer: no cut transmits
\* more than the profiled largest one, and no queue waits longer than the bounds
\* for its worker, priority and bin.
BoundsCutNothingOff ==
  plans = <<>> /\ answers # <<>> =>
    /\ LET f == Len(answers) IN \A k \in CutsOf(answers[f]) :
         /\ transmitted_data_size(context, answers[f], k)
              <= context.models[answers[f].variant].max_cut
         /\ Leq(timings[f].transmission[k],
                nominal_upper(context, requests[f], answers[f].worker_of[k]))
    /\ \A w \in Workers :
         LET worst == MaxQueueWait[network][requests][w] IN
         \A r \in rankings(components_on(answers, w)) : \A p \in 1 .. PriorityCount :
           LET wait == queue_wait(answers, timings, r, w, p) IN
           /\ Leq(wait, queue_wait_bound(worst, answers, timings, r, w, p))
           /\ Leq(wait, worst)

-----------------------------------------------------------------------------
(* Contractions depend on a file alone, and are checked for every file of  *)
(* three layers: whatever set of layers the optimizer of ONNX Runtime      *)
(* replaces by one, if no way leads out of it and back, is found again,    *)
(* and nothing else.                                                       *)

SmallFiles ==
  {Graph([p |-> Node({"x"}, {"a"}), q |-> Node(q, {"b"}), r |-> Node(r, {"c"})],
         {"x"}, out, {}) :
     q \in SUBSET {"x", "a"} \ {{}}, r \in SUBSET {"x", "a", "b"} \ {{}},
     out \in SUBSET {"a", "b", "c"}}

EveryLayerCounts(t) ==
  \A l \in t.layers : OUTPUT_LAYER_NAME \in get_reachable_from_layer(t, l)

Groups(t) ==
  {group \in SUBSET (t.layers \ boundary(t)) :
     /\ Cardinality(group) >= 2
     /\ \A l \in t.layers \ group :
          \/ \A a \in group : l \notin get_reachable_from_layer(t, a)
          \/ get_reachable_from_layer(t, l) \cap group = {}}

ASSUME ContractionsAreFound ==
  \A g \in SmallFiles :
    LET t == build_model_topology(g) IN
    EveryLayerCounts(t) =>
      \A group \in Groups(t) :
        extract_contractions(build_model_topology(fuse(g, group, "fused")), t) = {group}

(* What model files are taken to be: no node has the name of a boundary    *)
(* layer, nodes are listed after those whose tensors they read, no tensor  *)
(* is made twice, what is read comes from somewhere, the results are made  *)
(* by layers, and every layer counts. These are; their profiles keep the   *)
(* topology.                                                               *)

IsModelFile(g) ==
  /\ IsFiniteSet(DOMAIN g.nodes)
  /\ INPUT_LAYER_NAME \notin DOMAIN g.nodes /\ OUTPUT_LAYER_NAME \notin DOMAIN g.nodes
  /\ \E place \in [DOMAIN g.nodes -> 1 .. Cardinality(DOMAIN g.nodes)] :
       \A m, n \in DOMAIN g.nodes :
         g.nodes[m].outputs \cap g.nodes[n].inputs # {} => place[m] < place[n]
  /\ \A m, n \in DOMAIN g.nodes : g.nodes[m].outputs \cap g.nodes[n].outputs # {} => m = n
  /\ \A n \in DOMAIN g.nodes :
       /\ g.nodes[n].outputs \cap (g.inputs \cup g.initializers) = {}
       /\ g.nodes[n].inputs \subseteq g.inputs \cup g.initializers \cup Written(g)
  /\ LET t == build_model_topology(g) IN
     /\ EveryLayerCounts(t)
     /\ \A x \in g.outputs : \E l \in t.layers \ boundary(t) : x \in g.nodes[l].outputs

ASSUME FilesAreModels ==
  /\ \A v \in DOMAIN Files :
       IsModelFile(Files[v]) /\ Models[v].topology = build_model_topology(Files[v])
  /\ \A g \in SmallFiles : EveryLayerCounts(build_model_topology(g)) => IsModelFile(g)

(* So do static profiles depend on files alone: what the model manager     *)
(* registers it can read again, and the controller can read and optimize   *)
(* it, if every named dimension of the inputs may only be one.             *)

ASSUME ProfilesAreKept ==
  \A v \in DOMAIN Files :
    LET dto == Stored(v, {2}) IN
    /\ info_is_valid(Info(v, {2})) /\ profilable(Files[v], Info(v, {2}))
    /\ shapes_are_distinct(dto)
    /\ from_profiled_model_variant_dto(dto)
         = profile_model_variant(Files[v], Info(v, {2}))
    /\ readable(dto) /\ optimizable(StaticProfileOf[v])

(* A file describes finitely many tensors, by dimensions that are numbers  *)
(* or the batch.                                                           *)

Dimensions ==
  [symbolic : {FALSE}, value : Nat] \cup [symbolic : {TRUE}, name : {"batch"}]

IsDescribed(g) ==
  /\ IsFiniteSet(g.inputs) /\ IsFiniteSet(g.initializers)
  /\ \A n \in DOMAIN g.nodes : IsFiniteSet(g.nodes[n].outputs)
  /\ g.inputs \subseteq DOMAIN g.shape
  /\ \A x \in DOMAIN g.shape : g.shape[x] \in Seq(Dimensions) /\ g.type_size[x] \in Nat

ASSUME FilesAreDescribed ==
  \A v \in DOMAIN Files : IsDescribed(Files[v]) /\ graph_inputs(Files[v]) = {"x"}

\* A variant registered for several batch sizes is profiled, stored and read, but
\* makes the optimizer raise, for every request.
ASSUME SeveralShapesAreRefused ==
  LET info == Info("branching", {1, 2}) dto == Stored("branching", {1, 2}) IN
  /\ info_is_valid(info) /\ profilable(Files["branching"], info) /\ readable(dto)
  /\ ~ optimizable(ReadByController(dto, "branching"))

\* A solution of the optimizer can be turned into plans.
SolutionsAreConvertible == convertible(solution)
=============================================================================
