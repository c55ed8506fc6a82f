--------------------------- MODULE MCPlanActuation ---------------------------
(***************************************************************************)
(* PlanActuation with the plans PlanBuilding makes of a few solutions for  *)
(* two workers: one model variant of two layers.                           *)
(***************************************************************************)
EXTENDS PlanActuation, Functions

CONSTANTS MCSolutions

Building == INSTANCE PlanBuilding

Component(w, layers, inputs, outputs) ==
  [worker |-> w, layers |-> layers, inputs |-> inputs, outputs |-> outputs,
   backend |-> "cpu", priority |-> 1]

\* A flow whose two layers run on workers v and w, or on one worker at once.
Split(flow, v, w) ==
  [flow |-> flow, variant |-> "A", ingress |-> v, sink |-> w,
   components |->
     <<Component(v, {1}, {"in"}, {"mid"}), Component(w, {2}, {"mid"}, {"out"})>>,
   cuts |-> <<{"mid"}>>]

Whole(flow, w) ==
  [flow |-> flow, variant |-> "A", ingress |-> w, sink |-> w,
   components |-> <<Component(w, {1, 2}, {"in"}, {"out"})>>,
   cuts |-> <<>>]

\* Something executes on both sides of a component that changes the tensors.
Broken(flow, w) ==
  [Split(flow, w, w) EXCEPT
     !.components = <<@[1], [@[1] EXCEPT !.layers = {}], @[2]>>,
     !.cuts = <<{"mid"}, {"in"}>>]

SolutionOf ==
  [split    |-> <<Split("f1", "w1", "w2")>>,
   swapped  |-> <<Split("f1", "w2", "w1"), Whole("f2", "w2")>>,
   here     |-> <<Whole("f1", "w1")>>,
   there    |-> <<Whole("f1", "w2")>>,
   broken   |-> <<Broken("f1", "w1")>>]

-----------------------------------------------------------------------------
(* What PlanBuilding makes of them, with the hops named.                   *)

Partition(layers) ==
  [kind |-> "partition", of |-> [variant |-> "A", layers |-> layers],
   replica_idx |-> 0]
Endpoint(kind, n) ==
  [kind |-> kind, of |-> [variant |-> "A", layers |-> {}], replica_idx |-> n]

HopNamed ==
  [front |-> Partition({1}), back |-> Partition({2}),
   whole |-> Partition({1, 2}),
   in0 |-> Endpoint("ingress", 0), out0 |-> Endpoint("sink", 0),
   in1 |-> Endpoint("ingress", 1), out1 |-> Endpoint("sink", 1)]

Part(executable, endpoints) ==
  [executable_hops |-> executable, endpoint_hops |-> endpoints]

AllPlans ==
  [split   |-> [w1 |-> Part(<<"front">>, {"in0"}),
                w2 |-> Part(<<"back">>, {"out0"})],
   swapped |-> [w2 |-> Part(<<"front", "whole">>, {"in0", "in1", "out1"}),
                w1 |-> Part(<<"back">>, {"out0"})],
   here    |-> [w1 |-> Part(<<"whole">>, {"in0", "out0"})],
   there   |-> [w2 |-> Part(<<"whole">>, {"in0", "out0"})],
   broken  |-> [w1 |-> Part(<<"front", "back">>, {"in0", "out0"})]]

AllFlows ==
  [split |-> {"f1"}, swapped |-> {"f1", "f2"}, here |-> {"f1"},
   there |-> {"f1"}, broken |-> {"f1"}]

Named(hops) == {HopNamed[h] : h \in hops}

ASSUME PlansAreBuilt ==
  \A s \in DOMAIN SolutionOf :
    LET built == Building!worker_plans(SolutionOf[s]) IN
    /\ DOMAIN AllPlans[s] = DOMAIN built
    /\ \A w \in DOMAIN built :
         /\ Named(Range(AllPlans[s][w].executable_hops))
              = Range(built[w].executable_hops)
         /\ Named(AllPlans[s][w].endpoint_hops) = Range(built[w].endpoint_hops)
    /\ AllFlows[s] = {SolutionOf[s][k].flow : k \in DOMAIN SolutionOf[s]}
    /\ Building!convertible(SolutionOf[s]) <=> s # "broken"

\* Parts of two solutions are equal exactly when the plans are, routes included.
ASSUME PartsAreDistinguished ==
  \A s, t \in DOMAIN SolutionOf \ {"broken"} :
    LET a == Building!worker_plans(SolutionOf[s])
        b == Building!worker_plans(SolutionOf[t])
    IN \A w \in DOMAIN a \cap DOMAIN b :
         Range(a[w].routings) = Range(b[w].routings)
           <=> AllPlans[s][w] = AllPlans[t][w]

MCHops == DOMAIN HopNamed
MCConvertible == MCSolutions \ {"broken"}
=============================================================================
