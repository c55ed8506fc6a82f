--------------------------- MODULE ModelTopology ---------------------------
(***************************************************************************)
(* DefaultModelProfiler: what the model manager makes of a model file, and *)
(* the cutting of partitions out of it.                                    *)
(*                                                                         *)
(* A model file is read as one record                                      *)
(*   [nodes, inputs, outputs, initializers]                                *)
(* nodes maps the names of its nodes to [inputs, outputs]; inputs, outputs *)
(* and initializers are the tensors the file lists under these names.      *)
(* Names that are empty or missing stand for nothing and are not in the    *)
(* sets.                                                                   *)
(*                                                                         *)
(* A topology is [layers, inputs, outputs, edges], an edge being           *)
(* [source, target, tensors].                                              *)
(***************************************************************************)
EXTENDS Integers, FiniteSets, Sequences, FiniteSetsExt

INPUT_LAYER_NAME == "InputLayer"
OUTPUT_LAYER_NAME == "OutputLayer"

-----------------------------------------------------------------------------
(* ModelVariantTopology.                                                   *)

TensorsOf(edges) == UNION {e.tensors : e \in edges}

get_layer_out_edges(t, l) == {e \in t.edges : e.source = l}

get_reachable_from_layer(t, l) ==
  LET within[n \in 0 .. Cardinality(t.layers)] ==
        IF n = 0 THEN {l}
        ELSE within[n - 1]
               \cup {e.target : e \in {d \in t.edges : d.source \in within[n - 1]}}
  IN within[Cardinality(t.layers)]

remove_layers_from_iterable(t, removed) ==
  [t EXCEPT !.layers = @ \ removed,
            !.edges = {e \in @ : {e.source, e.target} \cap removed = {}}]

find_tensor_producers(t, x) == {e.source : e \in {d \in t.edges : x \in d.tensors}}
find_tensor_consumer_set(t, x) == {e.target : e \in {d \in t.edges : x \in d.tensors}}

\* What enters and leaves a set of layers.
extract_incoming(t, layers) ==
  TensorsOf({e \in t.edges : e.target \in layers /\ e.source \notin layers})
extract_outgoing(t, layers) ==
  TensorsOf({e \in t.edges : e.source \in layers /\ e.target \notin layers})

-----------------------------------------------------------------------------
(* OnnxModelTopologyBuilder.                                               *)

find_layer_inputs(g, l) ==
  CASE l = INPUT_LAYER_NAME -> {}
    [] l = OUTPUT_LAYER_NAME -> g.outputs
    [] OTHER -> g.nodes[l].inputs \ g.initializers

find_layer_outputs(g, l) ==
  CASE l = INPUT_LAYER_NAME -> g.inputs \ g.initializers
    [] l = OUTPUT_LAYER_NAME -> {}
    [] OTHER -> g.nodes[l].outputs

add_topology_nodes(g) == {INPUT_LAYER_NAME, OUTPUT_LAYER_NAME} \cup DOMAIN g.nodes

add_topology_edges(g, layers) ==
  {[source |-> p[1], target |-> p[2],
    tensors |-> find_layer_outputs(g, p[1]) \cap find_layer_inputs(g, p[2])] :
     p \in {q \in layers \X layers :
              /\ q[1] # q[2]
              /\ find_layer_outputs(g, q[1]) \cap find_layer_inputs(g, q[2]) # {}}}

unreachable_layers(t) == t.layers \ get_reachable_from_layer(t, INPUT_LAYER_NAME)

\* Mutant of clear_topology: nothing is removed.
clear_nothing(t) == t

\* Nodes that only depend on weights are no layers.
clear_topology(t) == remove_layers_from_iterable(t, unreachable_layers(t))

whole_topology(g) ==
  [layers |-> add_topology_nodes(g),
   inputs |-> {INPUT_LAYER_NAME}, outputs |-> {OUTPUT_LAYER_NAME},
   edges |-> add_topology_edges(g, add_topology_nodes(g))]

\* Otherwise the builder raises.
output_is_reachable(g) == OUTPUT_LAYER_NAME \notin unreachable_layers(whole_topology(g))

build_model_topology(g) == clear_topology(whole_topology(g))

-----------------------------------------------------------------------------
(* What OnnxInvariantPropertiesComputer and OnnxShapeProfileComputer look  *)
(* at.                                                                     *)

\* A weight that several layers read counts for each of them.
layer_weights(g, t, l) ==
  IF l \in t.inputs \cup t.outputs THEN {}
  ELSE g.nodes[l].inputs \cap g.initializers

profiled_tensors(t) == TensorsOf(UNION {get_layer_out_edges(t, l) : l \in t.layers})

-----------------------------------------------------------------------------
(* PulpMaxCutSizeComputer.  y holds the layers before the cut; a tensor    *)
(* crosses it when its producer is before and one of its consumers after.  *)

cuts_of(t) ==
  {y \in SUBSET t.layers : \A e \in t.edges : e.target \in y => e.source \in y}

\* Mutant of crosses: the tensor is gone when its first reader has it.
crosses_until_read(t, y, x) ==
  /\ find_tensor_producers(t, x) \subseteq y
  /\ find_tensor_consumer_set(t, x) \cap y = {}

crosses(t, y, x) ==
  /\ find_tensor_producers(t, x) \subseteq y
  /\ \E l \in find_tensor_consumer_set(t, x) : l \notin y

\* (When the solver ends without an optimum, the sum of all sizes, which is no
\* smaller, is taken instead.)
max_cut_size(t, size) ==
  Max({MapThenSumSet(LAMBDA x : size[x], {x \in DOMAIN size : crosses(t, y, x)}) :
         y \in cuts_of(t)})

-----------------------------------------------------------------------------
(* OnnxContractionComputer: which layers a node of the optimized model     *)
(* stands for.                                                             *)

\* ONNX Runtime replaces a set of nodes by one that reads and writes what the
\* set did; a weight stays a weight.
fuse(g, group, name) ==
  LET reads == UNION {g.nodes[n].inputs : n \in group}
      writes == UNION {g.nodes[n].outputs : n \in group}
      needed == g.outputs \cup UNION {g.nodes[n].inputs : n \in DOMAIN g.nodes \ group}
      node == [inputs |-> reads \ writes, outputs |-> writes \cap needed]
  IN [g EXCEPT !.nodes =
        [n \in (DOMAIN g.nodes \ group) \cup {name} |->
           IF n = name THEN node ELSE g.nodes[n]]]

\* From the producers of the outputs back to the inputs.
contracted_layers(t, inputs, outputs) ==
  LET producers == UNION {find_tensor_producers(t, x) : x \in outputs}
      before(layers) ==
        {e.source : e \in {d \in t.edges :
                             d.target \in layers /\ d.tensors \ inputs # {}}}
      back[n \in 0 .. Cardinality(t.layers)] ==
        IF n = 0 THEN producers ELSE back[n - 1] \cup before(back[n - 1])
  IN back[Cardinality(t.layers)]

infer_contracted_group(t, inputs, outputs) ==
  LET layers == contracted_layers(t, inputs, outputs) IN
  IF /\ outputs # {}
     /\ \A x \in outputs : find_tensor_producers(t, x) # {}
     /\ layers \cap (t.inputs \cup t.outputs) = {}
     /\ extract_incoming(t, layers) = inputs
     /\ extract_outgoing(t, layers) = outputs
  THEN layers ELSE {}

extract_contractions(optimized, t) ==
  {group \in {infer_contracted_group(t, extract_incoming(optimized, {l}),
                                        extract_outgoing(optimized, {l})) :
                l \in optimized.layers \ (optimized.inputs \cup optimized.outputs)} :
     Cardinality(group) >= 2}

-----------------------------------------------------------------------------
(* OnnxModelPartitionExtractor.  The extraction of a model by the names of *)
(* its inputs and outputs is onnx's.                                       *)

\* onnx.utils.extract_model: the nodes the outputs depend on, up to the inputs.
extract_model(g, inputs, outputs) ==
  LET makers(xs) ==
        {n \in DOMAIN g.nodes : g.nodes[n].outputs \cap (xs \ inputs) # {}}
      back[k \in 0 .. Cardinality(DOMAIN g.nodes)] ==
        IF k = 0 THEN makers(outputs)
        ELSE back[k - 1] \cup makers(UNION {g.nodes[n].inputs : n \in back[k - 1]})
      kept == back[Cardinality(DOMAIN g.nodes)]
  IN [nodes |-> [n \in kept |-> g.nodes[n]], inputs |-> inputs, outputs |-> outputs,
      initializers |-> g.initializers]

\* Otherwise the extractor raises.
extractable(t, layers) ==
  /\ layers # {}
  /\ extract_incoming(t, layers) # {}
  /\ extract_outgoing(t, layers) # {}

extract_model_partition(g, t, layers) ==
  extract_model(g, extract_incoming(t, layers), extract_outgoing(t, layers))
=============================================================================
