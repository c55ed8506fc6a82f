--------------------------- MODULE StaticProfiles ---------------------------
(***************************************************************************)
(* The static profile of a model variant on its way from the model file to *)
(* the optimizer: what the model manager computes, the form in which the   *)
(* metadata store keeps it, and what workers and controller read there.    *)
(*                                                                         *)
(* The record of a model file (see ModelTopology) also has                 *)
(*   shape[x], a sequence of dimensions, and type_size[x], in bytes,       *)
(* for the tensors the file describes.  A dimension is a number or the     *)
(* name of one.  The registrant of a variant gives                         *)
(*   [inputs_info, dynamic_dimension_values]                               *)
(* with the shapes of the inputs and what their named dimensions may be.   *)
(* Sizes are in bytes throughout (the code's are in MiB).                  *)
(***************************************************************************)
EXTENDS ModelTopology, SequencesExt

Concrete(n) == [symbolic |-> FALSE, value |-> n]
Symbol(s) == [symbolic |-> TRUE, name |-> s]

symbols(shape) == {shape[k].name : k \in {j \in DOMAIN shape : shape[j].symbolic}}
positive(shape) == \A k \in DOMAIN shape : shape[k].symbolic \/ shape[k].value > 0

prod(shape) == FoldLeft(LAMBDA m, n : m * n, 1, shape)

-----------------------------------------------------------------------------
(* ModelVariantInfo and the shapes that are profiled.                      *)

\* Otherwise the registration is refused.
info_is_valid(info) ==
  /\ \A s \in DOMAIN info.dynamic_dimension_values :
       /\ info.dynamic_dimension_values[s] # {}
       /\ \A n \in info.dynamic_dimension_values[s] : n > 0
  /\ \A x \in DOMAIN info.inputs_info :
       /\ positive(info.inputs_info[x])
       /\ symbols(info.inputs_info[x]) \subseteq DOMAIN info.dynamic_dimension_values

bindings(values) ==
  {b \in [DOMAIN values -> UNION {values[s] : s \in DOMAIN values}] :
     \A s \in DOMAIN values : b[s] \in values[s]}

bind(shape, b) ==
  [k \in DOMAIN shape |-> IF shape[k].symbolic THEN b[shape[k].name] ELSE shape[k].value]

\* The profiles are kept by input shapes: bindings that only differ in a dimension
\* of no input are one configuration.
compute_input_shape_configurations(info) ==
  {[x \in DOMAIN info.inputs_info |-> bind(info.inputs_info[x], b)] :
     b \in bindings(info.dynamic_dimension_values)}

-----------------------------------------------------------------------------
(* onnx_tool infers the shapes of all tensors from those of the inputs.    *)

graph_inputs(g) == g.inputs \ g.initializers

known_as(g, input_shapes, s) ==
  {input_shapes[p[1]][p[2]] : p \in
     {q \in UNION {{x} \X DOMAIN g.shape[x] : x \in graph_inputs(g)} :
        g.shape[q[1]][q[2]] = Symbol(s)}}

shape_infer(g, input_shapes, x) ==
  bind(g.shape[x], [s \in symbols(g.shape[x]) |->
                      CHOOSE n \in known_as(g, input_shapes, s) : TRUE])

resolved(g, x) ==
  symbols(g.shape[x]) \subseteq UNION {symbols(g.shape[i]) : i \in graph_inputs(g)}

-----------------------------------------------------------------------------
(* OnnxInvariantPropertiesComputer and OnnxShapeProfileComputer.           *)

weight_properties(g, t, l) ==
  [x \in layer_weights(g, t, l) |-> [shape |-> g.shape[x], type_size |-> g.type_size[x]]]

tensor_properties(g, t) ==
  [x \in profiled_tensors(t) |->
     [shape_expression |-> g.shape[x], type_size |-> g.type_size[x]]]

bytes_of(g, t, input_shapes) ==
  [x \in profiled_tensors(t) |->
     prod(shape_infer(g, input_shapes, x)) * g.type_size[x]]

shape_profile(g, t, input_shapes) ==
  [tensors |-> [x \in profiled_tensors(t) |-> shape_infer(g, input_shapes, x)],
   max_cut |-> max_cut_size(t, bytes_of(g, t, input_shapes))]

\* What the computers raise for: a tensor of unknown type or shape, an input the
\* registrant does not describe, an empty weight, a cut of no size.
profilable(g, info) ==
  /\ output_is_reachable(g)
  /\ LET t == build_model_topology(g) IN
     /\ profiled_tensors(t) \cup g.initializers \subseteq DOMAIN g.shape
     /\ graph_inputs(g) \subseteq DOMAIN info.inputs_info
     /\ \A x \in profiled_tensors(t) : resolved(g, x)
     /\ \A l \in t.layers : \A x \in layer_weights(g, t, l) : positive(g.shape[x])
     /\ \A s \in compute_input_shape_configurations(info) :
          shape_profile(g, t, s).max_cut > 0

\* DefaultModelProfiler.  (The contractions, extract_contractions of the optimized
\* model, are passed on as they are.)
profile_model_variant(g, info) ==
  LET t == build_model_topology(g) IN
  [topology |-> t,
   layers |-> [l \in t.layers |-> weight_properties(g, t, l)],
   tensors |-> tensor_properties(g, t),
   variable |-> [s \in compute_input_shape_configurations(info) |-> shape_profile(g, t, s)]]

-----------------------------------------------------------------------------
(* ProfiledModelVariantMapper: the profile as the metadata store keeps it, *)
(* where edges and shape profiles are lists.                               *)

to_profiled_model_variant_dto(p) ==
  [layers |-> [l \in p.topology.layers |->
     [is_input |-> l \in p.topology.inputs, is_output |-> l \in p.topology.outputs]],
   edges |-> SetToSeq(p.topology.edges),
   layer_properties |-> p.layers,
   tensor_properties |-> p.tensors,
   variable_properties |->
     LET shapes == SetToSeq(DOMAIN p.variable) IN
     [i \in DOMAIN shapes |->
        [input_shapes |-> shapes[i], tensors |-> p.variable[shapes[i]].tensors,
         max_cut |-> p.variable[shapes[i]].max_cut]]]

topology_of(dto) ==
  [layers |-> DOMAIN dto.layers,
   inputs |-> {l \in DOMAIN dto.layers : dto.layers[l].is_input},
   outputs |-> {l \in DOMAIN dto.layers : dto.layers[l].is_output},
   edges |-> Range(dto.edges)]

input_shape_configurations(dto) ==
  [i \in DOMAIN dto.variable_properties |-> dto.variable_properties[i].input_shapes]

\* Otherwise the model manager raises when it reads the profile again.
shapes_are_distinct(dto) == IsInjective(input_shape_configurations(dto))

from_profiled_model_variant_dto(dto) ==
  [topology |-> topology_of(dto),
   layers |-> dto.layer_properties,
   tensors |-> dto.tensor_properties,
   variable |->
     [s \in Range(input_shape_configurations(dto)) |->
        LET v == CHOOSE v \in Range(dto.variable_properties) : v.input_shapes = s
        IN [tensors |-> v.tensors, max_cut |-> v.max_cut]]]

\* What a worker reads of it, to measure the model under every one of the shapes.
model_static_profile_from_dto(dto) ==
  [input_shape_configurations |-> input_shape_configurations(dto)]

-----------------------------------------------------------------------------
(* ModelVariantStaticProfileMapper: what the controller reads of it.       *)

\* ModelVariantTopology and WeightProperty raise otherwise.
readable(dto) ==
  /\ \A e \in Range(dto.edges) : {e.source, e.target} \subseteq DOMAIN dto.layers
  /\ IsInjective([i \in DOMAIN dto.edges |-> <<dto.edges[i].source, dto.edges[i].target>>])
  /\ \A e \in Range(dto.edges) :
       e.source \notin get_reachable_from_layer(topology_of(dto), e.target)
  /\ \A l \in DOMAIN dto.layer_properties : \A x \in DOMAIN dto.layer_properties[l] :
       symbols(dto.layer_properties[l][x].shape) = {}

model_variant_static_profile_from_dto(dto, task, accuracies) ==
  [task |-> task, accuracies |-> accuracies,
   topology |-> topology_of(dto),
   layers |-> [l \in DOMAIN dto.layer_properties |->
     [x \in DOMAIN dto.layer_properties[l] |->
        [shape |-> bind(dto.layer_properties[l][x].shape, <<>>),
         type_size |-> dto.layer_properties[l][x].type_size]]],
   tensors |-> dto.tensor_properties,
   shape_profiles |-> dto.variable_properties]

-----------------------------------------------------------------------------
(* gurobi_profile_data: what the optimizer takes from a static profile.    *)

fixed_shape_profile(profile) == profile.shape_profiles[1]

\* One shape, whose inputs agree on the batch; otherwise the solver raises.
optimizable(profile) ==
  /\ Len(profile.shape_profiles) = 1
  /\ LET shapes == Range(fixed_shape_profile(profile).input_shapes) IN
     /\ shapes # {} /\ <<>> \notin shapes
     /\ Cardinality({shape[1] : shape \in shapes}) = 1

batch_size(profile) ==
  (CHOOSE shape \in Range(fixed_shape_profile(profile).input_shapes) : TRUE)[1]

tensor_size_bytes(profile, x) ==
  prod(fixed_shape_profile(profile).tensors[x]) * profile.tensors[x].type_size

\* Mutant of layer_weight_size_bytes: weights are counted, not measured.
layer_weight_count(profile, l) == Cardinality(DOMAIN profile.layers[l])

layer_weight_size_bytes(profile, l) ==
  MapThenSumSet(LAMBDA x : prod(profile.layers[l][x].shape) * profile.layers[l][x].type_size,
                DOMAIN profile.layers[l])

optimizer_model(profile) ==
  [task |-> profile.task, accuracies |-> profile.accuracies,
   topology |-> profile.topology, batch_size |-> batch_size(profile),
   weight |-> [l \in profile.topology.layers |-> layer_weight_size_bytes(profile, l)],
   size |-> [x \in DOMAIN profile.tensors |-> tensor_size_bytes(profile, x)],
   max_cut |-> fixed_shape_profile(profile).max_cut]

-----------------------------------------------------------------------------
(* The execution profile of a worker for one variant is a sequence of      *)
(* [input_shapes, backend_profiles], and the latter one of [backend, time],*)
(* time being a function of layers.                                        *)

model_execution_profile_to_dto(w, v, profile) ==
  [worker_id |-> w, model_variant_id |-> v, shape_execution_profiles |-> profile]

under_shapes(profile, dto) ==
  {s \in Range(dto.shape_execution_profiles) :
     s.input_shapes = fixed_shape_profile(profile).input_shapes}

of_backend(profile, dto, backend) ==
  UNION {{b \in Range(s.backend_profiles) : b.backend = backend} :
           s \in under_shapes(profile, dto)}

\* Layers measured under the fixed shapes on the worker's own backend, and the
\* boundary layers, which take no time.
layer_execution_times(profile, dto, backend) ==
  LET measured == of_backend(profile, dto, backend)
      ends == profile.topology.inputs \cup profile.topology.outputs
      time == IF measured = {} THEN <<>> ELSE (CHOOSE b \in measured : TRUE).time
  IN [l \in DOMAIN time \cup ends |-> IF l \in ends THEN 0 ELSE time[l]]
=============================================================================
