-------------------------- MODULE ExecutionProfiling --------------------------
(***************************************************************************)
(* DefaultModelExecutionProfiler and OrtModelExecutionProfiler: how a      *)
(* worker measures the layers of a model.                                  *)
(*                                                                         *)
(* ONNX Runtime runs the model WARMUP_ITERATIONS + PROFILE_ITERATIONS      *)
(* times and leaves a sequence of events [cat, layer, provider, dur, mem]: *)
(* an event of category "Node" that ends a layer names it and the provider *)
(* that ran it, other events have NoLayer; mem is NoMemory where the event *)
(* has no such argument.  Times are natural numbers, and a mean is a pair  *)
(* <<total, number of samples>>.  Invalid is the outcome of a raise.       *)
(***************************************************************************)
EXTENDS Integers, Sequences, SequencesExt

CONSTANTS WARMUP_ITERATIONS, PROFILE_ITERATIONS, NoLayer, NoMemory, Invalid

ASSUME IterationsAssumption ==
  WARMUP_ITERATIONS \in Nat /\ PROFILE_ITERATIONS \in Nat \ {0}

expected_samples == WARMUP_ITERATIONS + PROFILE_ITERATIONS

Primary(backend) ==
  CASE backend = "cpu" -> "CPUExecutionProvider"
    [] backend = "gpu" -> "CUDAExecutionProvider"

providers(backend) == {Primary(backend), "CPUExecutionProvider"}

node_layer_key_for_provider(e, provider) ==
  IF e.cat = "Node" /\ e.provider = provider THEN e.layer ELSE NoLayer

\* A defaultdict(list) of samples.
samples_of(samples, l) == IF l \in DOMAIN samples THEN samples[l] ELSE <<>>

append_sample(samples, l, x) ==
  [k \in DOMAIN samples \cup {l} |->
     IF k = l THEN Append(samples_of(samples, l), x) ELSE samples[k]]

-----------------------------------------------------------------------------
(* Durations.                                                              *)

\* Durations are numbers, none negative, and so is memory unless it is missing: the errors
\* raised for others are left out, here and in the definitions below.
cpu_durations(events) ==
  FoldLeft(LAMBDA samples, e :
             LET l == node_layer_key_for_provider(e, "CPUExecutionProvider") IN
             IF l = NoLayer THEN samples ELSE append_sample(samples, l, e.dur),
           <<>>, events)

append_current_sample(p) ==
  IF p.current = NoLayer THEN p.samples ELSE append_sample(p.samples, p.current, p.kernels)

\* Mutant of open_node: the kernels of the node before are kept.
open_node_on_kernels(p, e) ==
  [p EXCEPT !.samples = append_current_sample(p),
            !.current = node_layer_key_for_provider(e, "CUDAExecutionProvider")]

\* A node ends the kernels of the node before it.
open_node(p, e) ==
  [p EXCEPT !.samples = append_current_sample(p), !.kernels = 0,
            !.current = node_layer_key_for_provider(e, "CUDAExecutionProvider")]

gpu_step(p, e) ==
  LET opened == open_node(p, e)
      on_cpu == node_layer_key_for_provider(e, "CPUExecutionProvider")
  IN CASE e.cat = "Node" /\ opened.current # NoLayer -> [opened EXCEPT !.found_cuda_node = TRUE]
       [] e.cat = "Node" /\ opened.current = NoLayer /\ on_cpu # NoLayer ->
            [opened EXCEPT !.samples = append_sample(@, on_cpu, e.dur)]
       [] e.cat = "Node" /\ opened.current = NoLayer /\ on_cpu = NoLayer -> opened
       [] e.cat = "Kernel" /\ p.current # NoLayer ->
            [p EXCEPT !.kernels = @ + e.dur, !.found_kernel_event = TRUE]
       [] OTHER -> p

gpu_durations(events) ==
  LET start == [samples |-> <<>>, current |-> NoLayer, kernels |-> 0,
                found_cuda_node |-> FALSE, found_kernel_event |-> FALSE]
      last == FoldLeft(gpu_step, start, events)
  IN IF last.found_cuda_node /\ last.found_kernel_event THEN append_current_sample(last)
     ELSE Invalid

durations_by_layer(backend, events) ==
  IF backend = "cpu" THEN cpu_durations(events) ELSE gpu_durations(events)

-----------------------------------------------------------------------------
(* Memory, and the profile of a backend.                                   *)

memory_bytes_by_layer(backend, events) ==
  FoldLeft(LAMBDA samples, e :
             IF e.provider \notin providers(backend) THEN samples
             ELSE LET l == node_layer_key_for_provider(e, e.provider) IN
                  IF l = NoLayer THEN samples ELSE append_sample(samples, l, e.mem),
           <<>>, events)

measured(samples) == SubSeq(samples, WARMUP_ITERATIONS + 1, Len(samples))

layer_profile(durations, memory) ==
  LET times == measured(durations)
      available == Range(measured(memory)) \ {NoMemory}
  IN IF \/ Len(durations) # expected_samples \/ Len(memory) # expected_samples
        \/ available # {} /\ NoMemory \in Range(measured(memory))
     THEN Invalid
     ELSE [execution_time |-> <<FoldLeft(+, 0, times), Len(times)>>,
           memory |-> IF available = {} THEN NoMemory ELSE Max(available)]

parse_profile_events(backend, events) ==
  LET durations == durations_by_layer(backend, events)
      memory == memory_bytes_by_layer(backend, events)
  IN IF durations = Invalid THEN Invalid
     ELSE LET profile == [l \in DOMAIN durations |->
                            layer_profile(durations[l], samples_of(memory, l))]
          IN IF Invalid \in Range(profile) THEN Invalid ELSE profile

-----------------------------------------------------------------------------
\* Every shape on every backend; events[s][b] is what ONNX Runtime leaves.
profile_model_execution(shapes, backends, events) ==
  LET profile == [s \in shapes |-> [b \in backends |-> parse_profile_events(b, events[s][b])]]
  IN IF \E s \in shapes, b \in backends : profile[s][b] = Invalid THEN Invalid ELSE profile
=============================================================================
