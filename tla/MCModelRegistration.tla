------------------------- MODULE MCModelRegistration -------------------------
(***************************************************************************)
(* ModelRegistration with loads of two bundles of a variant, which share a *)
(* file, and workers that measure it on both backends.                     *)
(***************************************************************************)
EXTENDS ModelRegistration

Bundle(files, of) == [files |-> files, entrypoint |-> "model.onnx", of |-> of]

MCBundles == {Bundle(<<"model.onnx">>, "b1"), Bundle(<<"model.onnx", "weights">>, "b2")}
MCModelOf == [v \in Variants |-> CHOOSE m \in Models : TRUE]
MCLayerSets == {{"conv"}}
MCShapes == [v \in Variants |-> {"small"}]
MCBackendsOf == [w \in Workers |-> {"cpu", "gpu"}]

ASSUME ManifestsAreValid ==
  /\ \A b \in Bundles : valid_manifest(b)
  /\ valid_manifest(partition_bundle({"conv"}, start_download("ref")))

-----------------------------------------------------------------------------
(* What ONNX Runtime leaves of a session.  Layers run in a fixed order,    *)
(* and kernels[l] is how many kernels layer l starts on a GPU, where a     *)
(* layer with none runs on the CPU.  The events of a run depend on it.     *)

Order == <<"conv", "shape", "relu">>

Node(l, provider, dur, mem) ==
  [cat |-> "Node", layer |-> l, provider |-> provider, dur |-> dur, mem |-> mem]
Other(cat, dur) ==
  [cat |-> cat, layer |-> NoLayer, provider |-> "none", dur |-> dur, mem |-> NoMemory]

Duration(i, run) == 2 * i + run
Memory(i, run) == 10 * i + (run % 2)
KernelTime(i, run, n) == 3 * i + run + n

LayerEvents(backend, kernels, i, run) ==
  LET l == Order[i] IN
  IF backend = "cpu" \/ kernels[l] = 0
  THEN <<Node(l, "CPUExecutionProvider", Duration(i, run), Memory(i, run))>>
  ELSE <<Node(l, "CUDAExecutionProvider", 1, Memory(i, run))>>
         \o [n \in 1 .. kernels[l] |-> Other("Kernel", KernelTime(i, run, n))]

RunEvents(backend, kernels, run) ==
  FlattenSeq([i \in 1 .. Len(Order) |->
                <<Node(NoLayer, Primary(backend), 0, NoMemory)>>
                  \o LayerEvents(backend, kernels, i, run)])
    \o <<Other("Session", 100)>>

SessionEvents(backend, kernels) ==
  FlattenSeq([run \in 1 .. expected_samples |-> RunEvents(backend, kernels, run)])

MeasuredRuns == WARMUP_ITERATIONS + 1 .. expected_samples

KernelTimes(i, run, kernels) == [n \in 1 .. kernels |-> KernelTime(i, run, n)]

TimeOf(backend, kernels, i, run) ==
  IF backend = "cpu" \/ kernels[Order[i]] = 0 THEN Duration(i, run)
  ELSE LET time == KernelTimes(i, run, kernels[Order[i]])
       IN MapThenSumSet(LAMBDA n : time[n], DOMAIN time)

Place(l) == CHOOSE n \in DOMAIN Order : Order[n] = l

ExpectedProfile(backend, kernels) ==
  [l \in Range(Order) |->
     LET i == Place(l)
         time == [run \in MeasuredRuns |-> TimeOf(backend, kernels, i, run)]
     IN
     [execution_time |-> <<MapThenSumSet(LAMBDA run : time[run], MeasuredRuns),
                           PROFILE_ITERATIONS>>,
      memory |-> Max({Memory(i, run) : run \in MeasuredRuns})]]

MCKernels == [conv |-> 2, shape |-> 0, relu |-> 1]
MCEvents ==
  [w \in Workers |-> [v \in Variants |-> [s \in MCShapes[v] |->
     [b \in MCBackendsOf[w] |-> SessionEvents(b, MCKernels)]]]]

\* Whatever layers a GPU runs and however many kernels they start; a profile of
\* nothing that ran there is refused.
SessionsAreMeasured ==
  \A kernels \in [Range(Order) -> 0 .. 2] :
    /\ parse_profile_events("cpu", SessionEvents("cpu", kernels)) = ExpectedProfile("cpu", kernels)
    /\ parse_profile_events("gpu", SessionEvents("gpu", kernels)) =
         IF Range(kernels) = {0} THEN Invalid ELSE ExpectedProfile("gpu", kernels)

\* A session that lacks an event of a layer, or the memory of one, is refused.
ASSUME IncompleteSessionsAreRefused ==
  \A b \in {"cpu", "gpu"} :
    LET events == SessionEvents(b, MCKernels) IN
    \A n \in {k \in DOMAIN events : events[k].layer # NoLayer} :
      /\ parse_profile_events(b, RemoveAt(events, n)) = Invalid
      /\ n > Len(RunEvents(b, MCKernels, 1)) =>
           parse_profile_events(b, [events EXCEPT ![n].mem = NoMemory]) = Invalid

\* What is none of the things it is compared with, and whose sessions are profiled.
ASSUME MarksAssumption ==
  /\ NoLayer \notin Range(Order) /\ NoMemory \notin Nat
  /\ Invalid \notin [Range(Order) -> Seq(Nat)]
  /\ Invalid \notin [execution_time : Nat \X Nat, memory : Nat]

ASSUME SessionsAssumption ==
  \A w \in Workers : \A v \in Variants : \A b \in BackendsOf[w] :
    /\ b \in {"cpu", "gpu"}
    /\ \A s \in Shapes[v] : Events[w][v][s][b] = SessionEvents(b, MCKernels)

Expected == [b \in {"cpu", "gpu"} |-> ExpectedProfile(b, MCKernels)]

\* The execution profile a worker publishes gives every layer, for every shape on
\* every backend, the mean time of that layer's own events in the runs that count,
\* kernel by kernel on a GPU, and the most memory it used; so would that of any other
\* way to divide the layers between GPU and CPU.
ProfilesMeasureTheirLayers ==
  /\ SessionsAreMeasured
  /\ \A w \in Workers : \A v \in profiled_ids(w) : \A s \in Shapes[v] : \A b \in BackendsOf[w] :
       executions[w][v][s][b] = Expected[b]
=============================================================================
