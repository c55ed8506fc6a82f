-------------------------- MODULE ModelRegistration --------------------------
(***************************************************************************)
(* How a model variant gets into the system: DefaultModelLoader of the     *)
(* front end, DefaultModelManager with its metadata in Redis and its       *)
(* artifacts in S3, the partitions it cuts for the controller, and the     *)
(* loop in which every worker profiles the variants it has not profiled.   *)
(*                                                                         *)
(*   loads[l]       a call of load_model_variant: start, upload, finalize  *)
(*   calls[l]       the manager's handler of its finalize request, which   *)
(*                  goes on when the caller has given up                   *)
(*   builds[c]      a call of generate_model_variant_partition             *)
(*   pending        _pending_model_variants, lost when the manager         *)
(*                  restarts (what it holds follows from the variant's id) *)
(*   models, profiles[v], partitions                                       *)
(*                  the manager's metadata: registered models, what each   *)
(*                  variant's profile was computed from (or Absent), and   *)
(*                  the declared <<variant, layers>>                       *)
(*   objects        the objects in S3, see ArtifactStore                   *)
(*   rounds[w]      the profiling loop of worker w                         *)
(*   executions[w]  the execution profiles it published, by variant        *)
(*   newest[v]      the load of v that was started last (or NoLoad)        *)
(*   overlapped     the variants two loads of which ran at the same time   *)
(*                                                                         *)
(* The last two are only there to state properties with.  An artifact is   *)
(* named by what it is of.  Loads are numbered as they start.  MaxFaults  *)
(* bounds the failures (of a request, a transfer, a session) and restarts. *)
(***************************************************************************)
EXTENDS ArtifactStore, ExecutionProfiling

CONSTANTS
  Variants, Models,
  ModelOf,        \* ModelOf[v]: the model v is a variant of
  Bundles,        \* the bundles that are loaded
  MaxLoads, Builds,  \* the calls
  LayerSets,      \* the sets of layers partitions are asked of
  Workers,
  Shapes,         \* Shapes[v]: its input_shape_configurations
  BackendsOf,     \* BackendsOf[w]
  Events,         \* Events[w][v][shape][backend]
  Absent, MaxFaults

ASSUME RegistrationAssumption ==
  /\ ModelOf \in [Variants -> Models]
  /\ \A b \in Bundles : /\ b.files \in Seq(Range(b.files)) /\ b.files # <<>>
                        /\ MANIFEST_FILE_NAME \notin Range(b.files)
  /\ {} \notin LayerSets
  /\ Absent \notin Seq({b.of : b \in Bundles})
  /\ MaxLoads \in Nat /\ MaxFaults \in Nat

Loads == 1 .. MaxLoads
NoLoad == 0

VARIABLES models, pending, profiles, partitions, objects,
          loads, calls, builds, rounds, executions,
          newest, overlapped, faults

managerVars == <<models, pending, profiles, partitions>>
workerVars == <<rounds, executions>>
historyVars == <<newest, overlapped>>
vars == <<managerVars, objects, loads, calls, builds, workerVars, historyVars, faults>>

\* build_artifact_ref
variant_ref(v) == <<v, {}>>
partition_ref(v, layers) == <<v, layers>>

\* extract_model_partition, of a downloaded variant.
partition_bundle(layers, d) ==
  [files |-> <<"split_model.onnx">>, entrypoint |-> "split_model.onnx",
   of |-> <<layers, d.got>>]

NewLoad == [step |-> "new"]
NoCall == [step |-> "none"]
Sleeping == [step |-> "sleep", left |-> {}]

Init ==
  /\ models = {} /\ pending = {} /\ partitions = {} /\ objects = <<>>
  /\ profiles = [v \in Variants |-> Absent]
  /\ loads = [l \in Loads |-> NewLoad]
  /\ calls = [l \in Loads |-> NoCall]
  /\ builds = [c \in Builds |-> NoCall]
  /\ rounds = [w \in Workers |-> Sleeping]
  /\ executions = [w \in Workers |-> <<>>]
  /\ newest = [v \in Variants |-> NoLoad] /\ overlapped = {}
  /\ faults = 0

Declared(v) == profiles[v] # Absent

-----------------------------------------------------------------------------
(* The front end.                                                          *)

RegisterModel(m) ==
  /\ m \notin models
  /\ models' = models \cup {m}
  /\ UNCHANGED <<pending, profiles, partitions, objects, loads, calls, builds,
                 workerVars, historyVars, faults>>

Ended(l) == loads[l].step \in {"new", "ok", "failed"} /\ calls[l].step = "none"

StartModelVariantRegistration(l, v, b) ==
  /\ loads[l].step = "new"
  /\ \A k \in 1 .. l - 1 : loads[k].step # "new"
  /\ pending' = pending \cup {v}
  /\ loads' = [loads EXCEPT ![l] =
                 [step |-> "upload", variant |-> v, bundle |-> b, sent |-> 0]]
  /\ newest' = [newest EXCEPT ![v] = l]
  /\ overlapped' = IF \A k \in Loads : Ended(k) \/ loads[k].variant # v
                   THEN overlapped ELSE overlapped \cup {v}
  /\ UNCHANGED <<models, profiles, partitions, objects, calls, builds, workerVars, faults>>

UploadModelArtifact(l) ==
  LET load == loads[l] IN
  /\ load.step = "upload"
  /\ objects' = upload_file(objects, variant_ref(load.variant), load.bundle, load.sent)
  /\ loads' = [loads EXCEPT
       ![l].sent = @ + 1,
       ![l].step = IF upload_is_over(load.bundle, load.sent + 1) THEN "finalize" ELSE @]
  /\ UNCHANGED <<managerVars, calls, builds, workerVars, historyVars, faults>>

\* Mutant of get_pending: a registration that was not started is taken for one
\* that is over.
get_pending_or_over(l, v) ==
  IF v \in pending
  THEN /\ calls' = [calls EXCEPT ![l] = [step |-> "model"]]
       /\ loads' = [loads EXCEPT ![l].step = "waiting"]
  ELSE /\ calls' = calls
       /\ loads' = [loads EXCEPT ![l].step = "ok"]

get_pending(l, v) ==
  IF v \in pending
  THEN /\ calls' = [calls EXCEPT ![l] = [step |-> "model"]]
       /\ loads' = [loads EXCEPT ![l].step = "waiting"]
  ELSE /\ calls' = calls
       /\ loads' = [loads EXCEPT ![l].step = "failed"]

FinalizeModelVariantRegistration(l) ==
  /\ loads[l].step = "finalize"
  /\ get_pending(l, loads[l].variant)
  /\ UNCHANGED <<managerVars, objects, builds, workerVars, historyVars, faults>>

Fault == faults < MaxFaults /\ faults' = faults + 1

\* An error of any step, or a timeout, of which the manager knows nothing.
LoadFails(l) ==
  /\ loads[l].step \in {"upload", "finalize", "waiting"}
  /\ Fault
  /\ loads' = [loads EXCEPT ![l].step = "failed"]
  /\ UNCHANGED <<managerVars, objects, calls, builds, workerVars, historyVars>>

-----------------------------------------------------------------------------
(* The manager: finalize_model_variant_registration.                       *)

\* The reply, which nobody may wait for any more.
reply(l, outcome) ==
  /\ calls' = [calls EXCEPT ![l] = NoCall]
  /\ loads' = [loads EXCEPT ![l].step = IF @ = "waiting" THEN outcome ELSE @]

GetModel(l) ==
  /\ calls[l].step = "model"
  /\ IF ModelOf[loads[l].variant] \in models
     THEN /\ calls' = [calls EXCEPT ![l] =
               [step |-> "download", d |-> start_download(variant_ref(loads[l].variant))]]
          /\ loads' = loads
     ELSE reply(l, "failed")
  /\ UNCHANGED <<managerVars, objects, builds, workerVars, historyVars, faults>>

DownloadVariant(l) ==
  /\ calls[l].step = "download"
  /\ ~download_is_over(calls[l].d)
  /\ is_stored(objects, calls[l].d)
  /\ calls' = [calls EXCEPT ![l].d = download_file(objects, @)]
  /\ UNCHANGED <<managerVars, objects, loads, builds, workerVars, historyVars, faults>>

AddProfiledModelVariant(l) ==
  /\ calls[l].step = "download"
  /\ download_is_over(calls[l].d)
  /\ profiles' = [profiles EXCEPT ![loads[l].variant] = calls[l].d.got]
  /\ calls' = [calls EXCEPT ![l] = [step |-> "pop"]]
  /\ UNCHANGED <<models, pending, partitions, objects, loads, builds, workerVars,
                 historyVars, faults>>

PopPending(l) ==
  /\ calls[l].step = "pop"
  /\ pending' = pending \ {loads[l].variant}
  /\ reply(l, "ok")
  /\ UNCHANGED <<models, profiles, partitions, objects, builds, workerVars, historyVars,
                 faults>>

FinalizeFails(l) ==
  /\ calls[l].step \in {"model", "download"}
  /\ Fault
  /\ reply(l, "failed")
  /\ UNCHANGED <<managerVars, objects, builds, workerVars, historyVars>>

-----------------------------------------------------------------------------
(* The manager: generate_model_variant_partition.                          *)

GenerateModelPartition(c, v, layers) ==
  /\ builds[c].step = "none"
  /\ Declared(v)
  /\ builds' = [builds EXCEPT ![c] =
       [step |-> "download", variant |-> v, layers |-> layers, sent |-> 0,
        d |-> start_download(variant_ref(v))]]
  /\ UNCHANGED <<managerVars, objects, loads, calls, workerVars, historyVars, faults>>

DownloadForPartition(c) ==
  /\ builds[c].step = "download"
  /\ ~download_is_over(builds[c].d)
  /\ is_stored(objects, builds[c].d)
  /\ builds' = [builds EXCEPT ![c].d = download_file(objects, @)]
  /\ UNCHANGED <<managerVars, objects, loads, calls, workerVars, historyVars, faults>>

UploadPartition(c) ==
  LET b == builds[c]
      bundle == partition_bundle(b.layers, b.d)
  IN
  /\ b.step = "download" /\ download_is_over(b.d)
  /\ ~upload_is_over(bundle, b.sent)
  /\ objects' = upload_file(objects, partition_ref(b.variant, b.layers), bundle, b.sent)
  /\ builds' = [builds EXCEPT ![c].sent = @ + 1]
  /\ UNCHANGED <<managerVars, loads, calls, workerVars, historyVars, faults>>

AddModelPartition(c) ==
  LET b == builds[c] IN
  /\ b.step = "download" /\ download_is_over(b.d)
  /\ upload_is_over(partition_bundle(b.layers, b.d), b.sent)
  /\ partitions' = partitions \cup {<<b.variant, b.layers>>}
  /\ builds' = [builds EXCEPT ![c] = NoCall]
  /\ UNCHANGED <<models, pending, profiles, objects, loads, calls, workerVars, historyVars,
                 faults>>

BuildFails(c) ==
  /\ builds[c].step = "download"
  /\ Fault
  /\ builds' = [builds EXCEPT ![c] = NoCall]
  /\ UNCHANGED <<managerVars, objects, loads, calls, workerVars, historyVars>>

ManagerRestarts ==
  /\ Fault
  /\ pending' = {}
  /\ calls' = [l \in Loads |-> NoCall]
  /\ builds' = [c \in Builds |-> NoCall]
  /\ loads' = [l \in Loads |->
                 IF loads[l].step = "waiting" THEN [loads[l] EXCEPT !.step = "failed"]
                 ELSE loads[l]]
  /\ UNCHANGED <<models, profiles, partitions, objects, workerVars, historyVars>>

-----------------------------------------------------------------------------
(* A worker: DefaultPendingModelsPoller and                                *)
(* DefaultModelExecutionProfilingCoordinator.                              *)

available_ids == {v \in Variants : Declared(v)}
profiled_ids(w) == DOMAIN executions[w]

\* A round begins; one without pending models changes nothing.
Poll(w) ==
  /\ rounds[w].step = "sleep"
  /\ rounds' = [rounds EXCEPT ![w].left = available_ids \ profiled_ids(w),
                              ![w].step = IF available_ids \subseteq profiled_ids(w)
                                          THEN @ ELSE "next"]
  /\ UNCHANGED <<managerVars, objects, loads, calls, builds, executions, historyVars, faults>>

\* The next one of the round, unless it has a profile by now; then the static
\* profile is read, which names the artifact.
NextPendingModel(w, v) ==
  /\ rounds[w].step = "next" /\ v \in rounds[w].left
  /\ rounds' = [rounds EXCEPT ![w] =
       IF v \in profiled_ids(w) THEN [step |-> "next", left |-> @.left \ {v}]
       ELSE [step |-> "download", left |-> @.left \ {v}, variant |-> v,
             d |-> start_download(variant_ref(v))]]
  /\ UNCHANGED <<managerVars, objects, loads, calls, builds, executions, historyVars, faults>>

RoundEnds(w) ==
  /\ rounds[w].step = "next" /\ rounds[w].left = {}
  /\ rounds' = [rounds EXCEPT ![w] = Sleeping]
  /\ UNCHANGED <<managerVars, objects, loads, calls, builds, executions, historyVars, faults>>

DownloadForProfiling(w) ==
  /\ rounds[w].step = "download"
  /\ ~download_is_over(rounds[w].d)
  /\ is_stored(objects, rounds[w].d)
  /\ rounds' = [rounds EXCEPT ![w].d = download_file(objects, @)]
  /\ UNCHANGED <<managerVars, objects, loads, calls, builds, executions, historyVars, faults>>

model_execution_profile ==
  [w \in Workers |-> [v \in Variants |->
     profile_model_execution(Shapes[v], BackendsOf[w], Events[w][v])]]

\* Mutant of proceed: what fails ends the loop.
end_loop(w) == [step |-> "ended", left |-> rounds[w].left]

proceed(w) == [step |-> "next", left |-> rounds[w].left]

PublishModelExecutionProfile(w) ==
  /\ rounds[w].step = "download"
  /\ download_is_over(rounds[w].d)
  /\ LET v == rounds[w].variant
         profile == model_execution_profile[w][v]
     IN executions' =
          IF profile = Invalid THEN executions
          ELSE [executions EXCEPT ![w] =
                  [u \in DOMAIN @ \cup {v} |-> IF u = v THEN profile ELSE @[u]]]
  /\ rounds' = [rounds EXCEPT ![w] = [step |-> "next", left |-> @.left]]
  /\ UNCHANGED <<managerVars, objects, loads, calls, builds, historyVars, faults>>

\* Whatever it was is logged: the model is pending in the next round too.
ProfilingFails(w) ==
  /\ rounds[w].step = "download"
  /\ Fault
  /\ rounds' = [rounds EXCEPT ![w] = proceed(w)]
  /\ UNCHANGED <<managerVars, objects, loads, calls, builds, executions, historyVars>>

\* With SERVICE_ID set: the new process is the same worker, whose executions are stored.
WorkerRestarts(w) ==
  /\ Fault
  /\ rounds' = [rounds EXCEPT ![w] = Sleeping]
  /\ UNCHANGED <<managerVars, objects, loads, calls, builds, executions, historyVars>>

-----------------------------------------------------------------------------
WorkerStep(w) ==
  \/ Poll(w) \/ RoundEnds(w) \/ DownloadForProfiling(w) \/ PublishModelExecutionProfile(w)
  \/ \E v \in Variants : NextPendingModel(w, v)

Next ==
  \/ \E m \in Models : RegisterModel(m)
  \/ \E l \in Loads, v \in Variants, b \in Bundles : StartModelVariantRegistration(l, v, b)
  \/ \E l \in Loads :
       \/ UploadModelArtifact(l) \/ FinalizeModelVariantRegistration(l) \/ LoadFails(l)
       \/ GetModel(l) \/ DownloadVariant(l) \/ AddProfiledModelVariant(l) \/ PopPending(l)
       \/ FinalizeFails(l)
  \/ \E c \in Builds, v \in Variants, layers \in LayerSets : GenerateModelPartition(c, v, layers)
  \/ \E c \in Builds :
       DownloadForPartition(c) \/ UploadPartition(c) \/ AddModelPartition(c) \/ BuildFails(c)
  \/ ManagerRestarts
  \/ \E w \in Workers : WorkerStep(w) \/ ProfilingFails(w) \/ WorkerRestarts(w)

Spec == Init /\ [][Next]_vars

\* A worker's loop goes on, whatever else happens.
FairSpec == Spec /\ \A w \in Workers : WF_vars(WorkerStep(w))

-----------------------------------------------------------------------------
Whole(ref) ==
  /\ check_artifact_existence(objects, ref)
  /\ \A file \in Range(objects[object_key(ref, MANIFEST_FILE_NAME)].files) : object_key(ref, file) \in DOMAIN objects

Downloads ==
  {calls[l].d : l \in {k \in Loads : calls[k].step = "download"}}
    \cup {builds[c].d : c \in {k \in Builds : builds[k].step = "download"}}
    \cup {rounds[w].d : w \in {k \in Workers : rounds[k].step = "download"}}

\* Artifacts can be fetched whenever they are known of: those of all declared
\* variants and partitions are whole, and a download that has begun finds every
\* file that is left of it, whatever is uploaded over it and wherever an upload
\* ended.
ArtifactsAreWhole ==
  /\ \A v \in available_ids : Whole(variant_ref(v))
  /\ \A p \in partitions : Whole(partition_ref(p[1], p[2]))
  /\ \A d \in Downloads : ~download_is_over(d) => is_stored(objects, d)

\* A load that its caller was told is over has declared its variant; and if the
\* loads of the variant came one after the other, the profile in Redis and the
\* artifact in S3 are those of the newest one's bundle, all of it.
LoadsTakeEffect ==
  \A l \in Loads : loads[l].step = "ok" =>
    LET v == loads[l].variant
        b == loads[l].bundle
    IN
    /\ Declared(v)
    /\ newest[v] = l /\ v \notin overlapped =>
         /\ objects[object_key(variant_ref(v), MANIFEST_FILE_NAME)] = b
         /\ profiles[v] = [i \in DOMAIN b.files |-> b.of]

\* Every worker profiles every declared variant in the end, also where that fails
\* at first or the worker restarts, and whatever is uploaded meanwhile.
VariantsAreProfiled ==
  \A v \in Variants, w \in Workers : Declared(v) ~> v \in profiled_ids(w)
=============================================================================
