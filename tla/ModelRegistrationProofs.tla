----------------------- MODULE ModelRegistrationProofs -----------------------
(***************************************************************************)
(* Theorems about ModelRegistration and its ArtifactStore, for any models, *)
(* variants, bundles, layer sets, workers, loads, partition builds and     *)
(* failures.                                                               *)
(*                                                                         *)
(* First what one step of an upload and of a download does.  Then what     *)
(* every action does to the load, the call, the build or the round it is a *)
(* step of.  The invariant Inv rests on three facts: an upload stores what *)
(* a manifest names before the manifest (Sent), nothing is ever removed    *)
(* (Grows), and so who holds a manifest finds its files (IsDownload).      *)
(*                                                                         *)
(* What a load achieves is about two loads of one variant: OneAtATime says *)
(* that a load that runs, of a variant no two loads of which overlapped,   *)
(* is the newest one, and EffectInv that nobody else then touches what it  *)
(* uploads and declares.                                                   *)
(*                                                                         *)
(* What a worker publishes is about the parsers of ExecutionProfiling,     *)
(* which are folds over the events of a session.  Leads says where a fold  *)
(* over some events takes its state.  SamplesAfter is what a parser has    *)
(* collected after a layer of a run: SessionStep carries it from layer to  *)
(* layer, and SessionLeads to the end of the session.                      *)
(***************************************************************************)
EXTENDS MCModelRegistration, OperatorProofs

\* The key of the manifest of an artifact, keys in the store, and what files hold.
Manifest(ref) == object_key(ref, MANIFEST_FILE_NAME)
Stored(key) == key \in DOMAIN objects
Contents == {b.of : b \in Bundles}

\* What a load, a call, a build and a round can be.
LoadTypes ==
  {NewLoad} \cup
  [step : {"upload", "finalize", "waiting", "ok", "failed"},
   variant : Variants, bundle : Bundles, sent : Nat]

IsCall(x) ==
  \/ x \in {NoCall, [step |-> "model"], [step |-> "pop"]}
  \/ x = [step |-> "download", d |-> x.d]

IsBuild(x) ==
  \/ x = NoCall
  \/ /\ x = [step |-> "download", variant |-> x.variant, layers |-> x.layers,
             sent |-> x.sent, d |-> x.d]
     /\ x.variant \in Variants /\ x.layers \in LayerSets /\ x.sent \in Nat

IsRound(x) ==
  /\ x.left \subseteq Variants
  /\ \/ x = [step |-> "sleep", left |-> x.left]
     \/ x = [step |-> "next", left |-> x.left]
     \/ /\ x = [step |-> "download", left |-> x.left, variant |-> x.variant, d |-> x.d]
        /\ x.variant \in Variants

\* Every variable but those no property here is about has its type.
TypeInv ==
  /\ pending \subseteq Variants
  /\ profiles = [v \in Variants |-> profiles[v]]
  /\ loads \in [Loads -> LoadTypes]
  /\ calls = [l \in Loads |-> calls[l]] /\ \A l \in Loads : IsCall(calls[l])
  /\ builds = [c \in Builds |-> builds[c]] /\ \A c \in Builds : IsBuild(builds[c])
  /\ rounds = [w \in Workers |-> rounds[w]] /\ \A w \in Workers : IsRound(rounds[w])
  /\ newest \in [Variants -> Loads \cup {NoLoad}]
  /\ overlapped \subseteq Variants

\* The first n objects of an upload of bundle b are in the store.
Sent(ref, b, n) ==
  /\ n <= Len(b.files) + 1
  /\ \A i \in 1 .. n : Stored(object_key(ref, upload_order(b)[i]))

\* A download of variant v, which is stored, as far as it got.
IsDownload(v, d) ==
  /\ d = [ref |-> variant_ref(v), manifest |-> d.manifest, got |-> d.got]
  /\ Stored(Manifest(variant_ref(v)))
  /\ d.got \in Seq(Contents)
  /\ IF manifest_is_read(d)
     THEN /\ d.manifest \in Bundles
          /\ Len(d.got) <= Len(d.manifest.files)
          /\ \A file \in Range(d.manifest.files) :
               Stored(object_key(variant_ref(v), file))
     ELSE d.got = <<>>

\* What a manifest names is in the store, and under the name of a variant are
\* files of the bundles loaded.
StoreInv ==
  /\ \A v \in Variants : \A key \in DOMAIN objects :
       key[1] = variant_ref(v) => objects[key] \in Bundles
  /\ \A v \in Variants :
       /\ Stored(Manifest(variant_ref(v))) => Whole(variant_ref(v))
       /\ \A layers \in LayerSets :
            Stored(Manifest(partition_ref(v, layers))) => Whole(partition_ref(v, layers))

\* A partition is declared when its manifest is stored.
PartitionsInv ==
  \A p \in partitions : /\ p[1] \in Variants /\ p[2] \in LayerSets
                        /\ Stored(Manifest(partition_ref(p[1], p[2])))

\* The upload of load l is over, and the manager may have been asked to finalize it.
Known(l) == loads[l].step \in {"finalize", "waiting", "ok"} \/ calls[l].step # "none"

\* A load uploads its bundle in order; its call is made when all of it is stored, and
\* ends with its variant declared if the load is reported as over.
LoadInv(l) ==
  /\ loads[l].step = "upload" =>
       /\ Sent(variant_ref(loads[l].variant), loads[l].bundle, loads[l].sent)
       /\ loads[l].sent <= Len(loads[l].bundle.files)
       /\ calls[l].step = "none"
  /\ loads[l].step \in {"new", "finalize", "ok"} => calls[l].step = "none"
  /\ Known(l) => /\ loads[l].step # "new"
                 /\ loads[l].sent = Len(loads[l].bundle.files) + 1
                 /\ Stored(Manifest(variant_ref(loads[l].variant)))
  /\ calls[l].step = "download" => IsDownload(loads[l].variant, calls[l].d)
  /\ calls[l].step = "pop" \/ loads[l].step = "ok" => Declared(loads[l].variant)

LoadsInv == \A l \in Loads : LoadInv(l)

\* A variant is declared when its artifact is stored.
DeclaredInv ==
  \A v \in Variants : Declared(v) => Stored(Manifest(variant_ref(v)))

\* A partition is built from a download of its variant, and uploaded in order.
BuildsInv ==
  \A c \in Builds : builds[c].step = "download" =>
    LET b == builds[c] IN
    /\ IsDownload(b.variant, b.d)
    /\ Sent(partition_ref(b.variant, b.layers), partition_bundle(b.layers, b.d), b.sent)

\* A worker profiles what is declared, from a download of it.
RoundsInv ==
  \A w \in Workers :
    /\ rounds[w].left \subseteq available_ids
    /\ rounds[w].step = "download" => IsDownload(rounds[w].variant, rounds[w].d)

\* Load l is the last of its variant, and no other ran beside it or a former one.
Alone(l) ==
  /\ loads[l].step # "new"
  /\ newest[loads[l].variant] = l
  /\ loads[l].variant \notin overlapped

\* A load that runs, of a variant no two loads of which overlapped, is its newest.
OneAtATime ==
  \A l \in Loads : ~Ended(l) /\ loads[l].variant \notin overlapped => Alone(l)

\* The first n objects of an upload of bundle b are what the store holds.
Holds(v, b, n) ==
  \A i \in 1 .. n :
    LET key == object_key(variant_ref(v), upload_order(b)[i]) IN
    Stored(key) /\ objects[key] = b

\* A download got what bundle b holds.
IsOf(b, d) ==
  /\ manifest_is_read(d) => d.manifest = b
  /\ \A i \in 1 .. Len(d.got) : d.got[i] = b.of

\* What the files of a bundle hold.
contents(b) == [i \in DOMAIN b.files |-> b.of]

\* What was uploaded, downloaded and declared since load l began is of its bundle.
EffectAt(l) ==
  Alone(l) =>
    /\ Holds(loads[l].variant, loads[l].bundle, loads[l].sent)
    /\ calls[l].step = "download" => IsOf(loads[l].bundle, calls[l].d)
    /\ calls[l].step = "pop" \/ loads[l].step = "ok" =>
         profiles[loads[l].variant] = contents(loads[l].bundle)

EffectInv == \A l \in Loads : EffectAt(l)

Inv ==
  /\ TypeInv /\ StoreInv /\ PartitionsInv /\ LoadsInv /\ DeclaredInv
  /\ BuildsInv /\ RoundsInv

-----------------------------------------------------------------------------
(* The store.                                                              *)

\* A bundle has files, and none is called like the manifest.
ValidFiles(b) ==
  /\ b.files \in Seq(Range(b.files))
  /\ b.files # <<>>
  /\ MANIFEST_FILE_NAME \notin Range(b.files)

LEMMA BundlesAreValid == \A b \in Bundles : ValidFiles(b)
BY RegistrationAssumption DEF ValidFiles

\* The bundle of a partition is one.
LEMMA PartitionFiles ==
  ASSUME NEW layers, NEW d
  PROVE  /\ ValidFiles(partition_bundle(layers, d))
         /\ partition_bundle(layers, d).files = <<"split_model.onnx">>
<1> DEFINE files == <<"split_model.onnx">>
<1>1. files \in Seq({"split_model.onnx"}) /\ DOMAIN files = {1} /\ files[1] = "split_model.onnx"
  OBVIOUS
<1>2. Range(files) = {"split_model.onnx"}
  BY <1>1 DEF Range
<1>3. MANIFEST_FILE_NAME \notin Range(files) /\ files # <<>>
  BY <1>1, <1>2 DEF MANIFEST_FILE_NAME
<1> QED BY <1>1, <1>2, <1>3 DEF ValidFiles, partition_bundle

\* An upload sends the files of the bundle, then the manifest.
LEMMA UploadOrder ==
  ASSUME NEW b, ValidFiles(b)
  PROVE  /\ Len(b.files) \in Nat \ {0} /\ DOMAIN b.files = 1 .. Len(b.files)
         /\ \A i \in 1 .. Len(b.files) : /\ upload_order(b)[i] = b.files[i]
                                         /\ upload_order(b)[i] # MANIFEST_FILE_NAME
         /\ upload_order(b)[Len(b.files) + 1] = MANIFEST_FILE_NAME
         /\ \A file \in Range(b.files) :
              \E i \in 1 .. Len(b.files) : upload_order(b)[i] = file
<1> DEFINE S == Range(b.files) \cup {MANIFEST_FILE_NAME}
<1>1. b.files \in Seq(S) /\ MANIFEST_FILE_NAME \in S
  BY DEF ValidFiles
<1>2. /\ Len(b.files) \in Nat /\ DOMAIN b.files = 1 .. Len(b.files)
      /\ \A i \in 1 .. Len(b.files) : upload_order(b)[i] = b.files[i]
      /\ upload_order(b)[Len(b.files) + 1] = MANIFEST_FILE_NAME
  <2> HIDE DEF S
  <2> QED BY <1>1 DEF upload_order
<1>3. Len(b.files) # 0
  BY <1>1 DEF ValidFiles
<1>4. \A i \in 1 .. Len(b.files) : b.files[i] \in Range(b.files)
  BY <1>2 DEF Range
<1>5. \A file \in Range(b.files) : \E i \in 1 .. Len(b.files) : b.files[i] = file
  BY <1>2 DEF Range
<1> QED BY <1>2, <1>3, <1>4, <1>5 DEF ValidFiles

\* Nothing is removed from the store.
Grows == \A key : Stored(key) => Stored(key)'

\* One object more, of a bundle of which all before it are stored.
LEMMA UploadStep ==
  ASSUME NEW ref, NEW b, ValidFiles(b), NEW n \in Nat, n <= Len(b.files),
         Sent(ref, b, n), objects' = upload_file(objects, ref, b, n)
  PROVE  /\ Grows
         /\ Sent(ref, b, n + 1)'
         /\ \A r : (Stored(Manifest(r)) => Whole(r)) => (Stored(Manifest(r))' => Whole(r)')
<1> DEFINE file == upload_order(b)[n + 1]
           new == object_key(ref, file)
<1>1. /\ DOMAIN objects' = DOMAIN objects \cup {new}
      /\ objects'[new] = b
      /\ \A key \in DOMAIN objects : key # new => objects'[key] = objects[key]
  BY DEF upload_file
<1>2. Grows
  BY <1>1 DEF Grows, Stored
<1>3. Sent(ref, b, n + 1)'
  <2>1. \A i \in 1 .. n + 1 : i \in 1 .. n \/ i = n + 1
    OBVIOUS
  <2>2. Len(b.files) \in Nat
    BY UploadOrder
  <2> QED BY <1>1, <2>1, <2>2 DEF Sent, Stored
<1>4. ASSUME NEW r, Stored(Manifest(r)) => Whole(r), Stored(Manifest(r))'
      PROVE  Whole(r)'
  <2>1. CASE Manifest(r) = new
    <3>1. r = ref /\ file = MANIFEST_FILE_NAME
      BY <2>1 DEF Manifest, object_key
    <3>2. n = Len(b.files)
      BY <3>1, UploadOrder
    <3>3. \A f \in Range(b.files) : Stored(object_key(r, f))
      BY <3>1, <3>2, UploadOrder DEF Sent
    <3>4. objects'[Manifest(r)] = b
      BY <1>1, <2>1
    <3> QED BY <1>2, <1>4, <3>3, <3>4
            DEF Whole, check_artifact_existence, Grows, Stored, Manifest
  <2>2. CASE Manifest(r) # new
    <3>1. Stored(Manifest(r)) /\ objects'[Manifest(r)] = objects[Manifest(r)]
      BY <1>1, <1>4, <2>2 DEF Stored
    <3> QED BY <1>2, <1>4, <3>1
            DEF Whole, check_artifact_existence, Grows, Stored, Manifest
  <2> QED BY <2>1, <2>2
<1> QED BY <1>2, <1>3, <1>4

\* What is stored stays, so do uploads and downloads that stand still.
LEMMA SentStays ==
  ASSUME NEW ref, NEW b, NEW n, Sent(ref, b, n), Grows
  PROVE  Sent(ref, b, n)'
BY DEF Sent, Grows

LEMMA DownloadStays ==
  ASSUME NEW v, NEW d, IsDownload(v, d), Grows
  PROVE  IsDownload(v, d)'
BY DEF IsDownload, Grows

LEMMA StartedDownload ==
  ASSUME NEW v, Stored(Manifest(variant_ref(v)))
  PROVE  IsDownload(v, start_download(variant_ref(v)))
BY DEF IsDownload, start_download, manifest_is_read, NoBundle

\* A download finds its next file, and goes on to be one.
LEMMA DownloadStep ==
  ASSUME StoreInv, NEW v \in Variants, NEW d, IsDownload(v, d)
  PROVE  ~download_is_over(d) =>
           /\ is_stored(objects, d)
           /\ IsDownload(v, download_file(objects, d))
<1> SUFFICES ASSUME ~download_is_over(d)
             PROVE  /\ is_stored(objects, d)
                    /\ IsDownload(v, download_file(objects, d))
  OBVIOUS
<1>1. /\ d = [ref |-> variant_ref(v), manifest |-> d.manifest, got |-> d.got]
      /\ Stored(Manifest(variant_ref(v)))
      /\ d.got \in Seq(Contents)
  BY DEF IsDownload
<1>2. CASE ~manifest_is_read(d)
  <2> DEFINE b == objects[Manifest(variant_ref(v))]
  <2>1. next_object(d) = Manifest(variant_ref(v))
    BY <1>1, <1>2 DEF next_object, Manifest
  <2>2. b \in Bundles /\ ValidFiles(b)
    BY <1>1, BundlesAreValid DEF StoreInv, Stored, Manifest, object_key
  <2>3. \A file \in Range(b.files) : Stored(object_key(variant_ref(v), file))
    BY <1>1 DEF StoreInv, Whole, Stored, Manifest
  <2>4. d.got = <<>>
    BY <1>2 DEF IsDownload
  <2> DEFINE e == download_file(objects, d)
  <2>5. e = [ref |-> variant_ref(v), manifest |-> b, got |-> d.got]
    BY <1>1, <1>2, <2>1 DEF download_file
  <2>6. manifest_is_read(e) /\ Len(d.got) <= Len(b.files)
    BY <2>2, <2>4, <2>5, UploadOrder DEF manifest_is_read, ValidFiles
  <2> HIDE DEF b, e
  <2>7. IsDownload(v, e)
    BY <1>1, <2>2, <2>3, <2>5, <2>6 DEF IsDownload
  <2> QED BY <1>1, <2>1, <2>7 DEF is_stored, Stored, e
<1>3. CASE manifest_is_read(d)
  <2> DEFINE b == d.manifest
             n == Len(d.got)
             e == download_file(objects, d)
  <2>1. /\ b \in Bundles /\ ValidFiles(b) /\ n <= Len(b.files)
        /\ \A file \in Range(b.files) : Stored(object_key(variant_ref(v), file))
    BY <1>3, BundlesAreValid DEF IsDownload
  <2>2. n \in Nat /\ Len(b.files) \in Nat /\ n # Len(b.files)
    BY <1>1, <1>3, <2>1, UploadOrder DEF download_is_over
  <2>3. n + 1 \in DOMAIN b.files /\ b.files[n + 1] \in Range(b.files)
    BY <2>1, <2>2, UploadOrder DEF Range
  <2>4. next_object(d) = object_key(variant_ref(v), b.files[n + 1])
    BY <1>1, <1>3 DEF next_object
  <2>5. Stored(next_object(d)) /\ objects[next_object(d)] \in Bundles
    BY <2>1, <2>3, <2>4 DEF StoreInv, Stored, object_key
  <2>6. objects[next_object(d)].of \in Contents
    BY <2>5 DEF Contents
  <2>7. e = [ref |-> variant_ref(v), manifest |-> b,
             got |-> Append(d.got, objects[next_object(d)].of)]
    BY <1>1, <1>3 DEF download_file
  <2>8. e.got \in Seq(Contents) /\ Len(e.got) = n + 1 /\ e.manifest = b
    BY <1>1, <2>6, <2>7
  <2>9. manifest_is_read(e)
    BY <1>3, <2>8 DEF manifest_is_read
  <2>10. e = [ref |-> variant_ref(v), manifest |-> e.manifest, got |-> e.got]
    BY <2>7
  <2> HIDE DEF b, n, e
  <2>11. IsDownload(v, e)
    BY <1>1, <2>1, <2>2, <2>8, <2>9, <2>10 DEF IsDownload
  <2> QED BY <2>5, <2>11 DEF is_stored, Stored, e
<1> QED BY <1>2, <1>3

\* A download that is over has got what can be declared.
LEMMA DownloadedIsDeclarable ==
  ASSUME NEW v, NEW d, IsDownload(v, d)
  PROVE  d.got # Absent
BY RegistrationAssumption DEF IsDownload, Contents

-----------------------------------------------------------------------------
(* What the actions do.                                                    *)

\* A step of load l.
OnlyLoad(l) ==
  \A k \in Loads : k # l => loads'[k] = loads[k] /\ calls'[k] = calls[k]

\* One lemma per step of a load: TypeInv, and the load and its call after it.
LEMMA StartEffect ==
  ASSUME TypeInv, NEW l \in Loads, NEW v \in Variants, NEW b \in Bundles,
         StartModelVariantRegistration(l, v, b)
  PROVE  /\ TypeInv' /\ OnlyLoad(l)
         /\ loads[l].step = "new"
         /\ loads'[l] = [step |-> "upload", variant |-> v, bundle |-> b, sent |-> 0]
         /\ calls' = calls
<1> DEFINE x == [step |-> "upload", variant |-> v, bundle |-> b, sent |-> 0]
<1>1. /\ x \in LoadTypes /\ loads' = [loads EXCEPT ![l] = x]
      /\ loads[l].step = "new" /\ calls' = calls /\ pending' = pending \cup {v}
      /\ newest' = [newest EXCEPT ![v] = l] /\ overlapped' \subseteq overlapped \cup {v}
      /\ UNCHANGED <<profiles, builds, rounds>>
  BY DEF StartModelVariantRegistration, LoadTypes, workerVars
<1> HIDE DEF x
<1>2. loads'[l] = x /\ loads' \in [Loads -> LoadTypes] /\ OnlyLoad(l)
  BY <1>1 DEF TypeInv, OnlyLoad
<1>3. TypeInv'
  BY <1>1, <1>2 DEF TypeInv
<1> QED BY <1>1, <1>2, <1>3 DEF x

LEMMA UploadEffect ==
  ASSUME TypeInv, NEW l \in Loads, UploadModelArtifact(l)
  PROVE  /\ TypeInv' /\ OnlyLoad(l)
         /\ loads[l].step = "upload"
         /\ loads[l].variant \in Variants /\ loads[l].bundle \in Bundles /\ loads[l].sent \in Nat
         /\ loads'[l] = [step |-> IF upload_is_over(loads[l].bundle, loads[l].sent + 1)
                                  THEN "finalize" ELSE "upload",
                         variant |-> loads[l].variant, bundle |-> loads[l].bundle,
                         sent |-> loads[l].sent + 1]
         /\ calls' = calls
         /\ objects' = upload_file(objects, variant_ref(loads[l].variant),
                                   loads[l].bundle, loads[l].sent)
<1> DEFINE s == IF upload_is_over(loads[l].bundle, loads[l].sent + 1)
                THEN "finalize" ELSE "upload"
           x == [step |-> s, variant |-> loads[l].variant, bundle |-> loads[l].bundle,
                 sent |-> loads[l].sent + 1]
<1>1. /\ loads[l].step = "upload" /\ loads[l].variant \in Variants
      /\ loads[l].bundle \in Bundles /\ loads[l].sent \in Nat
      /\ loads[l] = [step |-> "upload", variant |-> loads[l].variant,
                     bundle |-> loads[l].bundle, sent |-> loads[l].sent]
  BY DEF UploadModelArtifact, TypeInv, LoadTypes, NewLoad
<1>2. s \in {"finalize", "upload"}
  OBVIOUS
<1>3. x \in LoadTypes
  BY <1>1, <1>2 DEF LoadTypes
<1> DEFINE y == [loads[l] EXCEPT !.sent = @ + 1]
           z == [y EXCEPT !.step = IF upload_is_over(loads[l].bundle, loads[l].sent + 1)
                                   THEN "finalize" ELSE @]
<1>4. loads' = [loads EXCEPT ![l] = x]
  <2>1. y = [step |-> "upload", variant |-> loads[l].variant, bundle |-> loads[l].bundle,
             sent |-> loads[l].sent + 1]
    BY <1>1
  <2>2. z = x
    <3> HIDE DEF y
    <3> QED BY <2>1
  <2>3. loads' = [[loads EXCEPT ![l] = y] EXCEPT ![l] = z]
    BY DEF UploadModelArtifact, TypeInv
  <2> HIDE DEF x, y, z
  <2> QED BY <2>2, <2>3 DEF TypeInv
<1>5. /\ calls' = calls /\ UNCHANGED <<pending, profiles, builds, rounds, newest, overlapped>>
      /\ objects' = upload_file(objects, variant_ref(loads[l].variant),
                                loads[l].bundle, loads[l].sent)
  BY DEF UploadModelArtifact, managerVars, workerVars, historyVars
<1> HIDE DEF x
<1>6. loads'[l] = x /\ loads' \in [Loads -> LoadTypes] /\ OnlyLoad(l)
  BY <1>3, <1>4, <1>5 DEF TypeInv, OnlyLoad
<1>7. TypeInv'
  BY <1>5, <1>6 DEF TypeInv
<1> QED BY <1>1, <1>5, <1>6, <1>7 DEF x

\* Load l takes step s, and is still of the same variant and bundle.
Goes(l, s) ==
  /\ loads'[l].step = s
  /\ loads'[l].variant = loads[l].variant /\ loads'[l].bundle = loads[l].bundle
  /\ loads'[l].sent = loads[l].sent

LEMMA StepChanges ==
  ASSUME TypeInv, NEW l \in Loads, loads[l].step # "new",
         NEW s \in {"upload", "finalize", "waiting", "ok", "failed"},
         loads' = [loads EXCEPT ![l].step = s]
  PROVE  /\ loads' \in [Loads -> LoadTypes] /\ Goes(l, s)
         /\ \A k \in Loads : k # l => loads'[k] = loads[k]
<1> DEFINE x == [loads[l] EXCEPT !.step = s]
<1>1. loads[l] \in [step : {"upload", "finalize", "waiting", "ok", "failed"},
                    variant : Variants, bundle : Bundles, sent : Nat]
  BY DEF TypeInv, LoadTypes, NewLoad
<1>2. /\ x \in LoadTypes /\ x.step = s /\ x.variant = loads[l].variant
      /\ x.bundle = loads[l].bundle /\ x.sent = loads[l].sent
  BY <1>1 DEF LoadTypes
<1>3. loads' = [loads EXCEPT ![l] = x]
  BY DEF TypeInv
<1> HIDE DEF x
<1>4. /\ loads' \in [Loads -> LoadTypes] /\ loads'[l] = x
      /\ \A k \in Loads : k # l => loads'[k] = loads[k]
  BY <1>2, <1>3 DEF TypeInv
<1> QED BY <1>2, <1>4 DEF Goes

LEMMA FinalizeEffect ==
  ASSUME TypeInv, NEW l \in Loads, FinalizeModelVariantRegistration(l)
  PROVE  /\ TypeInv' /\ OnlyLoad(l)
         /\ loads[l].step = "finalize"
         /\ \/ Goes(l, "waiting") /\ calls'[l] = [step |-> "model"]
            \/ Goes(l, "failed") /\ calls'[l] = calls[l]
<1>1. /\ loads[l].step = "finalize"
      /\ UNCHANGED <<pending, profiles, builds, rounds, newest, overlapped>>
      /\ \/ /\ calls' = [calls EXCEPT ![l] = [step |-> "model"]]
            /\ loads' = [loads EXCEPT ![l].step = "waiting"]
         \/ calls' = calls /\ loads' = [loads EXCEPT ![l].step = "failed"]
  BY DEF FinalizeModelVariantRegistration, get_pending, managerVars, workerVars, historyVars
<1>2. CASE /\ calls' = [calls EXCEPT ![l] = [step |-> "model"]]
           /\ loads' = [loads EXCEPT ![l].step = "waiting"]
  <2>1. /\ loads' \in [Loads -> LoadTypes] /\ Goes(l, "waiting")
        /\ \A k \in Loads : k # l => loads'[k] = loads[k]
    BY <1>1, <1>2, StepChanges
  <2>2. /\ calls' = [k \in Loads |-> calls'[k]] /\ calls'[l] = [step |-> "model"]
        /\ \A k \in Loads : k # l => calls'[k] = calls[k]
    BY <1>2 DEF TypeInv
  <2>3. TypeInv'
    BY <1>1, <2>1, <2>2 DEF TypeInv, IsCall
  <2> QED BY <1>1, <2>1, <2>2, <2>3 DEF OnlyLoad
<1>3. CASE calls' = calls /\ loads' = [loads EXCEPT ![l].step = "failed"]
  <2>1. /\ loads' \in [Loads -> LoadTypes] /\ Goes(l, "failed")
        /\ \A k \in Loads : k # l => loads'[k] = loads[k]
    BY <1>1, <1>3, StepChanges
  <2>2. TypeInv'
    BY <1>1, <1>3, <2>1 DEF TypeInv
  <2> QED BY <1>1, <1>3, <2>1, <2>2 DEF OnlyLoad
<1> QED BY <1>1, <1>2, <1>3

LEMMA LoadFailsEffect ==
  ASSUME TypeInv, NEW l \in Loads, LoadFails(l)
  PROVE  /\ TypeInv' /\ OnlyLoad(l)
         /\ loads[l].step \in {"upload", "finalize", "waiting"}
         /\ Goes(l, "failed") /\ calls' = calls
<1>1. /\ loads[l].step \in {"upload", "finalize", "waiting"}
      /\ UNCHANGED <<pending, profiles, builds, rounds, newest, overlapped, calls>>
      /\ loads' = [loads EXCEPT ![l].step = "failed"]
  BY DEF LoadFails, managerVars, workerVars, historyVars
<1>2. /\ loads' \in [Loads -> LoadTypes] /\ Goes(l, "failed")
      /\ \A k \in Loads : k # l => loads'[k] = loads[k]
  BY <1>1, StepChanges
<1>3. TypeInv'
  BY <1>1, <1>2 DEF TypeInv
<1> QED BY <1>1, <1>2, <1>3 DEF OnlyLoad

\* The handler's end, and who still waits for it gets the outcome.
LEMMA ReplyEffect ==
  ASSUME TypeInv, NEW l \in Loads, NEW outcome \in {"ok", "failed"}, reply(l, outcome)
  PROVE  /\ loads' \in [Loads -> LoadTypes] /\ OnlyLoad(l)
         /\ calls' = [k \in Loads |-> calls'[k]] /\ \A k \in Loads : IsCall(calls'[k])
         /\ calls'[l] = NoCall
         /\ \/ loads[l].step = "waiting" /\ Goes(l, outcome)
            \/ loads[l].step # "waiting" /\ loads'[l] = loads[l]
<1>1. /\ calls' = [k \in Loads |-> calls'[k]] /\ calls'[l] = NoCall
      /\ \A k \in Loads : k # l => calls'[k] = calls[k]
  BY DEF reply, TypeInv
<1>2. \A k \in Loads : IsCall(calls'[k])
  BY <1>1 DEF TypeInv, IsCall
<1>3. loads' = [loads EXCEPT ![l].step = IF loads[l].step = "waiting" THEN outcome
                                         ELSE loads[l].step]
  BY DEF reply
<1>4. CASE loads[l].step = "waiting"
  <2>1. loads' = [loads EXCEPT ![l].step = outcome]
    BY <1>3, <1>4
  <2>2. /\ loads' \in [Loads -> LoadTypes] /\ Goes(l, outcome)
        /\ \A k \in Loads : k # l => loads'[k] = loads[k]
    BY <1>4, <2>1, StepChanges
  <2> QED BY <1>1, <1>2, <1>4, <2>2 DEF OnlyLoad
<1>5. CASE loads[l].step # "waiting"
  <2>1. loads' = [loads EXCEPT ![l].step = loads[l].step]
    BY <1>3, <1>5
  <2>2. [loads[l] EXCEPT !.step = loads[l].step] = loads[l]
    BY DEF TypeInv, LoadTypes, NewLoad
  <2>3. loads' = loads
    BY <2>1, <2>2 DEF TypeInv
  <2> QED BY <1>1, <1>2, <1>5, <2>3 DEF OnlyLoad, TypeInv
<1> QED BY <1>4, <1>5

\* What GetModel and FinalizeFails have in common: the load goes its way.
Refused(l) ==
  /\ calls'[l] = NoCall
  /\ \/ loads[l].step = "waiting" /\ Goes(l, "failed")
     \/ loads[l].step # "waiting" /\ loads'[l] = loads[l]

LEMMA GetModelEffect ==
  ASSUME TypeInv, NEW l \in Loads, GetModel(l)
  PROVE  /\ TypeInv' /\ OnlyLoad(l)
         /\ calls[l].step = "model"
         /\ \/ Refused(l)
            \/ /\ calls'[l] = [step |-> "download",
                               d |-> start_download(variant_ref(loads[l].variant))]
               /\ loads'[l] = loads[l]
<1> DEFINE x == [step |-> "download", d |-> start_download(variant_ref(loads[l].variant))]
<1>1. /\ calls[l].step = "model"
      /\ UNCHANGED <<pending, profiles, builds, rounds, newest, overlapped>>
      /\ \/ calls' = [calls EXCEPT ![l] = x] /\ loads' = loads
         \/ reply(l, "failed")
  BY DEF GetModel, managerVars, workerVars, historyVars
<1>2. CASE calls' = [calls EXCEPT ![l] = x] /\ loads' = loads
  <2>1. IsCall(x)
    BY DEF IsCall
  <2> HIDE DEF x
  <2>2. /\ calls' = [k \in Loads |-> calls'[k]] /\ calls'[l] = x
        /\ \A k \in Loads : k # l => calls'[k] = calls[k]
    BY <1>2 DEF TypeInv
  <2>3. TypeInv'
    BY <1>1, <1>2, <2>1, <2>2 DEF TypeInv
  <2> QED BY <1>1, <1>2, <2>2, <2>3 DEF OnlyLoad, x
<1>3. CASE reply(l, "failed")
  <2>1. /\ loads' \in [Loads -> LoadTypes] /\ OnlyLoad(l)
        /\ calls' = [k \in Loads |-> calls'[k]] /\ \A k \in Loads : IsCall(calls'[k])
        /\ Refused(l)
    BY <1>3, ReplyEffect DEF Refused
  <2>2. TypeInv'
    BY <1>1, <2>1 DEF TypeInv
  <2> QED BY <1>1, <2>1, <2>2
<1> QED BY <1>1, <1>2, <1>3

LEMMA DownloadEffect ==
  ASSUME TypeInv, NEW l \in Loads, DownloadVariant(l)
  PROVE  /\ TypeInv' /\ OnlyLoad(l) /\ loads' = loads
         /\ calls[l].step = "download" /\ ~download_is_over(calls[l].d)
         /\ calls'[l] = [step |-> "download", d |-> download_file(objects, calls[l].d)]
<1> DEFINE x == [step |-> "download", d |-> download_file(objects, calls[l].d)]
<1>1. /\ calls[l].step = "download" /\ ~download_is_over(calls[l].d)
      /\ UNCHANGED <<pending, profiles, builds, rounds, newest, overlapped, loads>>
      /\ calls' = [calls EXCEPT ![l].d = download_file(objects, calls[l].d)]
  BY DEF DownloadVariant, managerVars, workerVars, historyVars
<1>2. calls[l] = [step |-> "download", d |-> calls[l].d]
  BY <1>1 DEF TypeInv, IsCall, NoCall
<1>3. IsCall(x)
  BY DEF IsCall
<1>4. [calls[l] EXCEPT !.d = download_file(objects, calls[l].d)] = x
  BY <1>2
<1>5. calls' = [calls EXCEPT ![l] = x]
  BY <1>1, <1>4
<1> HIDE DEF x
<1>6. /\ calls' = [k \in Loads |-> calls'[k]] /\ calls'[l] = x
      /\ \A k \in Loads : k # l => calls'[k] = calls[k]
  BY <1>5 DEF TypeInv
<1>7. TypeInv'
  BY <1>1, <1>3, <1>6 DEF TypeInv
<1> QED BY <1>1, <1>6, <1>7 DEF OnlyLoad, x

LEMMA AddEffect ==
  ASSUME TypeInv, NEW l \in Loads, loads[l].step # "new", AddProfiledModelVariant(l)
  PROVE  /\ TypeInv' /\ OnlyLoad(l) /\ loads' = loads
         /\ calls[l].step = "download" /\ download_is_over(calls[l].d)
         /\ calls'[l] = [step |-> "pop"]
         /\ loads[l].variant \in Variants
         /\ profiles'[loads[l].variant] = calls[l].d.got
         /\ \A v \in Variants : v # loads[l].variant => profiles'[v] = profiles[v]
<1> DEFINE x == [step |-> "pop"]
<1>1. /\ calls[l].step = "download" /\ download_is_over(calls[l].d)
      /\ UNCHANGED <<pending, builds, rounds, newest, overlapped, loads>>
      /\ calls' = [calls EXCEPT ![l] = x]
      /\ profiles' = [profiles EXCEPT ![loads[l].variant] = calls[l].d.got]
  BY DEF AddProfiledModelVariant, workerVars, historyVars
<1>2. loads[l].variant \in Variants
  BY DEF TypeInv, LoadTypes, NewLoad
<1>3. IsCall(x)
  BY DEF IsCall
<1> HIDE DEF x
<1>4. /\ calls' = [k \in Loads |-> calls'[k]] /\ calls'[l] = x
      /\ \A k \in Loads : k # l => calls'[k] = calls[k]
  BY <1>1 DEF TypeInv
<1>5. /\ profiles' = [v \in Variants |-> profiles'[v]]
      /\ profiles'[loads[l].variant] = calls[l].d.got
      /\ \A v \in Variants : v # loads[l].variant => profiles'[v] = profiles[v]
  BY <1>1, <1>2 DEF TypeInv
<1>6. TypeInv'
  BY <1>1, <1>3, <1>4, <1>5 DEF TypeInv
<1> QED BY <1>1, <1>2, <1>4, <1>5, <1>6 DEF OnlyLoad, x

LEMMA PopEffect ==
  ASSUME TypeInv, NEW l \in Loads, PopPending(l)
  PROVE  /\ TypeInv' /\ OnlyLoad(l)
         /\ calls[l].step = "pop" /\ calls'[l] = NoCall
         /\ \/ loads[l].step = "waiting" /\ Goes(l, "ok")
            \/ loads[l].step # "waiting" /\ loads'[l] = loads[l]
<1>1. /\ calls[l].step = "pop" /\ reply(l, "ok") /\ pending' \subseteq pending
      /\ UNCHANGED <<profiles, builds, rounds, newest, overlapped>>
  BY DEF PopPending, workerVars, historyVars
<1>2. /\ loads' \in [Loads -> LoadTypes] /\ OnlyLoad(l)
      /\ calls' = [k \in Loads |-> calls'[k]] /\ \A k \in Loads : IsCall(calls'[k])
      /\ calls'[l] = NoCall
      /\ \/ loads[l].step = "waiting" /\ Goes(l, "ok")
         \/ loads[l].step # "waiting" /\ loads'[l] = loads[l]
  BY <1>1, ReplyEffect
<1>3. TypeInv'
  BY <1>1, <1>2 DEF TypeInv
<1> QED BY <1>1, <1>2, <1>3

LEMMA FinalizeFailsEffect ==
  ASSUME TypeInv, NEW l \in Loads, FinalizeFails(l)
  PROVE  TypeInv' /\ OnlyLoad(l) /\ calls[l].step \in {"model", "download"} /\ Refused(l)
<1>1. /\ calls[l].step \in {"model", "download"} /\ reply(l, "failed")
      /\ UNCHANGED <<pending, profiles, builds, rounds, newest, overlapped>>
  BY DEF FinalizeFails, managerVars, workerVars, historyVars
<1>2. /\ loads' \in [Loads -> LoadTypes] /\ OnlyLoad(l)
      /\ calls' = [k \in Loads |-> calls'[k]] /\ \A k \in Loads : IsCall(calls'[k])
      /\ Refused(l)
  BY <1>1, ReplyEffect DEF Refused
<1>3. TypeInv'
  BY <1>1, <1>2 DEF TypeInv
<1> QED BY <1>1, <1>2, <1>3

\* A step of build c.
OnlyBuild(c) == \A k \in Builds : k # c => builds'[k] = builds[k]

\* An action that changes nothing but builds[c], objects and partitions.
LEMMA BuildFrame ==
  ASSUME TypeInv, NEW c \in Builds, NEW x, IsBuild(x), builds' = [builds EXCEPT ![c] = x],
         UNCHANGED <<pending, profiles, loads, calls, rounds, newest, overlapped>>
  PROVE  TypeInv' /\ OnlyBuild(c) /\ builds'[c] = x
<1>1. /\ builds' = [k \in Builds |-> builds'[k]] /\ builds'[c] = x
      /\ \A k \in Builds : k # c => builds'[k] = builds[k]
  BY DEF TypeInv
<1>2. TypeInv'
  BY <1>1 DEF TypeInv
<1> QED BY <1>1, <1>2 DEF OnlyBuild

LEMMA GenerateEffect ==
  ASSUME TypeInv, NEW c \in Builds, NEW v \in Variants, NEW layers \in LayerSets,
         GenerateModelPartition(c, v, layers)
  PROVE  /\ TypeInv' /\ OnlyBuild(c) /\ Declared(v)
         /\ builds'[c] = [step |-> "download", variant |-> v, layers |-> layers, sent |-> 0,
                          d |-> start_download(variant_ref(v))]
<1> DEFINE x == [step |-> "download", variant |-> v, layers |-> layers, sent |-> 0,
                 d |-> start_download(variant_ref(v))]
<1>1. IsBuild(x)
  BY DEF IsBuild
<1>2. /\ builds' = [builds EXCEPT ![c] = x] /\ Declared(v)
      /\ UNCHANGED <<pending, profiles, loads, calls, rounds, newest, overlapped>>
  BY DEF GenerateModelPartition, managerVars, workerVars, historyVars
<1> HIDE DEF x
<1> QED BY <1>1, <1>2, BuildFrame DEF x

\* A build that runs has its fields.
LEMMA BuildType ==
  ASSUME TypeInv, NEW c \in Builds, builds[c].step = "download"
  PROVE  /\ builds[c] = [step |-> "download", variant |-> builds[c].variant,
                         layers |-> builds[c].layers, sent |-> builds[c].sent,
                         d |-> builds[c].d]
         /\ builds[c].variant \in Variants /\ builds[c].layers \in LayerSets
         /\ builds[c].sent \in Nat
BY DEF TypeInv, IsBuild, NoCall

LEMMA DownloadForPartitionEffect ==
  ASSUME TypeInv, NEW c \in Builds, DownloadForPartition(c)
  PROVE  /\ TypeInv' /\ OnlyBuild(c)
         /\ builds[c].step = "download" /\ ~download_is_over(builds[c].d)
         /\ builds'[c] = [step |-> "download", variant |-> builds[c].variant,
                          layers |-> builds[c].layers, sent |-> builds[c].sent,
                          d |-> download_file(objects, builds[c].d)]
<1> DEFINE x == [step |-> "download", variant |-> builds[c].variant,
                 layers |-> builds[c].layers, sent |-> builds[c].sent,
                 d |-> download_file(objects, builds[c].d)]
<1>1. /\ builds[c].step = "download" /\ ~download_is_over(builds[c].d)
      /\ builds' = [builds EXCEPT ![c].d = download_file(objects, builds[c].d)]
      /\ UNCHANGED <<pending, profiles, loads, calls, rounds, newest, overlapped>>
  BY DEF DownloadForPartition, managerVars, workerVars, historyVars
<1>0. /\ builds[c] = [step |-> "download", variant |-> builds[c].variant,
                     layers |-> builds[c].layers, sent |-> builds[c].sent,
                     d |-> builds[c].d]
      /\ builds[c].variant \in Variants /\ builds[c].layers \in LayerSets
      /\ builds[c].sent \in Nat
  BY <1>1, BuildType
<1>2. IsBuild(x)
  BY <1>0 DEF IsBuild
<1>3. [builds[c] EXCEPT !.d = download_file(objects, builds[c].d)] = x
  BY <1>0
<1>4. builds' = [builds EXCEPT ![c] = x]
  BY <1>1, <1>3
<1> HIDE DEF x
<1> QED BY <1>1, <1>2, <1>4, BuildFrame DEF x

LEMMA UploadPartitionEffect ==
  ASSUME TypeInv, NEW c \in Builds, UploadPartition(c)
  PROVE  LET b == builds[c]
             bundle == partition_bundle(b.layers, b.d)
         IN
         /\ TypeInv' /\ OnlyBuild(c)
         /\ b.step = "download" /\ download_is_over(b.d) /\ ~upload_is_over(bundle, b.sent)
         /\ objects' = upload_file(objects, partition_ref(b.variant, b.layers), bundle, b.sent)
         /\ builds'[c] = [step |-> "download", variant |-> b.variant, layers |-> b.layers,
                          sent |-> b.sent + 1, d |-> b.d]
<1> DEFINE x == [step |-> "download", variant |-> builds[c].variant,
                 layers |-> builds[c].layers, sent |-> builds[c].sent + 1,
                 d |-> builds[c].d]
           bundle == partition_bundle(builds[c].layers, builds[c].d)
<1>1. /\ builds[c].step = "download" /\ download_is_over(builds[c].d)
      /\ ~upload_is_over(bundle, builds[c].sent)
      /\ objects' = upload_file(objects, partition_ref(builds[c].variant, builds[c].layers),
                                bundle, builds[c].sent)
      /\ builds' = [builds EXCEPT ![c].sent = builds[c].sent + 1]
      /\ UNCHANGED <<pending, profiles, loads, calls, rounds, newest, overlapped>>
  BY DEF UploadPartition, managerVars, workerVars, historyVars
<1>0. /\ builds[c] = [step |-> "download", variant |-> builds[c].variant,
                     layers |-> builds[c].layers, sent |-> builds[c].sent,
                     d |-> builds[c].d]
      /\ builds[c].variant \in Variants /\ builds[c].layers \in LayerSets
      /\ builds[c].sent \in Nat
  BY <1>1, BuildType
<1>2. IsBuild(x)
  BY <1>0 DEF IsBuild
<1>3. [builds[c] EXCEPT !.sent = builds[c].sent + 1] = x
  BY <1>0
<1>4. builds' = [builds EXCEPT ![c] = x]
  BY <1>1, <1>3
<1> HIDE DEF x
<1>5. TypeInv' /\ OnlyBuild(c) /\ builds'[c] = x
  BY <1>1, <1>2, <1>4, BuildFrame
<1> QED BY <1>1, <1>5 DEF x

\* AddModelPartition and BuildFails end the call.
LEMMA BuildEndEffect ==
  ASSUME TypeInv, NEW c \in Builds, AddModelPartition(c) \/ BuildFails(c)
  PROVE  TypeInv' /\ OnlyBuild(c) /\ builds'[c] = NoCall
<1>1. /\ builds' = [builds EXCEPT ![c] = NoCall]
      /\ UNCHANGED <<pending, profiles, loads, calls, rounds, newest, overlapped>>
  BY DEF AddModelPartition, BuildFails, managerVars, workerVars, historyVars
<1>2. IsBuild(NoCall)
  BY DEF IsBuild
<1> QED BY <1>1, <1>2, BuildFrame

\* A restart of the manager ends every call.
LEMMA RestartEffect ==
  ASSUME TypeInv, ManagerRestarts
  PROVE  /\ TypeInv'
         /\ \A l \in Loads :
              /\ calls'[l] = NoCall
              /\ \/ loads[l].step = "waiting" /\ Goes(l, "failed")
                 \/ loads[l].step # "waiting" /\ loads'[l] = loads[l]
         /\ \A c \in Builds : builds'[c] = NoCall
<1>1. /\ pending' = {} /\ calls' = [l \in Loads |-> NoCall] /\ builds' = [c \in Builds |-> NoCall]
      /\ loads' = [l \in Loads |-> IF loads[l].step = "waiting"
                                   THEN [loads[l] EXCEPT !.step = "failed"] ELSE loads[l]]
      /\ UNCHANGED <<profiles, rounds, newest, overlapped>>
  BY DEF ManagerRestarts, workerVars, historyVars
<1>2. ASSUME NEW l \in Loads
      PROVE  /\ loads'[l] \in LoadTypes
             /\ \/ loads[l].step = "waiting" /\ Goes(l, "failed")
                \/ loads[l].step # "waiting" /\ loads'[l] = loads[l]
  <2>1. CASE loads[l].step = "waiting"
    <3>1. loads[l] \in [step : {"upload", "finalize", "waiting", "ok", "failed"},
                        variant : Variants, bundle : Bundles, sent : Nat]
      BY <2>1 DEF TypeInv, LoadTypes, NewLoad
    <3> DEFINE x == [loads[l] EXCEPT !.step = "failed"]
    <3>2. /\ x \in LoadTypes /\ x.step = "failed" /\ x.variant = loads[l].variant
          /\ x.bundle = loads[l].bundle /\ x.sent = loads[l].sent
      BY <3>1 DEF LoadTypes
    <3>3. loads'[l] = x
      BY <1>1, <2>1
    <3> HIDE DEF x
    <3> QED BY <2>1, <3>2, <3>3 DEF Goes
  <2>2. CASE loads[l].step # "waiting"
    BY <1>1, <2>2 DEF TypeInv
  <2> QED BY <2>1, <2>2
<1>3. loads' \in [Loads -> LoadTypes]
  BY <1>1, <1>2
<1>4. TypeInv'
  BY <1>1, <1>3 DEF TypeInv, IsCall, IsBuild
<1> QED BY <1>1, <1>2, <1>4

\* A step of the round of worker w.
OnlyRound(w) == \A k \in Workers : k # w => rounds'[k] = rounds[k]

\* A step of the loop of worker w leaves the manager alone.
LEMMA RoundFrame ==
  ASSUME TypeInv, NEW w \in Workers, NEW x, IsRound(x), rounds' = [rounds EXCEPT ![w] = x],
         UNCHANGED <<pending, profiles, loads, calls, builds, newest, overlapped>>
  PROVE  TypeInv' /\ OnlyRound(w) /\ rounds'[w] = x
<1>1. /\ rounds' = [k \in Workers |-> rounds'[k]] /\ rounds'[w] = x
      /\ \A k \in Workers : k # w => rounds'[k] = rounds[k]
  BY DEF TypeInv
<1>2. TypeInv'
  BY <1>1 DEF TypeInv
<1> QED BY <1>1, <1>2 DEF OnlyRound

\* What a worker leaves alone.
workerRest == <<managerVars, objects, loads, calls, builds, historyVars>>

\* What a step of the loop may make of its round.
RoundStep(w) ==
  /\ OnlyRound(w) /\ UNCHANGED workerRest
  /\ \/ rounds'[w].step \in {"sleep", "next"} /\ rounds'[w].left \subseteq rounds[w].left
     \/ rounds'[w].step \in {"sleep", "next"} /\ rounds'[w].left \subseteq available_ids
     \/ /\ rounds'[w].step = "download" /\ rounds[w].step = "next"
        /\ rounds'[w].left \subseteq rounds[w].left
        /\ rounds'[w].variant \in rounds[w].left
        /\ rounds'[w].d = start_download(variant_ref(rounds'[w].variant))
     \/ /\ rounds'[w].step = "download" /\ rounds[w].step = "download"
        /\ rounds'[w].left = rounds[w].left /\ rounds'[w].variant = rounds[w].variant
        /\ ~download_is_over(rounds[w].d)
        /\ rounds'[w].d = download_file(objects, rounds[w].d)

\* Whatever the loop does is one of these.
LEMMA RoundEffect ==
  ASSUME TypeInv, NEW w \in Workers,
         WorkerStep(w) \/ ProfilingFails(w) \/ WorkerRestarts(w)
  PROVE  TypeInv' /\ RoundStep(w)
<1> DEFINE r == rounds[w]
<1>0. IsRound(r) /\ r.left \subseteq Variants /\ available_ids \subseteq Variants
  BY DEF TypeInv, IsRound, available_ids
<1>1. CASE Poll(w)
  <2> DEFINE x == [step |-> IF available_ids \subseteq profiled_ids(w) THEN "sleep" ELSE "next",
                   left |-> available_ids \ profiled_ids(w)]
  <2>1. r = [step |-> "sleep", left |-> r.left]
    BY <1>0, <1>1 DEF Poll, IsRound
  <2>2. IsRound(x) /\ x.step \in {"sleep", "next"} /\ x.left \subseteq available_ids
    BY <1>0 DEF IsRound
  <2>3. rounds' = [rounds EXCEPT ![w] = x] /\ UNCHANGED workerRest
    <3> DEFINE y == [step |-> "sleep", left |-> available_ids \ profiled_ids(w)]
               z == [y EXCEPT !.step = IF available_ids \subseteq profiled_ids(w)
                                       THEN @ ELSE "next"]
    <3>1. [r EXCEPT !.left = available_ids \ profiled_ids(w)] = y
      BY <2>1
    <3>2. z = x
      OBVIOUS
    <3>3. rounds' = [[rounds EXCEPT ![w] = y] EXCEPT ![w] = z]
      BY <1>1, <3>1 DEF Poll, TypeInv
    <3>4. UNCHANGED workerRest
      BY <1>1 DEF Poll, workerRest
    <3> HIDE DEF x, y, z
    <3> QED BY <3>2, <3>3, <3>4 DEF TypeInv
  <2> HIDE DEF x
  <2>4. TypeInv' /\ OnlyRound(w) /\ rounds'[w] = x
    BY <2>2, <2>3, RoundFrame DEF workerRest, managerVars, historyVars
  <2> QED BY <2>2, <2>3, <2>4 DEF RoundStep
<1>2. CASE RoundEnds(w) \/ WorkerRestarts(w)
  <2>1. rounds' = [rounds EXCEPT ![w] = Sleeping] /\ UNCHANGED workerRest
    BY <1>2 DEF RoundEnds, WorkerRestarts, workerRest
  <2>2. IsRound(Sleeping) /\ Sleeping.step = "sleep" /\ Sleeping.left = {}
    BY DEF IsRound, Sleeping
  <2>3. TypeInv' /\ OnlyRound(w) /\ rounds'[w] = Sleeping
    BY <2>1, <2>2, RoundFrame DEF workerRest, managerVars, historyVars
  <2> QED BY <2>1, <2>2, <2>3 DEF RoundStep
<1>3. CASE PublishModelExecutionProfile(w) \/ ProfilingFails(w)
  <2> DEFINE x == [step |-> "next", left |-> r.left]
  <2>1. rounds' = [rounds EXCEPT ![w] = x] /\ UNCHANGED workerRest
    BY <1>3 DEF PublishModelExecutionProfile, ProfilingFails, proceed, workerRest
  <2>2. IsRound(x) /\ x.step = "next" /\ x.left = r.left
    BY <1>0 DEF IsRound
  <2> HIDE DEF x
  <2>3. TypeInv' /\ OnlyRound(w) /\ rounds'[w] = x
    BY <2>1, <2>2, RoundFrame DEF workerRest, managerVars, historyVars
  <2> QED BY <2>1, <2>2, <2>3 DEF RoundStep
<1>4. CASE DownloadForProfiling(w)
  <2> DEFINE x == [step |-> "download", left |-> r.left, variant |-> r.variant,
                   d |-> download_file(objects, r.d)]
  <2>1. /\ r.step = "download" /\ ~download_is_over(r.d) /\ UNCHANGED workerRest
        /\ rounds' = [rounds EXCEPT ![w].d = download_file(objects, r.d)]
    BY <1>4 DEF DownloadForProfiling, workerRest
  <2>2. /\ r = [step |-> "download", left |-> r.left, variant |-> r.variant, d |-> r.d]
        /\ r.variant \in Variants
    BY <1>0, <2>1 DEF IsRound
  <2>3. [r EXCEPT !.d = download_file(objects, r.d)] = x
    BY <2>2
  <2>4. rounds' = [rounds EXCEPT ![w] = x]
    BY <2>1, <2>3
  <2>5. /\ IsRound(x) /\ x.step = "download" /\ x.left = r.left /\ x.variant = r.variant
        /\ x.d = download_file(objects, r.d)
    BY <1>0, <2>2 DEF IsRound
  <2> HIDE DEF x
  <2>6. TypeInv' /\ OnlyRound(w) /\ rounds'[w] = x
    BY <2>1, <2>4, <2>5, RoundFrame DEF workerRest, managerVars, historyVars
  <2> QED BY <2>1, <2>5, <2>6 DEF RoundStep
<1>5. ASSUME NEW v \in Variants, NextPendingModel(w, v)
      PROVE  TypeInv' /\ RoundStep(w)
  <2>1. /\ r.step = "next" /\ v \in r.left /\ UNCHANGED workerRest
        /\ r = [step |-> "next", left |-> r.left]
    BY <1>0, <1>5 DEF NextPendingModel, workerRest, IsRound
  <2>2. CASE v \in profiled_ids(w)
    <3> DEFINE x == [step |-> "next", left |-> r.left \ {v}]
    <3>2. rounds' = [rounds EXCEPT ![w] = x]
      BY <1>5, <2>2 DEF NextPendingModel
    <3>3. IsRound(x) /\ x.step = "next" /\ x.left \subseteq r.left
      BY <1>0 DEF IsRound
    <3> HIDE DEF x
    <3>4. TypeInv' /\ OnlyRound(w) /\ rounds'[w] = x
      BY <2>1, <3>2, <3>3, RoundFrame DEF workerRest, managerVars, historyVars
    <3> QED BY <2>1, <3>3, <3>4 DEF RoundStep
  <2>3. CASE v \notin profiled_ids(w)
    <3> DEFINE x == [step |-> "download", left |-> r.left \ {v}, variant |-> v,
                     d |-> start_download(variant_ref(v))]
    <3>1. rounds' = [rounds EXCEPT ![w] = x]
      BY <1>5, <2>3 DEF NextPendingModel
    <3>2. /\ IsRound(x) /\ x.step = "download" /\ x.left \subseteq r.left /\ x.variant = v
          /\ x.d = start_download(variant_ref(v))
      BY <1>0 DEF IsRound
    <3> HIDE DEF x
    <3>3. TypeInv' /\ OnlyRound(w) /\ rounds'[w] = x
      BY <2>1, <3>1, <3>2, RoundFrame DEF workerRest, managerVars, historyVars
    <3> QED BY <2>1, <3>2, <3>3 DEF RoundStep
  <2> QED BY <2>2, <2>3
<1> QED BY <1>1, <1>2, <1>3, <1>4, <1>5 DEF WorkerStep

-----------------------------------------------------------------------------
(* What is stored and declared.                                            *)

\* No variant is taken back.
DeclaredStays == \A v \in Variants : Declared(v) => Declared(v)'

\* A load that was started has its fields.
LEMMA LoadType ==
  ASSUME TypeInv, NEW l \in Loads, loads[l].step # "new"
  PROVE  /\ loads[l].step \in {"upload", "finalize", "waiting", "ok", "failed"}
         /\ loads[l].variant \in Variants /\ loads[l].bundle \in Bundles
         /\ loads[l].sent \in Nat
BY DEF TypeInv, LoadTypes, NewLoad

\* The two steps that change the store.
LEMMA UploadModelStores ==
  ASSUME TypeInv, StoreInv, LoadsInv, NEW l \in Loads, UploadModelArtifact(l)
  PROVE  /\ Grows /\ StoreInv'
         /\ \A v, b, n : v = loads[l].variant /\ b = loads[l].bundle /\ n = loads[l].sent =>
              Sent(variant_ref(v), b, n + 1)'
<1>1. PICK v \in Variants, b \in Bundles, n \in Nat :
        /\ v = loads[l].variant /\ b = loads[l].bundle /\ n = loads[l].sent
        /\ objects' = upload_file(objects, variant_ref(v), b, n)
        /\ Sent(variant_ref(v), b, n) /\ n <= Len(b.files)
  BY UploadEffect DEF LoadsInv, LoadInv
<1>2. ValidFiles(b)
  BY BundlesAreValid
<1>3. /\ Grows /\ Sent(variant_ref(v), b, n + 1)'
      /\ \A r : (Stored(Manifest(r)) => Whole(r)) => (Stored(Manifest(r))' => Whole(r)')
  BY <1>1, <1>2, UploadStep
<1>4. ASSUME NEW u \in Variants, NEW key \in DOMAIN objects', key[1] = variant_ref(u)
      PROVE  objects'[key] \in Bundles
  <2>1. (key \in DOMAIN objects /\ objects'[key] = objects[key]) \/ objects'[key] = b
    BY <1>1, <1>4 DEF upload_file
  <2> QED BY <1>4, <2>1 DEF StoreInv
<1>5. \A u \in Variants :
        /\ Stored(Manifest(variant_ref(u)))' => Whole(variant_ref(u))'
        /\ \A layers \in LayerSets :
             Stored(Manifest(partition_ref(u, layers)))' => Whole(partition_ref(u, layers))'
  BY <1>3 DEF StoreInv
<1>6. StoreInv'
  BY <1>4, <1>5 DEF StoreInv
<1> QED BY <1>1, <1>3, <1>6

LEMMA UploadPartitionStores ==
  ASSUME TypeInv, StoreInv, BuildsInv, NEW c \in Builds, UploadPartition(c)
  PROVE  /\ Grows /\ StoreInv'
         /\ \A ref, bundle, n :
              /\ ref = partition_ref(builds[c].variant, builds[c].layers)
              /\ bundle = partition_bundle(builds[c].layers, builds[c].d)
              /\ n = builds[c].sent
              => Sent(ref, bundle, n + 1)'
         /\ \A v \in Variants : \A key :
              key[1] = variant_ref(v) => /\ Stored(key)' = Stored(key)
                                         /\ Stored(key) => objects'[key] = objects[key]
<1> DEFINE b == builds[c]
<1>1. PICK bundle : bundle = partition_bundle(b.layers, b.d)
  OBVIOUS
<1>2. PICK ref : ref = partition_ref(b.variant, b.layers)
  OBVIOUS
<1>3. PICK n \in Nat : n = b.sent
  BY UploadPartitionEffect, BuildType
<1>4. /\ b.step = "download" /\ ~upload_is_over(bundle, n)
      /\ objects' = upload_file(objects, ref, bundle, n)
      /\ Sent(ref, bundle, n)
  BY <1>1, <1>2, <1>3, UploadPartitionEffect DEF BuildsInv
<1>5. ValidFiles(bundle)
  BY <1>1, PartitionFiles
<1>6. n <= Len(bundle.files)
  BY <1>4, <1>5, UploadOrder DEF Sent, upload_is_over
<1>7. /\ Grows /\ Sent(ref, bundle, n + 1)'
      /\ \A r : (Stored(Manifest(r)) => Whole(r)) => (Stored(Manifest(r))' => Whole(r)')
  BY <1>4, <1>5, <1>6, UploadStep
<1>8. ASSUME NEW v \in Variants, NEW key, key[1] = variant_ref(v)
      PROVE  /\ Stored(key)' = Stored(key)
             /\ Stored(key) => objects'[key] = objects[key]
  <2>1. b.layers # {}
    BY <1>4, BuildType, RegistrationAssumption
  <2>2. ref # variant_ref(v)
    BY <1>2, <2>1 DEF partition_ref, variant_ref
  <2>3. key # object_key(ref, upload_order(bundle)[n + 1])
    BY <1>8, <2>2 DEF object_key
  <2> QED BY <1>4, <2>3 DEF upload_file, Stored
<1>9. \A u \in Variants :
        /\ Stored(Manifest(variant_ref(u)))' => Whole(variant_ref(u))'
        /\ \A layers \in LayerSets :
             Stored(Manifest(partition_ref(u, layers)))' => Whole(partition_ref(u, layers))'
  BY <1>7 DEF StoreInv
<1>10. StoreInv'
  BY <1>8, <1>9 DEF StoreInv, Stored
<1> QED BY <1>1, <1>2, <1>3, <1>7, <1>8, <1>10

\* Everything but these two steps leaves the store as it is.
LEMMA StoreStays ==
  ASSUME StoreInv, UNCHANGED objects
  PROVE  Grows /\ StoreInv'
BY DEF StoreInv, Grows, Stored, Whole, check_artifact_existence

\* Only AddProfiledModelVariant declares a variant, whose artifact it has got.
LEMMA Declares ==
  ASSUME TypeInv, LoadsInv, NEW l \in Loads, AddProfiledModelVariant(l)
  PROVE  /\ DeclaredStays
         /\ \A v : v = loads[l].variant => Declared(v)'
         /\ \A v \in Variants : Declared(v)' => \/ Declared(v)
                                                \/ Stored(Manifest(variant_ref(v)))
<1>1. calls[l].step = "download"
  BY DEF AddProfiledModelVariant
<1>2. LoadInv(l) /\ Known(l) /\ loads[l].step # "new"
  BY <1>1 DEF LoadsInv, LoadInv, Known
<1>3. /\ loads[l].variant \in Variants
      /\ profiles'[loads[l].variant] = calls[l].d.got
      /\ \A v \in Variants : v # loads[l].variant => profiles'[v] = profiles[v]
  BY <1>2, AddEffect
<1>4. IsDownload(loads[l].variant, calls[l].d)
  BY <1>1, <1>2 DEF LoadInv
<1>5. calls[l].d.got # Absent
  BY <1>4, DownloadedIsDeclarable
<1>6. Stored(Manifest(variant_ref(loads[l].variant)))
  BY <1>2 DEF LoadInv
<1> QED BY <1>3, <1>5, <1>6 DEF Declared, DeclaredStays

\* The actions of a load and its call, of a build, and of a worker.
LoadAction(l) ==
  \/ UploadModelArtifact(l) \/ FinalizeModelVariantRegistration(l) \/ LoadFails(l)
  \/ GetModel(l) \/ DownloadVariant(l) \/ AddProfiledModelVariant(l) \/ PopPending(l)
  \/ FinalizeFails(l)

BuildAction(c) ==
  DownloadForPartition(c) \/ UploadPartition(c) \/ AddModelPartition(c) \/ BuildFails(c)

RoundAction(w) == WorkerStep(w) \/ ProfilingFails(w) \/ WorkerRestarts(w)

\* The state everything below starts from: what holds before and after a step.
LEMMA NextStoreInv ==
  ASSUME Inv, [Next]_vars
  PROVE  TypeInv' /\ Grows /\ StoreInv' /\ DeclaredStays /\ DeclaredInv'
<1> USE DEF Inv
<1>1. ASSUME UNCHANGED <<profiles, objects>>
      PROVE  Grows /\ StoreInv' /\ DeclaredStays /\ DeclaredInv'
  BY <1>1, StoreStays DEF DeclaredStays, DeclaredInv, Declared, Stored
<1>2. CASE UNCHANGED vars
  BY <1>1, <1>2 DEF vars, managerVars, workerVars, historyVars, TypeInv
<1>3. ASSUME NEW m \in Models, RegisterModel(m)
      PROVE  TypeInv' /\ UNCHANGED <<profiles, objects>>
  BY <1>3 DEF RegisterModel, workerVars, historyVars, TypeInv
<1>4. ASSUME NEW l \in Loads, NEW v \in Variants, NEW b \in Bundles,
             StartModelVariantRegistration(l, v, b)
      PROVE  TypeInv' /\ UNCHANGED <<profiles, objects>>
  BY <1>4, StartEffect DEF StartModelVariantRegistration
<1>5. ASSUME NEW l \in Loads, LoadAction(l)
      PROVE  TypeInv' /\ Grows /\ StoreInv' /\ DeclaredStays /\ DeclaredInv'
  <2>1. CASE UploadModelArtifact(l)
    <3>1. TypeInv' /\ Grows /\ StoreInv'
      BY <2>1, UploadEffect, UploadModelStores
    <3>2. UNCHANGED profiles
      BY <2>1 DEF UploadModelArtifact, managerVars
    <3> QED BY <3>1, <3>2 DEF DeclaredStays, DeclaredInv, Declared, Grows
  <2>2. CASE AddProfiledModelVariant(l)
    <3>1. loads[l].step # "new"
      BY <2>2 DEF AddProfiledModelVariant, LoadsInv, LoadInv, Known
    <3>2. UNCHANGED objects
      BY <2>2 DEF AddProfiledModelVariant
    <3> QED BY <2>2, <3>1, <3>2, AddEffect, StoreStays, Declares DEF DeclaredInv, Grows
  <2>3. CASE /\ ~UploadModelArtifact(l) /\ ~AddProfiledModelVariant(l)
    <3>1. UNCHANGED <<profiles, objects>>
      BY <1>5, <2>3 DEF LoadAction, FinalizeModelVariantRegistration, LoadFails, GetModel,
         DownloadVariant, PopPending, FinalizeFails, managerVars
    <3>2. TypeInv'
      BY <1>5, <2>3, FinalizeEffect, LoadFailsEffect, GetModelEffect, DownloadEffect,
         PopEffect, FinalizeFailsEffect DEF LoadAction
    <3> QED BY <1>1, <3>1, <3>2
  <2> QED BY <2>1, <2>2, <2>3
<1>6. ASSUME NEW c \in Builds, NEW v \in Variants, NEW layers \in LayerSets,
             GenerateModelPartition(c, v, layers)
      PROVE  TypeInv' /\ UNCHANGED <<profiles, objects>>
  BY <1>6, GenerateEffect DEF GenerateModelPartition, managerVars
<1>7. ASSUME NEW c \in Builds, BuildAction(c)
      PROVE  TypeInv' /\ Grows /\ StoreInv' /\ DeclaredStays /\ DeclaredInv'
  <2>1. TypeInv'
    BY <1>7, DownloadForPartitionEffect, UploadPartitionEffect, BuildEndEffect DEF BuildAction
  <2>2. UNCHANGED profiles
    BY <1>7 DEF BuildAction, DownloadForPartition, UploadPartition, AddModelPartition,
       BuildFails, managerVars
  <2>3. Grows /\ StoreInv'
    <3>1. CASE UploadPartition(c)
      BY <3>1, UploadPartitionStores
    <3>2. CASE ~UploadPartition(c)
      BY <1>7, <3>2, StoreStays DEF BuildAction, DownloadForPartition, AddModelPartition, BuildFails
    <3> QED BY <3>1, <3>2
  <2> QED BY <2>1, <2>2, <2>3 DEF DeclaredStays, DeclaredInv, Declared, Grows
<1>8. CASE ManagerRestarts
  BY <1>1, <1>8, RestartEffect DEF ManagerRestarts
<1>9. ASSUME NEW w \in Workers, RoundAction(w)
      PROVE  TypeInv' /\ UNCHANGED <<profiles, objects>>
  BY <1>9, RoundEffect DEF RoundAction, RoundStep, workerRest, managerVars
<1> QED BY <1>1, <1>2, <1>3, <1>4, <1>5, <1>6, <1>7, <1>8, <1>9
        DEF Next, LoadAction, BuildAction, RoundAction

-----------------------------------------------------------------------------
(* Loads, builds and rounds.                                               *)

\* A load that stands still.
LEMMA LoadStays ==
  ASSUME TypeInv, NEW l \in Loads, LoadInv(l), Grows, DeclaredStays,
         loads'[l] = loads[l], calls'[l] = calls[l]
  PROVE  LoadInv(l)'
<1>1. PICK load, call : load = loads[l] /\ call = calls[l] /\ load = loads'[l] /\ call = calls'[l]
  OBVIOUS
<1>2. load.step = "upload" => Sent(variant_ref(load.variant), load.bundle, load.sent)'
  BY <1>1, SentStays DEF LoadInv
<1>3. call.step = "download" => IsDownload(load.variant, call.d)'
  BY <1>1, DownloadStays DEF LoadInv
<1>4. Known(l)' <=> Known(l)
  BY <1>1 DEF Known
<1>5. Known(l) => Stored(Manifest(variant_ref(load.variant)))'
  BY <1>1 DEF LoadInv, Grows
<1>6. load.step # "new" => load.variant \in Variants
  BY <1>1, LoadType
<1>7. call.step = "pop" \/ load.step = "ok" => Declared(load.variant)'
  <2>1. Known(l) \/ ~(call.step = "pop" \/ load.step = "ok")
    BY <1>1 DEF Known
  <2> QED BY <1>1, <1>6, <2>1 DEF LoadInv, DeclaredStays
<1>8. /\ Stored(Manifest(variant_ref(load.variant)))' = Stored(Manifest(variant_ref(loads[l].variant)))'
      /\ Declared(load.variant)' = Declared(loads[l].variant)'
      /\ Sent(variant_ref(load.variant), load.bundle, load.sent)'
           = Sent(variant_ref(loads[l].variant), loads[l].bundle, loads[l].sent)'
      /\ IsDownload(load.variant, call.d)' = IsDownload(loads[l].variant, calls[l].d)'
  BY <1>1
<1> QED BY <1>1, <1>2, <1>3, <1>4, <1>5, <1>7, <1>8 DEF LoadInv

\* A load that only takes another step and whose call, if it has one, waits or ends.
LEMMA LoadGoes ==
  ASSUME TypeInv, NEW l \in Loads, LoadInv(l), Grows, DeclaredStays,
         NEW s \in {"waiting", "ok", "failed"}, Goes(l, s), loads[l].step # "new",
         s = "ok" => calls'[l] = NoCall /\ calls[l].step = "pop",
         \/ calls'[l] = NoCall /\ (s # "failed" => Known(l))
         \/ calls'[l] = [step |-> "model"] /\ Known(l) /\ s # "ok"
         \/ calls'[l] = calls[l] /\ s = "failed"
  PROVE  LoadInv(l)'
<1>1. PICK v, b, n : v = loads[l].variant /\ b = loads[l].bundle /\ n = loads[l].sent
  OBVIOUS
<1>2. /\ v = loads'[l].variant /\ b = loads'[l].bundle /\ n = loads'[l].sent
      /\ loads'[l].step = s
  BY <1>1 DEF Goes
<1>3. PICK call : call = calls'[l]
  OBVIOUS
<1>4. Known(l)' => Known(l)
  BY <1>2 DEF Known, NoCall
<1>5. Known(l) => n = Len(b.files) + 1 /\ Stored(Manifest(variant_ref(v)))'
  BY <1>1 DEF LoadInv, Grows
<1>6. call.step = "download" => IsDownload(v, call.d)'
  <2>1. call.step = "download" => call = calls[l]
    BY <1>3 DEF NoCall
  <2> QED BY <1>1, <1>3, <2>1, DownloadStays DEF LoadInv
<1>7. call.step = "pop" \/ s = "ok" => Declared(v)'
  <2>1. call.step = "pop" \/ s = "ok" => calls[l].step = "pop"
    BY <1>3 DEF NoCall
  <2>2. v \in Variants
    BY <1>1, LoadType
  <2> QED BY <1>1, <2>1, <2>2 DEF LoadInv, DeclaredStays
<1>8. /\ Stored(Manifest(variant_ref(v)))' = Stored(Manifest(variant_ref(loads[l].variant)))'
      /\ Declared(v)' = Declared(loads[l].variant)'
      /\ IsDownload(v, call.d)' = IsDownload(loads[l].variant, calls[l].d)'
  BY <1>2, <1>3
<1>9. s = "ok" => call.step = "none"
  BY <1>3 DEF NoCall
<1> QED BY <1>2, <1>3, <1>4, <1>5, <1>6, <1>7, <1>8, <1>9 DEF LoadInv

\* A load that takes a step.
LEMMA LoadActionKeeps ==
  ASSUME TypeInv, StoreInv, NEW l \in Loads, LoadsInv, LoadAction(l), Grows, DeclaredStays
  PROVE  LoadInv(l)' /\ OnlyLoad(l)
<1>0. LoadInv(l)
  BY DEF LoadsInv
<1>1. CASE UploadModelArtifact(l)
  <2>1. PICK v \in Variants, b \in Bundles, n \in Nat :
          v = loads[l].variant /\ b = loads[l].bundle /\ n = loads[l].sent
    BY <1>1, UploadEffect
  <2>2. /\ OnlyLoad(l) /\ loads[l].step = "upload" /\ calls' = calls
        /\ loads'[l] = [step |-> IF upload_is_over(b, n + 1) THEN "finalize" ELSE "upload",
                        variant |-> v, bundle |-> b, sent |-> n + 1]
    BY <1>1, <2>1, UploadEffect
  <2>3. Sent(variant_ref(v), b, n + 1)'
    BY <1>1, <2>1, UploadModelStores
  <2>4. n <= Len(b.files) /\ calls[l].step = "none"
    BY <1>0, <2>1, <2>2 DEF LoadInv
  <2>5. Len(b.files) \in Nat /\ upload_order(b)[Len(b.files) + 1] = MANIFEST_FILE_NAME
    BY BundlesAreValid, UploadOrder
  <2>6. /\ loads'[l].variant = v /\ loads'[l].bundle = b /\ loads'[l].sent = n + 1
        /\ calls'[l].step = "none"
        /\ \/ loads'[l].step = "upload" /\ n + 1 <= Len(b.files)
           \/ loads'[l].step = "finalize" /\ n + 1 = Len(b.files) + 1
    BY <2>2, <2>4, <2>5 DEF upload_is_over
  <2>7. n + 1 = Len(b.files) + 1 => Stored(Manifest(variant_ref(v)))'
    BY <2>3, <2>5 DEF Sent, Manifest
  <2>8. Sent(variant_ref(loads[l].variant), loads[l].bundle, loads[l].sent)'
    BY <2>3, <2>6
  <2>9. n + 1 = Len(b.files) + 1 => Stored(Manifest(variant_ref(loads[l].variant)))'
    BY <2>6, <2>7
  <2>10. LoadInv(l)'
    BY <2>6, <2>8, <2>9 DEF LoadInv, Known
  <2> QED BY <2>2, <2>10
<1>2. CASE FinalizeModelVariantRegistration(l)
  <2>1. /\ OnlyLoad(l) /\ loads[l].step = "finalize"
        /\ \/ Goes(l, "waiting") /\ calls'[l] = [step |-> "model"]
           \/ Goes(l, "failed") /\ calls'[l] = calls[l]
    BY <1>2, FinalizeEffect
  <2> QED BY <1>0, <2>1, LoadGoes DEF Known
<1>3. CASE LoadFails(l)
  <2>1. /\ OnlyLoad(l) /\ loads[l].step # "new" /\ Goes(l, "failed") /\ calls'[l] = calls[l]
    BY <1>3, LoadFailsEffect
  <2> QED BY <1>0, <2>1, LoadGoes
<1>4. ASSUME calls[l].step # "none", Refused(l)
      PROVE  LoadInv(l)'
  <2>1. CASE loads[l].step = "waiting" /\ Goes(l, "failed")
    BY <1>0, <1>4, <2>1, LoadGoes DEF Refused
  <2>2. CASE loads[l].step # "waiting" /\ loads'[l] = loads[l]
    <3>1. Known(l) /\ loads[l].step = "failed" /\ Goes(l, "failed")
      BY <1>0, <1>4, <2>2, LoadType DEF Known, LoadInv, Goes
    <3> QED BY <1>0, <1>4, <3>1, LoadGoes DEF Refused
  <2> QED BY <1>4, <2>1, <2>2 DEF Refused
<1>5. CASE GetModel(l)
  <2>1. /\ OnlyLoad(l) /\ calls[l].step = "model"
        /\ \/ Refused(l)
           \/ /\ calls'[l] = [step |-> "download",
                              d |-> start_download(variant_ref(loads[l].variant))]
              /\ loads'[l] = loads[l]
    BY <1>5, GetModelEffect
  <2>2. CASE /\ calls'[l] = [step |-> "download",
                             d |-> start_download(variant_ref(loads[l].variant))]
             /\ loads'[l] = loads[l]
    <3>1. PICK v : v = loads[l].variant
      OBVIOUS
    <3>2. Known(l) /\ loads[l].step \in {"waiting", "failed"}
      BY <1>0, <2>1, LoadType DEF Known, LoadInv
    <3>3. Stored(Manifest(variant_ref(v))) /\ loads[l].sent = Len(loads[l].bundle.files) + 1
      BY <1>0, <3>1, <3>2 DEF LoadInv
    <3>4. PICK d : d = start_download(variant_ref(v))
      OBVIOUS
    <3>5. IsDownload(v, d)' /\ Stored(Manifest(variant_ref(v)))'
      BY <3>3, <3>4, StartedDownload, DownloadStays DEF Grows
    <3>6. calls'[l].step = "download" /\ calls'[l].d = d /\ loads'[l].variant = v
      BY <2>2, <3>1, <3>4
    <3>7. IsDownload(loads[l].variant, calls[l].d)' /\ Stored(Manifest(variant_ref(loads[l].variant)))'
      BY <3>5, <3>6
    <3> QED BY <2>1, <2>2, <3>2, <3>3, <3>6, <3>7 DEF LoadInv
  <2> QED BY <1>4, <2>1, <2>2
<1>6. CASE DownloadVariant(l)
  <2>1. PICK v, d, e : /\ v = loads[l].variant /\ d = calls[l].d
                       /\ e = download_file(objects, d)
    OBVIOUS
  <2>2. /\ OnlyLoad(l) /\ loads' = loads /\ calls[l].step = "download" /\ ~download_is_over(d)
        /\ calls'[l] = [step |-> "download", d |-> e]
    BY <1>6, <2>1, DownloadEffect
  <2>3. Known(l) /\ loads[l].step \in {"waiting", "failed"}
    BY <1>0, <2>2, LoadType DEF Known, LoadInv
  <2>4. /\ Stored(Manifest(variant_ref(v))) /\ loads[l].sent = Len(loads[l].bundle.files) + 1
        /\ IsDownload(v, d)
    BY <1>0, <2>1, <2>2, <2>3 DEF LoadInv
  <2>5. v \in Variants
    BY <2>1, <2>3, LoadType
  <2>6. IsDownload(v, e)
    BY <2>1, <2>2, <2>4, <2>5, DownloadStep
  <2>7. IsDownload(v, e)' /\ Stored(Manifest(variant_ref(v)))'
    BY <2>4, <2>6, DownloadStays DEF Grows
  <2>8. calls'[l].step = "download" /\ calls'[l].d = e /\ loads'[l].variant = v
    BY <2>1, <2>2
  <2>9. IsDownload(loads[l].variant, calls[l].d)' /\ Stored(Manifest(variant_ref(loads[l].variant)))'
    BY <2>7, <2>8
  <2> QED BY <2>2, <2>3, <2>4, <2>8, <2>9 DEF LoadInv
<1>7. CASE AddProfiledModelVariant(l)
  <2>1. PICK v : v = loads[l].variant
    OBVIOUS
  <2>2. calls[l].step = "download"
    BY <1>7 DEF AddProfiledModelVariant
  <2>3. Known(l) /\ loads[l].step \in {"waiting", "failed"}
    BY <1>0, <2>2, LoadType DEF Known, LoadInv
  <2>4. Stored(Manifest(variant_ref(v))) /\ loads[l].sent = Len(loads[l].bundle.files) + 1
    BY <1>0, <2>1, <2>3 DEF LoadInv
  <2>5. OnlyLoad(l) /\ loads' = loads /\ calls'[l] = [step |-> "pop"]
    BY <1>7, <2>3, AddEffect
  <2>6. Declared(v)' /\ Stored(Manifest(variant_ref(v)))'
    BY <1>7, <2>1, <2>4, Declares DEF Grows
  <2>7. Declared(loads[l].variant)' /\ Stored(Manifest(variant_ref(loads[l].variant)))'
    BY <2>1, <2>5, <2>6
  <2> QED BY <2>3, <2>4, <2>5, <2>7 DEF LoadInv
<1>8. CASE PopPending(l)
  <2>1. /\ OnlyLoad(l) /\ calls[l].step = "pop" /\ calls'[l] = NoCall
        /\ \/ loads[l].step = "waiting" /\ Goes(l, "ok")
           \/ loads[l].step # "waiting" /\ loads'[l] = loads[l]
    BY <1>8, PopEffect
  <2>2. CASE loads[l].step = "waiting" /\ Goes(l, "ok")
    BY <1>0, <2>1, <2>2, LoadGoes DEF Known
  <2>3. CASE loads[l].step # "waiting" /\ loads'[l] = loads[l]
    <3>1. loads[l].step = "failed" /\ Goes(l, "failed")
      BY <1>0, <2>1, <2>3, LoadType DEF Known, LoadInv, Goes
    <3> QED BY <1>0, <2>1, <3>1, LoadGoes
  <2> QED BY <2>1, <2>2, <2>3
<1>9. CASE FinalizeFails(l)
  <2>1. OnlyLoad(l) /\ calls[l].step # "none" /\ Refused(l)
    BY <1>9, FinalizeFailsEffect
  <2> QED BY <1>4, <2>1
<1> QED BY <1>1, <1>2, <1>3, <1>5, <1>6, <1>7, <1>8, <1>9 DEF LoadAction

LEMMA NextLoadsInv ==
  ASSUME Inv, [Next]_vars
  PROVE  LoadsInv'
<1> USE DEF Inv
<1>0. Grows /\ DeclaredStays
  BY NextStoreInv
<1>1. SUFFICES ASSUME NEW k \in Loads
               PROVE  LoadInv(k)'
  BY DEF LoadsInv
<1>2. LoadInv(k)
  BY DEF LoadsInv
<1>3. loads'[k] = loads[k] /\ calls'[k] = calls[k] => LoadInv(k)'
  BY <1>0, <1>2, LoadStays
<1>4. CASE UNCHANGED <<loads, calls>>
  BY <1>3, <1>4
<1>5. ASSUME NEW l \in Loads, NEW v \in Variants, NEW b \in Bundles,
             StartModelVariantRegistration(l, v, b)
      PROVE  LoadInv(k)'
  <2>1. /\ OnlyLoad(l) /\ loads[l].step = "new" /\ calls' = calls
        /\ loads'[l] = [step |-> "upload", variant |-> v, bundle |-> b, sent |-> 0]
    BY <1>5, StartEffect
  <2>2. CASE k # l
    BY <1>3, <2>1, <2>2 DEF OnlyLoad
  <2>3. CASE k = l
    <3>1. calls'[k].step = "none"
      BY <1>2, <2>1, <2>3 DEF LoadInv
    <3>2. /\ loads'[k].step = "upload" /\ loads'[k].variant = v /\ loads'[k].bundle = b
          /\ loads'[k].sent = 0
      BY <2>1, <2>3
    <3>3. Len(b.files) \in Nat
      BY BundlesAreValid, UploadOrder
    <3>4. Sent(variant_ref(loads[k].variant), loads[k].bundle, loads[k].sent)'
      BY <3>2, <3>3 DEF Sent
    <3> QED BY <3>1, <3>2, <3>3, <3>4 DEF LoadInv, Known
  <2> QED BY <2>2, <2>3
<1>6. ASSUME NEW l \in Loads, LoadAction(l)
      PROVE  LoadInv(k)'
  <2>1. LoadInv(l)' /\ OnlyLoad(l)
    BY <1>0, <1>6, LoadActionKeeps
  <2> QED BY <1>3, <2>1 DEF OnlyLoad
<1>7. CASE ManagerRestarts
  <2>1. /\ calls'[k] = NoCall
        /\ \/ loads[k].step = "waiting" /\ Goes(k, "failed")
           \/ loads[k].step # "waiting" /\ loads'[k] = loads[k]
    BY <1>7, RestartEffect
  <2>2. CASE loads[k].step = "waiting" /\ Goes(k, "failed")
    BY <1>0, <1>2, <2>1, <2>2, LoadGoes
  <2>3. CASE loads[k].step = "failed" /\ loads'[k] = loads[k]
    <3>1. Goes(k, "failed")
      BY <2>3 DEF Goes
    <3> QED BY <1>0, <1>2, <2>1, <2>3, <3>1, LoadGoes
  <2>4. CASE loads[k].step \notin {"waiting", "failed"} /\ loads'[k] = loads[k]
    <3>1. calls[k].step = "none"
      BY <1>2, <2>4, LoadType DEF LoadInv
    <3>2. calls[k] = NoCall
      BY <3>1 DEF TypeInv, IsCall
    <3> QED BY <1>3, <2>1, <2>4, <3>2
  <2> QED BY <2>1, <2>2, <2>3, <2>4
<1>8. ASSUME NEW w \in Workers, RoundAction(w)
      PROVE  UNCHANGED <<loads, calls>>
  BY <1>8, RoundEffect DEF RoundAction, RoundStep, workerRest
<1>9. ASSUME NEW c \in Builds, BuildAction(c)
      PROVE  UNCHANGED <<loads, calls>>
  BY <1>9 DEF BuildAction, DownloadForPartition, UploadPartition, AddModelPartition, BuildFails
<1> QED BY <1>4, <1>5, <1>6, <1>7, <1>8, <1>9
        DEF Next, vars, RegisterModel, GenerateModelPartition, LoadAction, BuildAction,
            RoundAction

\* Of a partition's bundle only what the files hold depends on the download.
LEMMA PartitionSent ==
  ASSUME NEW ref, NEW layers, NEW d, NEW e, NEW n,
         Sent(ref, partition_bundle(layers, d), n)
  PROVE  Sent(ref, partition_bundle(layers, e), n)
<1>1. partition_bundle(layers, d).files = partition_bundle(layers, e).files
  BY PartitionFiles
<1> QED BY <1>1 DEF Sent, upload_order

\* What BuildsInv says of one build.
BuildInv(c) ==
  builds[c].step = "download" =>
    /\ IsDownload(builds[c].variant, builds[c].d)
    /\ Sent(partition_ref(builds[c].variant, builds[c].layers),
            partition_bundle(builds[c].layers, builds[c].d), builds[c].sent)

\* The call after a step: d is where its download is, n how much it sent.
LEMMA BuildGoes ==
  ASSUME NEW c \in Builds, NEW v, NEW layers, NEW d, NEW n,
         builds'[c] = [step |-> "download", variant |-> v, layers |-> layers, sent |-> n,
                       d |-> d],
         IsDownload(v, d)', Sent(partition_ref(v, layers), partition_bundle(layers, d), n)'
  PROVE  BuildInv(c)'
<1>1. /\ builds'[c].variant = v /\ builds'[c].layers = layers /\ builds'[c].sent = n
      /\ builds'[c].d = d
  OBVIOUS
<1>2. IsDownload(builds[c].variant, builds[c].d)'
  BY <1>1
<1>3. Sent(partition_ref(builds[c].variant, builds[c].layers),
           partition_bundle(builds[c].layers, builds[c].d), builds[c].sent)'
  BY <1>1
<1> QED BY <1>2, <1>3 DEF BuildInv

LEMMA NextBuildsInv ==
  ASSUME Inv, [Next]_vars
  PROVE  BuildsInv'
<1> USE DEF Inv
<1>0. TypeInv' /\ Grows
  BY NextStoreInv
<1>1. SUFFICES ASSUME NEW k \in Builds
               PROVE  BuildInv(k)'
  BY DEF BuildsInv, BuildInv
<1>2. BuildInv(k)
  BY DEF BuildsInv, BuildInv
<1>3. ASSUME builds'[k] = builds[k] PROVE BuildInv(k)'
  <2>1. CASE builds[k].step = "download"
    <3>1. PICK v, layers, d, n :
            /\ v = builds[k].variant /\ layers = builds[k].layers /\ d = builds[k].d
            /\ n = builds[k].sent
            /\ builds[k] = [step |-> "download", variant |-> v, layers |-> layers,
                            sent |-> n, d |-> d]
      BY <2>1, BuildType
    <3>2. PICK ref, bundle : ref = partition_ref(v, layers) /\ bundle = partition_bundle(layers, d)
      OBVIOUS
    <3>3. IsDownload(v, d) /\ Sent(ref, bundle, n)
      BY <1>2, <2>1, <3>1, <3>2 DEF BuildInv
    <3>4. IsDownload(v, d)' /\ Sent(ref, bundle, n)'
      BY <1>0, <3>3, DownloadStays, SentStays
    <3>5. Sent(partition_ref(v, layers), partition_bundle(layers, d), n)'
      BY <3>2, <3>4
    <3> QED BY <1>3, <3>1, <3>4, <3>5, BuildGoes
  <2>2. CASE builds[k].step # "download"
    BY <1>3, <2>2 DEF BuildInv
  <2> QED BY <2>1, <2>2
<1>4. ASSUME NEW c \in Builds, NEW v \in Variants, NEW layers \in LayerSets,
             GenerateModelPartition(c, v, layers)
      PROVE  BuildInv(k)'
  <2>1. PICK d : d = start_download(variant_ref(v))
    OBVIOUS
  <2>2. /\ OnlyBuild(c) /\ Declared(v)
        /\ builds'[c] = [step |-> "download", variant |-> v, layers |-> layers, sent |-> 0,
                         d |-> d]
    BY <1>4, <2>1, GenerateEffect
  <2>3. Stored(Manifest(variant_ref(v)))
    BY <2>2 DEF DeclaredInv
  <2>4. IsDownload(v, d)'
    BY <1>0, <2>1, <2>3, StartedDownload, DownloadStays
  <2>5. Len(partition_bundle(layers, d).files) \in Nat
    BY PartitionFiles, UploadOrder
  <2>6. Sent(partition_ref(v, layers), partition_bundle(layers, d), 0)'
    BY <2>5 DEF Sent
  <2> QED BY <1>3, <2>2, <2>4, <2>6, BuildGoes DEF OnlyBuild
<1>5. ASSUME NEW c \in Builds, DownloadForPartition(c)
      PROVE  BuildInv(k)'
  <2>1. builds[c].step = "download" /\ ~download_is_over(builds[c].d) /\ OnlyBuild(c)
    BY <1>5, DownloadForPartitionEffect
  <2>2. PICK v, layers, d, n :
          /\ v \in Variants /\ v = builds[c].variant /\ layers = builds[c].layers /\ d = builds[c].d
          /\ n = builds[c].sent
    BY <2>1, BuildType
  <2>3. PICK e : e = download_file(objects, d)
    OBVIOUS
  <2>4. builds'[c] = [step |-> "download", variant |-> v, layers |-> layers, sent |-> n,
                      d |-> e]
    BY <1>5, <2>2, <2>3, DownloadForPartitionEffect
  <2>5. PICK ref, bundle : ref = partition_ref(v, layers) /\ bundle = partition_bundle(layers, e)
    OBVIOUS
  <2>6. /\ IsDownload(v, d)
        /\ Sent(partition_ref(v, layers), partition_bundle(layers, d), n)
    BY <2>1, <2>2 DEF BuildsInv
  <2>7. IsDownload(v, e) /\ Sent(ref, bundle, n)
    BY <2>1, <2>2, <2>3, <2>5, <2>6, DownloadStep, PartitionSent
  <2>8. IsDownload(v, e)' /\ Sent(ref, bundle, n)'
    BY <1>0, <2>7, DownloadStays, SentStays
  <2>9. Sent(partition_ref(v, layers), partition_bundle(layers, e), n)'
    BY <2>5, <2>8
  <2> QED BY <1>3, <2>1, <2>4, <2>8, <2>9, BuildGoes DEF OnlyBuild
<1>6. ASSUME NEW c \in Builds, UploadPartition(c)
      PROVE  BuildInv(k)'
  <2>1. builds[c].step = "download" /\ OnlyBuild(c)
    BY <1>6, UploadPartitionEffect
  <2>2. PICK v, layers, d, n :
          /\ v = builds[c].variant /\ layers = builds[c].layers /\ d = builds[c].d
          /\ n = builds[c].sent
    OBVIOUS
  <2>3. builds'[c] = [step |-> "download", variant |-> v, layers |-> layers, sent |-> n + 1,
                      d |-> d]
    BY <1>6, <2>2, UploadPartitionEffect
  <2>4. PICK ref, bundle : ref = partition_ref(v, layers) /\ bundle = partition_bundle(layers, d)
    OBVIOUS
  <2>5. IsDownload(v, d)
    BY <2>1, <2>2 DEF BuildsInv
  <2>6. IsDownload(v, d)' /\ Sent(ref, bundle, n + 1)'
    BY <1>0, <1>6, <2>2, <2>4, <2>5, DownloadStays, UploadPartitionStores
  <2>7. Sent(partition_ref(v, layers), partition_bundle(layers, d), n + 1)'
    BY <2>4, <2>6
  <2> QED BY <1>3, <2>1, <2>3, <2>6, <2>7, BuildGoes DEF OnlyBuild
<1>7. ASSUME NEW c \in Builds, AddModelPartition(c) \/ BuildFails(c)
      PROVE  BuildInv(k)'
  <2>1. OnlyBuild(c) /\ builds'[c] = NoCall
    BY <1>7, BuildEndEffect
  <2> QED BY <1>3, <2>1 DEF OnlyBuild, BuildInv, NoCall
<1>8. CASE ManagerRestarts
  BY <1>8, RestartEffect DEF BuildInv, NoCall
<1>9. ASSUME NEW l \in Loads, LoadAction(l)
      PROVE  UNCHANGED builds
  BY <1>9 DEF LoadAction, UploadModelArtifact, FinalizeModelVariantRegistration, LoadFails,
     GetModel, DownloadVariant, AddProfiledModelVariant, PopPending, FinalizeFails
<1>10. ASSUME NEW w \in Workers, RoundAction(w)
       PROVE  UNCHANGED builds
  BY <1>10, RoundEffect DEF RoundAction, RoundStep, workerRest
<1> QED BY <1>3, <1>4, <1>5, <1>6, <1>7, <1>8, <1>9, <1>10
        DEF Next, vars, RegisterModel, StartModelVariantRegistration, LoadAction, RoundAction

\* A round that stands still.
LEMMA RoundStays ==
  ASSUME RoundsInv, Grows, DeclaredStays, NEW k \in Workers, rounds'[k] = rounds[k]
  PROVE  /\ rounds'[k].left \subseteq available_ids'
         /\ rounds'[k].step = "download" => IsDownload(rounds[k].variant, rounds[k].d)'
<1>1. PICK v, d : v = rounds[k].variant /\ d = rounds[k].d
  OBVIOUS
<1>2. rounds[k].step = "download" => IsDownload(v, d)'
  BY <1>1, DownloadStays DEF RoundsInv
<1>3. IsDownload(v, d)' = IsDownload(rounds[k].variant, rounds[k].d)'
  BY <1>1
<1> QED BY <1>2, <1>3 DEF RoundsInv, available_ids, DeclaredStays

LEMMA NextRoundsInv ==
  ASSUME Inv, [Next]_vars
  PROVE  RoundsInv'
<1> USE DEF Inv
<1>0. Grows /\ DeclaredStays /\ available_ids \subseteq available_ids'
  BY NextStoreInv DEF DeclaredStays, available_ids
<1>1. CASE UNCHANGED rounds
  BY <1>0, <1>1, RoundStays DEF RoundsInv
<1>2. ASSUME NEW w \in Workers, RoundStep(w)
      PROVE  RoundsInv'
  <2>1. OnlyRound(w) /\ UNCHANGED objects /\ rounds[w].left \subseteq available_ids
    BY <1>2 DEF RoundStep, workerRest, RoundsInv
  <2>2. /\ rounds'[w].left \subseteq available_ids'
        /\ rounds'[w].step = "download" => IsDownload(rounds[w].variant, rounds[w].d)'
    <3>1. CASE rounds'[w].step \in {"sleep", "next"} /\ rounds'[w].left \subseteq available_ids
      BY <1>0, <3>1
    <3>2. CASE /\ rounds'[w].step = "download"
               /\ rounds'[w].left \subseteq rounds[w].left
               /\ rounds'[w].variant \in rounds[w].left
               /\ rounds'[w].d = start_download(variant_ref(rounds'[w].variant))
      <4>1. PICK v, d : v = rounds'[w].variant /\ d = rounds'[w].d
        OBVIOUS
      <4>2. Stored(Manifest(variant_ref(v)))
        BY <2>1, <3>2, <4>1 DEF available_ids, DeclaredInv
      <4>3. IsDownload(v, d)'
        BY <1>0, <3>2, <4>1, <4>2, StartedDownload, DownloadStays
      <4>4. IsDownload(v, d)' = IsDownload(rounds[w].variant, rounds[w].d)'
        BY <4>1
      <4> QED BY <1>0, <2>1, <3>2, <4>3, <4>4
    <3>3. CASE /\ rounds'[w].step = "download" /\ rounds[w].step = "download"
               /\ rounds'[w].left = rounds[w].left /\ rounds'[w].variant = rounds[w].variant
               /\ ~download_is_over(rounds[w].d)
               /\ rounds'[w].d = download_file(objects, rounds[w].d)
      <4>1. PICK v, d, e :
              v \in Variants /\ v = rounds[w].variant /\ d = rounds[w].d /\ e = download_file(objects, d)
        BY <3>3 DEF TypeInv, IsRound
      <4>2. IsDownload(v, d)
        BY <3>3, <4>1 DEF RoundsInv
      <4>3. IsDownload(v, e)'
        BY <1>0, <3>3, <4>1, <4>2, DownloadStep, DownloadStays
      <4>4. IsDownload(v, e)' = IsDownload(rounds[w].variant, rounds[w].d)'
        BY <3>3, <4>1
      <4> QED BY <1>0, <2>1, <3>3, <4>3, <4>4
    <3> QED BY <1>2, <2>1, <3>1, <3>2, <3>3 DEF RoundStep
  <2> QED BY <1>0, <2>1, <2>2, RoundStays DEF OnlyRound, RoundsInv
<1>3. ASSUME NEW w \in Workers, RoundAction(w)
      PROVE  RoundStep(w)
  BY <1>3, RoundEffect DEF RoundAction
<1>4. ASSUME NEW l \in Loads, LoadAction(l)
      PROVE  UNCHANGED rounds
  BY <1>4 DEF LoadAction, UploadModelArtifact, FinalizeModelVariantRegistration, LoadFails,
     GetModel, DownloadVariant, AddProfiledModelVariant, PopPending, FinalizeFails, workerVars
<1>5. ASSUME NEW c \in Builds, BuildAction(c)
      PROVE  UNCHANGED rounds
  BY <1>5 DEF BuildAction, DownloadForPartition, UploadPartition, AddModelPartition, BuildFails,
     workerVars
<1> QED BY <1>1, <1>2, <1>3, <1>4, <1>5
        DEF Next, vars, workerVars, RegisterModel, StartModelVariantRegistration,
            GenerateModelPartition, ManagerRestarts, LoadAction, BuildAction, RoundAction

\* Only an upload that is over is declared.
LEMMA NextPartitionsInv ==
  ASSUME Inv, [Next]_vars
  PROVE  PartitionsInv'
<1> USE DEF Inv
<1>0. Grows
  BY NextStoreInv
<1>1. CASE UNCHANGED partitions
  BY <1>0, <1>1 DEF PartitionsInv, Grows
<1>2. ASSUME NEW c \in Builds, AddModelPartition(c)
      PROVE  PartitionsInv'
  <2>1. PICK v, layers, d, n :
          /\ v \in Variants /\ layers \in LayerSets
          /\ v = builds[c].variant /\ layers = builds[c].layers /\ d = builds[c].d
          /\ n = builds[c].sent
    BY <1>2, BuildType DEF AddModelPartition
  <2>2. PICK b : b = partition_bundle(layers, d)
    OBVIOUS
  <2>3. Sent(partition_ref(v, layers), b, n) /\ n = Len(b.files) + 1
    BY <1>2, <2>1, <2>2 DEF BuildsInv, AddModelPartition, upload_is_over
  <2>4. Stored(Manifest(partition_ref(v, layers)))
    BY <2>2, <2>3, PartitionFiles, UploadOrder DEF Sent, Manifest
  <2>5. partitions' = partitions \cup {<<v, layers>>}
    BY <1>2, <2>1 DEF AddModelPartition
  <2>6. ASSUME NEW p \in partitions'
        PROVE  p[1] \in Variants /\ p[2] \in LayerSets /\ Stored(Manifest(partition_ref(p[1], p[2])))
    BY <2>1, <2>4, <2>5 DEF PartitionsInv
  <2> QED BY <1>0, <2>6 DEF PartitionsInv, Grows
<1>3. ASSUME NEW l \in Loads, LoadAction(l)
      PROVE  UNCHANGED partitions
  BY <1>3 DEF LoadAction, UploadModelArtifact, FinalizeModelVariantRegistration, LoadFails,
     GetModel, DownloadVariant, AddProfiledModelVariant, PopPending, FinalizeFails, managerVars
<1>4. ASSUME NEW w \in Workers, RoundAction(w)
      PROVE  UNCHANGED partitions
  BY <1>4, RoundEffect DEF RoundAction, RoundStep, workerRest, managerVars
<1> QED BY <1>1, <1>2, <1>3, <1>4
        DEF Next, vars, managerVars, RegisterModel, StartModelVariantRegistration,
            GenerateModelPartition, DownloadForPartition, UploadPartition, BuildFails,
            ManagerRestarts, LoadAction, RoundAction

-----------------------------------------------------------------------------

\* The invariant: it holds at first, and every step preserves it.
LEMMA InitInv == ASSUME Init PROVE Inv
<1> USE DEF Init
<1>1. TypeInv
  BY DEF TypeInv, LoadTypes, NewLoad, IsCall, IsBuild, IsRound, Sleeping, NoLoad
<1>2. StoreInv /\ PartitionsInv
  BY DEF StoreInv, PartitionsInv, Stored
<1>3. LoadsInv /\ BuildsInv /\ RoundsInv
  BY DEF LoadsInv, LoadInv, Known, BuildsInv, RoundsInv, NewLoad, NoCall, Sleeping
<1>4. DeclaredInv
  BY DEF DeclaredInv, Declared
<1> QED BY <1>1, <1>2, <1>3, <1>4 DEF Inv

LEMMA Invariance == Spec => []Inv
<1>1. Init => Inv
  BY InitInv
<1>2. Inv /\ [Next]_vars => Inv'
  BY NextStoreInv, NextLoadsInv, NextBuildsInv, NextRoundsInv, NextPartitionsInv DEF Inv
<1> QED BY <1>1, <1>2, PTL DEF Spec

\* The artifacts of all declared variants and partitions are whole, and a download
\* that has begun (for a registration, a partition or a profile) finds every file
\* left of it, whatever is uploaded over it and wherever an upload ended.
THEOREM ArtifactsAreWholeHolds == Spec => []ArtifactsAreWhole
<1>1. Inv => ArtifactsAreWhole
  <2> SUFFICES ASSUME Inv PROVE ArtifactsAreWhole
    OBVIOUS
  <2> USE DEF Inv
  <2>1. \A v \in available_ids : Whole(variant_ref(v))
    BY DEF available_ids, DeclaredInv, StoreInv
  <2>2. \A p \in partitions : Whole(partition_ref(p[1], p[2]))
    BY DEF PartitionsInv, StoreInv
  <2>3. ASSUME NEW d \in Downloads
        PROVE  \E v \in Variants : IsDownload(v, d)
    <3>1. ASSUME NEW l \in Loads, calls[l].step = "download"
          PROVE  \E v \in Variants : IsDownload(v, calls[l].d)
      <4>1. LoadInv(l) /\ loads[l].step # "new"
        BY <3>1 DEF LoadsInv, LoadInv, Known
      <4> QED BY <3>1, <4>1, LoadType DEF LoadInv
    <3>2. ASSUME NEW c \in Builds, builds[c].step = "download"
          PROVE  \E v \in Variants : IsDownload(v, builds[c].d)
      BY <3>2, BuildType DEF BuildsInv
    <3>3. ASSUME NEW w \in Workers, rounds[w].step = "download"
          PROVE  \E v \in Variants : IsDownload(v, rounds[w].d)
      BY <3>3 DEF RoundsInv, TypeInv, IsRound
    <3> QED BY <2>3, <3>1, <3>2, <3>3 DEF Downloads
  <2>4. \A d \in Downloads : ~download_is_over(d) => is_stored(objects, d)
    BY <2>3, DownloadStep
  <2> QED BY <2>1, <2>2, <2>4 DEF ArtifactsAreWhole
<1> QED BY <1>1, Invariance, PTL

-----------------------------------------------------------------------------
(* Loads of a variant that come one after the other.                       *)

\* A load that takes a step has not ended.
LEMMA LoadActionRuns ==
  ASSUME TypeInv, NEW l \in Loads, LoadAction(l)
  PROVE  ~Ended(l)
BY DEF LoadAction, Ended, UploadModelArtifact, FinalizeModelVariantRegistration, LoadFails,
   GetModel, DownloadVariant, AddProfiledModelVariant, PopPending, FinalizeFails

\* Load k is of the same variant and no other step of the system starts it or, once
\* it has ended, goes on with it.
Continues(k) ==
  /\ (loads'[k].step = "new") <=> (loads[k].step = "new")
  /\ loads[k].step # "new" => loads'[k].variant = loads[k].variant
  /\ Ended(k) => Ended(k)'

\* Only StartModelVariantRegistration starts a load or changes the history.
LEMMA LoadsContinue ==
  ASSUME Inv, [Next]_vars, NEW k \in Loads,
         ~\E l \in Loads, v \in Variants, b \in Bundles : StartModelVariantRegistration(l, v, b)
  PROVE  Continues(k) /\ UNCHANGED historyVars
<1> USE DEF Inv
<1>0. LoadInv(k)
  BY DEF LoadsInv
<1>1. CASE UNCHANGED <<loads, calls, historyVars>>
  BY <1>1 DEF Continues, Ended
<1>2. ASSUME NEW l \in Loads, LoadAction(l)
      PROVE  Continues(k) /\ UNCHANGED historyVars
  <2>1. UNCHANGED historyVars
    BY <1>2 DEF LoadAction, UploadModelArtifact, FinalizeModelVariantRegistration, LoadFails,
       GetModel, DownloadVariant, AddProfiledModelVariant, PopPending, FinalizeFails
  <2>2. LoadInv(l) /\ ~Ended(l)
    BY <1>2, LoadActionRuns DEF LoadsInv
  <2>3. loads[l].step # "new"
    BY <2>2 DEF LoadInv, Ended
  <2>4. /\ OnlyLoad(l)
        /\ \/ loads'[l] = loads[l]
           \/ loads'[l].step \in {"upload", "finalize"} /\ loads'[l].variant = loads[l].variant
           \/ \E s \in {"waiting", "ok", "failed"} : Goes(l, s)
    <3>1. ASSUME UploadModelArtifact(l)
          PROVE  /\ OnlyLoad(l) /\ loads'[l].variant = loads[l].variant
                 /\ loads'[l].step \in {"upload", "finalize"}
      <4>1. PICK s \in {"upload", "finalize"} :
              \E b, n : loads'[l] = [step |-> s, variant |-> loads[l].variant,
                                    bundle |-> b, sent |-> n]
        BY <3>1, UploadEffect
      <4>2. OnlyLoad(l)
        BY <3>1, UploadEffect
      <4> QED BY <4>1, <4>2
    <3>2. ASSUME Refused(l)
          PROVE  loads'[l] = loads[l] \/ Goes(l, "failed")
      BY <3>2 DEF Refused
    <3>3. ASSUME FinalizeModelVariantRegistration(l) \/ LoadFails(l)
          PROVE  OnlyLoad(l) /\ (Goes(l, "waiting") \/ Goes(l, "failed"))
      BY <3>3, FinalizeEffect, LoadFailsEffect
    <3>4. ASSUME GetModel(l) \/ FinalizeFails(l)
          PROVE  OnlyLoad(l) /\ (Refused(l) \/ loads'[l] = loads[l])
      BY <3>4, GetModelEffect, FinalizeFailsEffect
    <3>5. ASSUME DownloadVariant(l) \/ AddProfiledModelVariant(l)
          PROVE  OnlyLoad(l) /\ loads'[l] = loads[l]
      BY <2>3, <3>5, DownloadEffect, AddEffect
    <3>6. ASSUME PopPending(l)
          PROVE  OnlyLoad(l) /\ (Goes(l, "ok") \/ loads'[l] = loads[l])
      BY <3>6, PopEffect
    <3> QED BY <1>2, <3>1, <3>2, <3>3, <3>4, <3>5, <3>6 DEF LoadAction
  <2>5. loads'[l].step # "new" /\ loads'[l].variant = loads[l].variant
    BY <2>3, <2>4 DEF Goes
  <2> QED BY <2>1, <2>2, <2>3, <2>4, <2>5 DEF Continues, OnlyLoad, Ended
<1>3. CASE ManagerRestarts
  <2>1. /\ calls'[k] = NoCall
        /\ \/ loads[k].step = "waiting" /\ Goes(k, "failed")
           \/ loads[k].step # "waiting" /\ loads'[k] = loads[k]
    BY <1>3, RestartEffect
  <2>2. UNCHANGED historyVars
    BY <1>3 DEF ManagerRestarts
  <2> QED BY <2>1, <2>2 DEF Continues, Goes, Ended, NoCall
<1>4. ASSUME NEW w \in Workers, RoundAction(w)
      PROVE  UNCHANGED <<loads, calls, historyVars>>
  BY <1>4, RoundEffect DEF RoundAction, RoundStep, workerRest
<1>5. ASSUME NEW c \in Builds, BuildAction(c)
      PROVE  UNCHANGED <<loads, calls, historyVars>>
  BY <1>5 DEF BuildAction, DownloadForPartition, UploadPartition, AddModelPartition, BuildFails
<1> QED BY <1>1, <1>2, <1>3, <1>4, <1>5
        DEF Next, vars, RegisterModel, GenerateModelPartition, LoadAction, BuildAction,
            RoundAction

\* What a start notes.
LEMMA StartHistory ==
  ASSUME TypeInv, NEW l \in Loads, NEW v \in Variants, NEW b \in Bundles,
         StartModelVariantRegistration(l, v, b)
  PROVE  /\ newest'[v] = l /\ \A u \in Variants : u # v => newest'[u] = newest[u]
         /\ overlapped \subseteq overlapped'
         /\ v \notin overlapped' => \A k \in Loads : Ended(k) \/ loads[k].variant # v
BY DEF StartModelVariantRegistration, TypeInv

LEMMA NextOneAtATime ==
  ASSUME Inv, OneAtATime, [Next]_vars
  PROVE  OneAtATime'
<1> USE DEF Inv
<1>1. ASSUME NEW l \in Loads, NEW v \in Variants, NEW b \in Bundles,
             StartModelVariantRegistration(l, v, b)
      PROVE  OneAtATime'
  <2>0. /\ OnlyLoad(l) /\ calls' = calls
        /\ loads'[l] = [step |-> "upload", variant |-> v, bundle |-> b, sent |-> 0]
    BY <1>1, StartEffect
  <2>1. /\ OnlyLoad(l) /\ calls' = calls
        /\ loads'[l].step = "upload" /\ loads'[l].variant = v
    BY <2>0
  <2>2. ASSUME NEW k \in Loads, ~Ended(k)', loads'[k].variant \notin overlapped'
        PROVE  Alone(k)'
    <3>1. CASE k = l
      BY <1>1, <2>1, <2>2, <3>1, StartHistory DEF Alone
    <3>2. CASE k # l
      <4>1. loads'[k] = loads[k] /\ ~Ended(k)
        BY <2>1, <2>2, <3>2 DEF OnlyLoad, Ended
      <4>2. loads[k].step # "new"
        BY <4>1 DEF LoadsInv, LoadInv, Ended
      <4>3. loads[k].variant # v /\ loads[k].variant \notin overlapped
        BY <1>1, <2>2, <4>1, StartHistory
      <4>4. Alone(k) /\ loads[k].variant \in Variants
        BY <4>1, <4>2, <4>3, LoadType DEF OneAtATime
      <4> QED BY <1>1, <2>2, <4>1, <4>3, <4>4, StartHistory DEF Alone
    <3> QED BY <3>1, <3>2
  <2> QED BY <2>2 DEF OneAtATime
<1>2. CASE ~\E l \in Loads, v \in Variants, b \in Bundles : StartModelVariantRegistration(l, v, b)
  <2>1. ASSUME NEW k \in Loads, ~Ended(k)', loads'[k].variant \notin overlapped'
        PROVE  Alone(k)'
    <3>1. Continues(k) /\ UNCHANGED <<newest, overlapped>>
      BY <1>2, LoadsContinue DEF historyVars
    <3>2. ~Ended(k)
      BY <2>1, <3>1 DEF Continues
    <3>3. loads[k].step # "new"
      BY <3>2 DEF LoadsInv, LoadInv, Ended
    <3>4. Alone(k)
      BY <2>1, <3>1, <3>2, <3>3 DEF OneAtATime, Continues
    <3> QED BY <3>1, <3>3, <3>4 DEF Alone, Continues
  <2> QED BY <2>1 DEF OneAtATime
<1> QED BY <1>1, <1>2

\* What is declared and stored of variant v stays the same.
Kept(v) ==
  /\ profiles'[v] = profiles[v]
  /\ \A key : key[1] = variant_ref(v) /\ Stored(key) =>
       Stored(key)' /\ objects'[key] = objects[key]

\* Whatever is not a step of a load that is alone leaves the artifact it loads alone.
LEMMA OthersKeep ==
  ASSUME Inv, OneAtATime, [Next]_vars, NEW k \in Loads, Alone(k), ~LoadAction(k)
  PROVE  \A v : v = loads[k].variant => Kept(v)
<1> USE DEF Inv
<1>0. PICK v \in Variants : v = loads[k].variant
  BY LoadType DEF Alone
<1>1. CASE UNCHANGED <<profiles, objects>>
  BY <1>1 DEF Kept, Stored
<1>2. ASSUME NEW l \in Loads, LoadAction(l)
      PROVE  Kept(v)
  <2>1. loads[l].step # "new"
    BY <1>2, LoadActionRuns DEF LoadsInv, LoadInv, Ended
  <2>2. PICK u \in Variants : u = loads[l].variant
    BY <2>1, LoadType
  <2>3. u # v
    <3> SUFFICES ASSUME u = v PROVE FALSE
      OBVIOUS
    <3>1. ~Ended(l) /\ loads[l].variant \notin overlapped
      BY <1>0, <1>2, <2>2, LoadActionRuns DEF Alone
    <3>2. newest[v] = l /\ newest[v] = k
      BY <1>0, <2>2, <3>1 DEF OneAtATime, Alone
    <3> QED BY <1>2, <3>2
  <2>4. CASE UploadModelArtifact(l)
    <3>1. PICK b, n : objects' = upload_file(objects, variant_ref(u), b, n)
      BY <2>2, <2>4, UploadEffect
    <3>2. UNCHANGED profiles
      BY <2>4 DEF UploadModelArtifact, managerVars
    <3>3. \A key : key[1] = variant_ref(v) =>
            key # object_key(variant_ref(u), upload_order(b)[n + 1])
      BY <2>3 DEF object_key, variant_ref
    <3> QED BY <3>1, <3>2, <3>3 DEF upload_file, Kept, Stored
  <2>5. CASE AddProfiledModelVariant(l)
    <3>1. profiles'[v] = profiles[v]
      BY <2>1, <2>2, <2>3, <2>5, AddEffect
    <3>2. UNCHANGED objects
      BY <2>5 DEF AddProfiledModelVariant
    <3> QED BY <3>1, <3>2 DEF Kept, Stored
  <2>6. CASE ~UploadModelArtifact(l) /\ ~AddProfiledModelVariant(l)
    <3>1. UNCHANGED <<profiles, objects>>
      BY <1>2, <2>6 DEF LoadAction, FinalizeModelVariantRegistration, LoadFails, GetModel,
         DownloadVariant, PopPending, FinalizeFails, managerVars
    <3> QED BY <3>1 DEF Kept, Stored
  <2> QED BY <2>4, <2>5, <2>6
<1>3. ASSUME NEW c \in Builds, BuildAction(c)
      PROVE  Kept(v)
  <2>1. UNCHANGED profiles
    BY <1>3 DEF BuildAction, DownloadForPartition, UploadPartition, AddModelPartition,
       BuildFails, managerVars
  <2>2. CASE UploadPartition(c)
    BY <2>1, <2>2, UploadPartitionStores DEF Kept
  <2>3. CASE ~UploadPartition(c)
    <3>1. UNCHANGED objects
      BY <1>3, <2>3 DEF BuildAction, DownloadForPartition, AddModelPartition, BuildFails
    <3> QED BY <2>1, <3>1 DEF Kept, Stored
  <2> QED BY <2>2, <2>3
<1>4. ASSUME NEW w \in Workers, RoundAction(w)
      PROVE  UNCHANGED <<profiles, objects>>
  BY <1>4, RoundEffect DEF RoundAction, RoundStep, workerRest, managerVars
<1>5. Kept(v)
  BY <1>1, <1>2, <1>3, <1>4
     DEF Next, vars, managerVars, RegisterModel, StartModelVariantRegistration,
         GenerateModelPartition, ManagerRestarts, LoadAction, BuildAction, RoundAction, Kept, Stored
<1> QED BY <1>0, <1>5

\* A step that keeps the artifact, and what the load got of it unless its call ends.
LEMMA EffectStays ==
  ASSUME NEW l \in Loads, EffectAt(l), Alone(l),
         \A v : v = loads[l].variant => Kept(v),
         loads'[l].variant = loads[l].variant, loads'[l].bundle = loads[l].bundle,
         loads'[l].sent = loads[l].sent,
         calls'[l] = calls[l] \/ calls'[l].step \in {"none", "model"},
         loads'[l].step = "ok" => loads[l].step = "ok" \/ calls[l].step = "pop"
  PROVE  EffectAt(l)'
<1>1. PICK v, b, n, call :
        v = loads[l].variant /\ b = loads[l].bundle /\ n = loads[l].sent /\ call = calls'[l]
  OBVIOUS
<1>2. Kept(v)
  BY <1>1
<1>3. Holds(v, b, n)
  BY <1>1 DEF EffectAt
<1>4. \A i \in 1 .. n : object_key(variant_ref(v), upload_order(b)[i])[1] = variant_ref(v)
  BY DEF object_key
<1>5. Holds(v, b, n)'
  BY <1>2, <1>3, <1>4 DEF Holds, Kept
<1>6. call.step = "download" => IsOf(b, call.d)
  BY <1>1 DEF EffectAt
<1>7. call.step = "pop" \/ loads'[l].step = "ok" => profiles'[v] = contents(b)
  BY <1>1, <1>2 DEF EffectAt, Kept
<1>8. Holds(v, b, n)' = Holds(loads[l].variant, loads[l].bundle, loads[l].sent)'
  BY <1>1
<1> QED BY <1>1, <1>5, <1>6, <1>7, <1>8 DEF EffectAt

\* The download of a load whose bundle is what the store holds.
LEMMA DownloadOfBundle ==
  ASSUME NEW v, NEW b, ValidFiles(b), Holds(v, b, Len(b.files) + 1),
         NEW d, IsDownload(v, d), IsOf(b, d), ~download_is_over(d)
  PROVE  IsOf(b, download_file(objects, d))
<1>1. /\ d = [ref |-> variant_ref(v), manifest |-> d.manifest, got |-> d.got]
      /\ d.got \in Seq(Contents)
  BY DEF IsDownload
<1>2. /\ Len(b.files) \in Nat /\ upload_order(b)[Len(b.files) + 1] = MANIFEST_FILE_NAME
      /\ \A i \in 1 .. Len(b.files) : upload_order(b)[i] = b.files[i]
  BY UploadOrder
<1> DEFINE e == download_file(objects, d)
<1>3. CASE ~manifest_is_read(d)
  <2>1. next_object(d) = object_key(variant_ref(v), upload_order(b)[Len(b.files) + 1])
    BY <1>1, <1>2, <1>3 DEF next_object
  <2>2. objects[next_object(d)] = b
    BY <1>2, <2>1 DEF Holds
  <2>3. e = [ref |-> variant_ref(v), manifest |-> b, got |-> d.got] /\ d.got = <<>>
    BY <1>1, <1>3, <2>2 DEF download_file, IsDownload
  <2>4. e.manifest = b /\ Len(e.got) = 0
    BY <2>3
  <2> HIDE DEF e
  <2> QED BY <2>4 DEF IsOf, e
<1>4. CASE manifest_is_read(d)
  <2> DEFINE n == Len(d.got)
  <2>1. d.manifest = b /\ n \in Nat /\ n < Len(b.files)
    BY <1>1, <1>2, <1>4 DEF IsOf, IsDownload, download_is_over
  <2>2. next_object(d) = object_key(variant_ref(v), upload_order(b)[n + 1])
    BY <1>1, <1>2, <1>4, <2>1 DEF next_object
  <2>3. objects[next_object(d)] = b
    BY <1>2, <2>1, <2>2 DEF Holds
  <2>4. e = [ref |-> variant_ref(v), manifest |-> b, got |-> Append(d.got, b.of)]
    <3>1. PICK got : got = Append(d.got, b.of)
      OBVIOUS
    <3>2. e = [d EXCEPT !.got = got]
      BY <1>4, <2>3, <3>1 DEF download_file
    <3> HIDE DEF e
    <3>3. e = [ref |-> variant_ref(v), manifest |-> d.manifest, got |-> got]
      BY <1>1, <3>2
    <3> QED BY <2>1, <3>1, <3>3
  <2>5. /\ e.manifest = b /\ e.got = Append(d.got, b.of)
    BY <2>4
  <2>6. PICK S : d.got \in Seq(S) /\ b.of \in S
    <3>1. d.got \in Seq(Contents \cup {b.of})
      BY <1>1
    <3> QED BY <3>1
  <2> HIDE DEF e
  <2>7. Len(e.got) = n + 1 /\ \A i \in 1 .. n + 1 : e.got[i] = b.of
    <3>1. Len(e.got) = n + 1 /\ e.got[n + 1] = b.of /\ \A i \in 1 .. n : e.got[i] = d.got[i]
      BY <2>1, <2>5, <2>6
    <3>2. \A i \in 1 .. n + 1 : i \in 1 .. n \/ i = n + 1
      BY <2>1
    <3> QED BY <3>1, <3>2 DEF IsOf
  <2> QED BY <2>5, <2>7 DEF IsOf, e
<1> QED BY <1>3, <1>4

\* Over, it got all of it.
LEMMA DownloadedBundle ==
  ASSUME NEW v, NEW b, ValidFiles(b), NEW d, IsDownload(v, d), IsOf(b, d), download_is_over(d)
  PROVE  d.got = contents(b)
<1>1. d.got \in Seq(Contents) /\ Len(d.got) = Len(b.files)
  BY DEF IsDownload, IsOf, download_is_over
<1>2. Len(b.files) \in Nat /\ DOMAIN b.files = 1 .. Len(b.files)
  BY UploadOrder
<1>3. \A i \in 1 .. Len(b.files) : d.got[i] = b.of
  BY <1>1 DEF IsOf
<1>4. d.got = [i \in 1 .. Len(d.got) |-> d.got[i]]
  BY <1>1
<1> QED BY <1>1, <1>2, <1>3, <1>4 DEF contents

\* One object more of bundle b, over whatever was there.
LEMMA UploadedBundle ==
  ASSUME NEW v, NEW b, NEW n \in Nat, Holds(v, b, n),
         objects' = upload_file(objects, variant_ref(v), b, n)
  PROVE  Holds(v, b, n + 1)'
<1> DEFINE new == object_key(variant_ref(v), upload_order(b)[n + 1])
<1>1. /\ DOMAIN objects' = DOMAIN objects \cup {new} /\ objects'[new] = b
      /\ \A key \in DOMAIN objects : objects'[key] = objects[key] \/ objects'[key] = b
  BY DEF upload_file
<1>2. \A i \in 1 .. n + 1 : i \in 1 .. n \/ i = n + 1
  OBVIOUS
<1> HIDE DEF new
<1>3. ASSUME NEW i \in 1 .. n + 1, NEW key, key = object_key(variant_ref(v), upload_order(b)[i])
      PROVE  Stored(key)' /\ objects'[key] = b
  <2>1. CASE i = n + 1
    BY <1>1, <1>3, <2>1 DEF new, Stored
  <2>2. CASE i \in 1 .. n
    BY <1>1, <1>3, <2>2 DEF Holds, Stored
  <2> QED BY <1>2, <2>1, <2>2
<1> QED BY <1>3 DEF Holds

\* A load that is alone takes its own steps.
LEMMA OwnEffect ==
  ASSUME Inv, OneAtATime, [Next]_vars, NEW l \in Loads, EffectAt(l), Alone(l), LoadAction(l)
  PROVE  EffectAt(l)'
<1> USE DEF Inv
<1>0. PICK v \in Variants, b \in Bundles, n \in Nat :
        v = loads[l].variant /\ b = loads[l].bundle /\ n = loads[l].sent
  BY LoadType DEF Alone
<1>1. ValidFiles(b) /\ LoadInv(l) /\ loads[l].step # "new" /\ Holds(v, b, n)
  BY <1>0, BundlesAreValid DEF LoadsInv, Alone, EffectAt
<1>2. CASE UploadModelArtifact(l)
  <2>1. /\ loads'[l] = [step |-> IF upload_is_over(b, n + 1) THEN "finalize" ELSE "upload",
                        variant |-> v, bundle |-> b, sent |-> n + 1]
        /\ loads[l].step = "upload" /\ calls' = calls
        /\ objects' = upload_file(objects, variant_ref(v), b, n)
    BY <1>0, <1>2, UploadEffect
  <2>2. /\ loads'[l].variant = v /\ loads'[l].bundle = b /\ loads'[l].sent = n + 1
        /\ loads'[l].step # "ok"
    BY <2>1
  <2>3. Holds(v, b, n + 1)'
    BY <1>1, <2>1, UploadedBundle
  <2>4. Holds(loads[l].variant, loads[l].bundle, loads[l].sent)'
    BY <2>2, <2>3
  <2>5. calls'[l].step = "none"
    BY <1>1, <2>1 DEF LoadInv
  <2> QED BY <2>2, <2>4, <2>5 DEF EffectAt
<1>3. ASSUME UNCHANGED <<profiles, objects>> PROVE \A u : u = loads[l].variant => Kept(u)
  BY <1>3 DEF Kept, Stored
<1>4. CASE FinalizeModelVariantRegistration(l)
  <2>1. UNCHANGED <<profiles, objects>>
    BY <1>4 DEF FinalizeModelVariantRegistration, managerVars
  <2>2. \/ Goes(l, "waiting") /\ calls'[l] = [step |-> "model"]
        \/ Goes(l, "failed") /\ calls'[l] = calls[l]
    BY <1>4, FinalizeEffect
  <2> QED BY <1>3, <2>1, <2>2, EffectStays DEF Goes
<1>5. CASE LoadFails(l)
  <2>1. UNCHANGED <<profiles, objects>> /\ Goes(l, "failed") /\ calls'[l] = calls[l]
    BY <1>5, LoadFailsEffect DEF LoadFails, managerVars
  <2> QED BY <1>3, <2>1, EffectStays DEF Goes
<1>6. ASSUME Refused(l), UNCHANGED <<profiles, objects>>
      PROVE  EffectAt(l)'
  BY <1>3, <1>6, EffectStays DEF Refused, Goes, NoCall
<1>7. CASE GetModel(l)
  <2>1. UNCHANGED <<profiles, objects>>
    BY <1>7 DEF GetModel, managerVars
  <2>2. CASE /\ calls'[l] = [step |-> "download",
                             d |-> start_download(variant_ref(loads[l].variant))]
             /\ loads'[l] = loads[l]
    <3>1. calls'[l].step = "download" /\ calls'[l].d = start_download(variant_ref(v))
      BY <1>0, <2>2
    <3>2. IsOf(b, start_download(variant_ref(v)))
      BY DEF IsOf, start_download, manifest_is_read, NoBundle
    <3>3. loads[l].step # "ok"
      BY <1>1, <1>7 DEF LoadInv, GetModel
    <3>4. Holds(v, b, n)'
      BY <1>1, <2>1 DEF Holds, Stored
    <3>5. /\ Holds(loads[l].variant, loads[l].bundle, loads[l].sent)'
          /\ loads'[l].bundle = b /\ loads'[l].step # "ok"
      BY <1>0, <2>2, <3>3, <3>4
    <3> QED BY <3>1, <3>2, <3>5 DEF EffectAt
  <2> QED BY <1>6, <1>7, <2>1, <2>2, GetModelEffect
<1>8. CASE DownloadVariant(l)
  <2>1. PICK d, e : d = calls[l].d /\ e = download_file(objects, d)
    OBVIOUS
  <2>2. /\ loads' = loads /\ calls[l].step = "download" /\ ~download_is_over(d)
        /\ calls'[l] = [step |-> "download", d |-> e]
    BY <1>8, <2>1, DownloadEffect
  <2>3. Known(l) /\ loads[l].step # "ok"
    BY <1>1, <2>2 DEF Known, LoadInv
  <2>4. n = Len(b.files) + 1 /\ IsDownload(v, d)
    BY <1>0, <1>1, <2>1, <2>2, <2>3 DEF LoadInv
  <2>5. IsOf(b, d)
    BY <1>0, <2>1, <2>2 DEF EffectAt
  <2>6. IsOf(b, e)
    BY <1>1, <2>1, <2>2, <2>4, <2>5, DownloadOfBundle
  <2>7. UNCHANGED objects
    BY <1>8 DEF DownloadVariant
  <2>8. Holds(v, b, n)'
    BY <1>1, <2>7 DEF Holds, Stored
  <2>9. /\ Holds(loads[l].variant, loads[l].bundle, loads[l].sent)'
        /\ loads'[l].bundle = b /\ loads'[l].step # "ok"
        /\ calls'[l].step = "download" /\ calls'[l].d = e
    BY <1>0, <2>2, <2>3, <2>8
  <2> QED BY <2>6, <2>9 DEF EffectAt
<1>9. CASE AddProfiledModelVariant(l)
  <2>1. PICK d : d = calls[l].d
    OBVIOUS
  <2>2. /\ loads' = loads /\ calls[l].step = "download" /\ download_is_over(d)
        /\ calls'[l] = [step |-> "pop"] /\ profiles'[v] = d.got
    BY <1>0, <1>1, <1>9, <2>1, AddEffect
  <2>3. IsDownload(v, d) /\ IsOf(b, d)
    BY <1>0, <1>1, <2>1, <2>2 DEF LoadInv, EffectAt
  <2>4. profiles'[v] = contents(b)
    BY <1>1, <2>2, <2>3, DownloadedBundle
  <2>5. UNCHANGED objects
    BY <1>9 DEF AddProfiledModelVariant
  <2>6. Holds(v, b, n)'
    BY <1>1, <2>5 DEF Holds, Stored
  <2>7. /\ Holds(loads[l].variant, loads[l].bundle, loads[l].sent)'
        /\ loads'[l].bundle = b /\ loads'[l].variant = v
        /\ calls'[l].step = "pop"
    BY <1>0, <2>2, <2>6
  <2> QED BY <2>4, <2>7 DEF EffectAt
<1>10. CASE PopPending(l)
  <2>1. UNCHANGED <<profiles, objects>>
    BY <1>10 DEF PopPending
  <2>2. /\ calls[l].step = "pop" /\ calls'[l].step = "none"
        /\ Goes(l, "ok") \/ loads'[l] = loads[l]
    BY <1>10, PopEffect DEF NoCall
  <2> QED BY <1>3, <2>1, <2>2, EffectStays DEF Goes
<1>11. CASE FinalizeFails(l)
  <2>1. UNCHANGED <<profiles, objects>>
    BY <1>11 DEF FinalizeFails, managerVars
  <2> QED BY <1>6, <1>11, <2>1, FinalizeFailsEffect
<1> QED BY <1>2, <1>4, <1>5, <1>7, <1>8, <1>9, <1>10, <1>11 DEF LoadAction

LEMMA NextEffectInv ==
  ASSUME Inv, OneAtATime, EffectInv, [Next]_vars
  PROVE  EffectInv'
<1> USE DEF Inv
<1>1. SUFFICES ASSUME NEW k \in Loads, Alone(k)' PROVE EffectAt(k)'
  BY DEF EffectInv, EffectAt
<1>2. EffectAt(k) /\ LoadInv(k)
  BY DEF EffectInv, LoadsInv
<1>3. ASSUME NEW l \in Loads, NEW v \in Variants, NEW b \in Bundles,
             StartModelVariantRegistration(l, v, b)
      PROVE  EffectAt(k)'
  <2>1. /\ OnlyLoad(l) /\ calls' = calls /\ loads[l].step = "new"
        /\ loads'[l] = [step |-> "upload", variant |-> v, bundle |-> b, sent |-> 0]
    BY <1>3, StartEffect
  <2>2. CASE k = l
    <3>1. loads'[k].sent = 0 /\ loads'[k].step = "upload" /\ calls'[k].step = "none"
      BY <1>2, <2>1, <2>2 DEF LoadInv
    <3> QED BY <3>1 DEF EffectAt, Holds
  <2>3. CASE k # l
    <3>1. loads'[k] = loads[k] /\ loads[k].step # "new"
      BY <1>1, <2>1, <2>3 DEF OnlyLoad, Alone
    <3>2. Alone(k)
      BY <1>1, <1>3, <2>3, <3>1, StartHistory, LoadType DEF Alone
    <3>3. UNCHANGED <<profiles, objects>>
      BY <1>3 DEF StartModelVariantRegistration
    <3>4. \A u : u = loads[k].variant => Kept(u)
      BY <3>3 DEF Kept, Stored
    <3> QED BY <1>2, <2>1, <3>1, <3>2, <3>4, EffectStays
  <2> QED BY <2>2, <2>3
<1>4. CASE ~\E l \in Loads, v \in Variants, b \in Bundles : StartModelVariantRegistration(l, v, b)
  <2>1. Continues(k) /\ UNCHANGED <<newest, overlapped>>
    BY <1>4, LoadsContinue DEF historyVars
  <2>2. Alone(k)
    BY <1>1, <2>1 DEF Alone, Continues
  <2>3. CASE LoadAction(k)
    BY <1>2, <2>2, <2>3, OwnEffect
  <2>4. CASE ~LoadAction(k)
    <3>1. \A u : u = loads[k].variant => Kept(u)
      BY <2>2, <2>4, OthersKeep
    <3>2. \/ loads'[k] = loads[k] /\ calls'[k] = calls[k]
          \/ /\ calls'[k] = NoCall
             /\ Goes(k, "failed") \/ loads'[k] = loads[k]
      <4>1. ASSUME NEW l \in Loads, LoadAction(l)
            PROVE  loads'[k] = loads[k] /\ calls'[k] = calls[k]
        <5>1. Grows /\ DeclaredStays
          BY NextStoreInv
        <5> QED BY <2>4, <4>1, <5>1, LoadActionKeeps DEF OnlyLoad
      <4>2. CASE ManagerRestarts
        BY <4>2, RestartEffect
      <4>3. ASSUME NEW w \in Workers, RoundAction(w)
            PROVE  UNCHANGED <<loads, calls>>
        BY <4>3, RoundEffect DEF RoundAction, RoundStep, workerRest
      <4>4. ASSUME NEW c \in Builds, BuildAction(c)
            PROVE  UNCHANGED <<loads, calls>>
        BY <4>4 DEF BuildAction, DownloadForPartition, UploadPartition, AddModelPartition, BuildFails
      <4> QED BY <1>4, <4>1, <4>2, <4>3, <4>4
              DEF Next, vars, RegisterModel, GenerateModelPartition, LoadAction, BuildAction,
                  RoundAction
    <3> QED BY <1>2, <2>2, <3>1, <3>2, EffectStays DEF Goes, NoCall
  <2> QED BY <2>3, <2>4
<1> QED BY <1>3, <1>4

\* A load whose caller was told that it is over has declared its variant; and if the
\* loads of the variant came one after the other, the profile in Redis and the
\* artifact in S3 are those of the newest one, all of it.
THEOREM LoadsTakeEffectHolds == Spec => []LoadsTakeEffect
<1> DEFINE All == Inv /\ OneAtATime /\ EffectInv
<1>1. Init => All
  <2> SUFFICES ASSUME Init PROVE OneAtATime /\ EffectInv
    BY InitInv
  <2> QED BY DEF Init, OneAtATime, EffectInv, EffectAt, Ended, Alone, NewLoad, NoCall
<1>2. All /\ [Next]_vars => All'
  BY NextStoreInv, NextLoadsInv, NextBuildsInv, NextRoundsInv, NextPartitionsInv,
     NextOneAtATime, NextEffectInv DEF Inv
<1>3. All => LoadsTakeEffect
  <2> SUFFICES ASSUME All, NEW l \in Loads, loads[l].step = "ok"
               PROVE  LET v == loads[l].variant
                          b == loads[l].bundle
                      IN
                      /\ Declared(v)
                      /\ newest[v] = l /\ v \notin overlapped =>
                           /\ objects[object_key(variant_ref(v), MANIFEST_FILE_NAME)] = b
                           /\ profiles[v] = [i \in DOMAIN b.files |-> b.of]
    BY DEF LoadsTakeEffect
  <2> USE DEF Inv
  <2>1. PICK v \in Variants, b \in Bundles : v = loads[l].variant /\ b = loads[l].bundle
    BY LoadType
  <2>2. LoadInv(l) /\ EffectAt(l)
    BY DEF LoadsInv, EffectInv
  <2>3. Declared(v)
    BY <2>1, <2>2 DEF LoadInv
  <2>4. ASSUME newest[v] = l, v \notin overlapped
        PROVE  /\ objects[object_key(variant_ref(v), MANIFEST_FILE_NAME)] = b
               /\ profiles[v] = [i \in DOMAIN b.files |-> b.of]
    <3>1. Alone(l)
      BY <2>1, <2>4 DEF Alone
    <3>2. loads[l].sent = Len(b.files) + 1
      BY <2>1, <2>2 DEF LoadInv, Known
    <3>3. Holds(v, b, Len(b.files) + 1) /\ profiles[v] = contents(b)
      BY <2>1, <2>2, <3>1, <3>2 DEF EffectAt
    <3>4. /\ Len(b.files) \in Nat
          /\ upload_order(b)[Len(b.files) + 1] = MANIFEST_FILE_NAME
      BY BundlesAreValid, UploadOrder
    <3> QED BY <3>3, <3>4 DEF Holds, contents
  <2> QED BY <2>1, <2>3, <2>4
<1> QED BY <1>1, <1>2, <1>3, PTL DEF Spec

-----------------------------------------------------------------------------
(* Folds over sequences of events.                                         *)

\* f goes from one state to the next one as the elements of s say; and from a state
\* in A, s always leads to one in B.
Walks(step, f, s) == \A i \in 1 .. Len(s) : f[i] = step[<<f[i - 1], s[i]>>]
Leads(step, A, s, B) == \A f : Walks(step, f, s) /\ f[0] \in A => f[Len(s)] \in B

\* Two lists in a row.
LEMMA JoinedIs ==
  ASSUME NEW E, NEW a \in Seq(E), NEW b \in Seq(E)
  PROVE  /\ a \o b \in Seq(E) /\ Len(a) \in Nat /\ Len(b) \in Nat
         /\ Len(a \o b) = Len(a) + Len(b)
         /\ \A i \in 1 .. Len(a) : (a \o b)[i] = a[i]
         /\ \A i \in 1 .. Len(b) : (a \o b)[Len(a) + i] = b[i]
<1>1. Len(a) \in Nat /\ Len(b) \in Nat
  OBVIOUS
<1>2. a \o b \in Seq(E)
  OBVIOUS
<1>3. Len(a \o b) = Len(a) + Len(b)
  OBVIOUS
<1>4. \A i \in 1 .. Len(a) : (a \o b)[i] = a[i]
  OBVIOUS
<1>5. \A i \in 1 .. Len(b) : (a \o b)[Len(a) + i] = b[i]
  OBVIOUS
<1> QED BY <1>1, <1>2, <1>3, <1>4, <1>5

\* What one list leads to, the next one leads on from.
LEMMA InTurn ==
  ASSUME NEW E, NEW a \in Seq(E), NEW b \in Seq(E), NEW step, NEW A, NEW B, NEW C,
         Leads(step, A, a, B), Leads(step, B, b, C)
  PROVE  a \o b \in Seq(E) /\ Leads(step, A, a \o b, C)
<1>1. /\ a \o b \in Seq(E) /\ Len(a) \in Nat /\ Len(b) \in Nat
      /\ Len(a \o b) = Len(a) + Len(b)
      /\ \A i \in 1 .. Len(a) : (a \o b)[i] = a[i]
      /\ \A i \in 1 .. Len(b) : (a \o b)[Len(a) + i] = b[i]
  BY JoinedIs
<1>a. PICK s : s = a \o b
  OBVIOUS
<1>2. SUFFICES ASSUME NEW f, Walks(step, f, s), f[0] \in A PROVE f[Len(s)] \in C
  BY <1>1, <1>a DEF Leads
<1>3. \A i \in 1 .. Len(a) + Len(b) : f[i] = step[<<f[i - 1], s[i]>>]
  BY <1>1, <1>2, <1>a DEF Walks
<1>4. f[Len(a)] \in B
  <2>1. Walks(step, f, a)
    <3> SUFFICES ASSUME NEW i \in 1 .. Len(a) PROVE f[i] = step[<<f[i - 1], a[i]>>]
      BY DEF Walks
    <3>1. i \in 1 .. Len(a) + Len(b) /\ s[i] = a[i]
      BY <1>1, <1>a
    <3> QED BY <1>3, <3>1
  <2> QED BY <1>2, <2>1 DEF Leads
<1>5. PICK g : g = [i \in 0 .. Len(b) |-> f[Len(a) + i]]
  OBVIOUS
<1>6. g[0] \in B /\ g[Len(b)] = f[Len(s)]
  <2>1. g[0] = f[Len(a) + 0] /\ g[Len(b)] = f[Len(a) + Len(b)] /\ Len(a) + 0 = Len(a)
    BY <1>1, <1>5
  <2> QED BY <1>1, <1>4, <1>a, <2>1
<1>7. Walks(step, g, b)
  <2> SUFFICES ASSUME NEW i \in 1 .. Len(b) PROVE g[i] = step[<<g[i - 1], b[i]>>]
    BY DEF Walks
  <2>a. PICK k : k = Len(a) + i
    OBVIOUS
  <2>1. /\ k \in 1 .. Len(a) + Len(b) /\ s[k] = b[i]
        /\ k - 1 = Len(a) + (i - 1) /\ i \in 0 .. Len(b) /\ i - 1 \in 0 .. Len(b)
    BY <1>1, <1>a, <2>a
  <2>2. g[i] = f[k] /\ g[i - 1] = f[k - 1]
    BY <1>5, <2>a, <2>1
  <2>3. f[k] = step[<<f[k - 1], s[k]>>]
    BY <1>3, <2>1
  <2> QED BY <2>1, <2>2, <2>3
<1> QED BY <1>6, <1>7 DEF Leads

\* A set of states after each element.
LEMMA ByEvents ==
  ASSUME NEW N \in Nat, NEW s, Len(s) = N, NEW step, NEW inv,
         \A i \in 1 .. N : \A p \in inv[i - 1] : step[<<p, s[i]>>] \in inv[i]
  PROVE  Leads(step, inv[0], s, inv[N])
<1> SUFFICES ASSUME NEW f, Walks(step, f, s), f[0] \in inv[0] PROVE f[N] \in inv[N]
  BY DEF Leads
<1>1. PICK P : P = {i \in 0 .. N : f[i] \in inv[i]}
  OBVIOUS
<1>2. 0 \in P
  BY <1>1
<1>3. ASSUME NEW i \in 0 .. N, i # N, i \in P PROVE i + 1 \in P
  <2>1. i + 1 \in 1 .. N /\ i + 1 - 1 = i /\ i + 1 \in 0 .. N
    BY <1>3
  <2>2. f[i + 1] = step[<<f[i], s[i + 1]>>]
    BY <2>1 DEF Walks
  <2>3. f[i] \in inv[i]
    BY <1>1, <1>3
  <2>4. step[<<f[i], s[i + 1]>>] \in inv[i + 1]
    BY <2>1, <2>3
  <2> QED BY <1>1, <2>1, <2>2, <2>4
<1>4. P \in SUBSET (0 .. N)
  BY <1>1
<1>5. N \in P
  <2>1. \A i \in 0 .. N : i \in P
    BY <1>2, <1>3, <1>4, UpTo
  <2> QED BY <2>1
<1> QED BY <1>1, <1>5

\* A list of one event.
LEMMA OneEvent ==
  ASSUME NEW e, NEW step, NEW A, NEW B, \A p \in A : step[<<p, e>>] \in B
  PROVE  Leads(step, A, <<e>>, B)
<1> PICK s : s = <<e>>
  OBVIOUS
<1>1. Len(s) = 1 /\ s[1] = e
  OBVIOUS
<1> PICK inv : inv = [i \in 0 .. 1 |-> IF i = 0 THEN A ELSE B]
  OBVIOUS
<1>2. inv[0] = A /\ inv[1] = B
  OBVIOUS
<1>3. ASSUME NEW i \in 1 .. 1, NEW p \in inv[i - 1] PROVE step[<<p, s[i]>>] \in inv[i]
  <2>1. i = 1 /\ i - 1 = 0
    OBVIOUS
  <2> QED BY <1>1, <1>2, <1>3, <2>1
<1>4. Leads(step, inv[0], s, inv[1])
  BY <1>1, <1>3, ByEvents
<1> QED BY <1>2, <1>4

FlattenedOf(i, g, seqs) == IF i = 1 THEN seqs[i] ELSE g[i - 1] \o seqs[i]
FlattensTo(g, seqs, n) ==
  FlattenSeq(seqs) = g[n] /\ \A i \in 1 .. n : g[i] = FlattenedOf(i, g, seqs)
IsFlattening(g, seqs) == g = [i \in 1 .. Len(seqs) |-> FlattenedOf(i, g, seqs)]

LEMMA FlattenedAfter ==
  ASSUME NEW E, NEW seqs, NEW g, NEW k, k # 1, g[k] = FlattenedOf(k, g, seqs),
         seqs[k] \in Seq(E), NEW i, i = k - 1, g[i] \in Seq(E)
  PROVE  /\ g[k] \in Seq(E)
         /\ \A step, A, B, C :
              Leads(step, A, g[i], B) /\ Leads(step, B, seqs[k], C) => Leads(step, A, g[k], C)
<1>1. g[k] = g[k - 1] \o seqs[k]
  BY Zenon DEF FlattenedOf
<1> PICK a \in Seq(E), b \in Seq(E) : a = g[i] /\ b = seqs[k]
  OBVIOUS
<1>2. g[k] = g[i] \o seqs[k]
  BY <1>1, Zenon
<1>3. g[k] = a \o b
  BY <1>2, Zenon
<1>4. a \o b \in Seq(E)
  BY JoinedIs
<1>5. ASSUME NEW step, NEW A, NEW B, NEW C, Leads(step, A, a, B), Leads(step, B, b, C)
      PROVE  Leads(step, A, g[k], C)
  <2>1. Leads(step, A, a \o b, C)
    BY <1>5, InTurn
  <2> QED BY <1>3, <2>1, Zenon
<1> QED BY <1>3, <1>4, <1>5, Zenon

\* A flattened list of lists is made by appending one after the other.
LEMMA FlattenIs ==
  ASSUME NEW E, NEW N \in Nat \ {0}, NEW seqs \in Seq(Seq(E)), Len(seqs) = N
  PROVE  \E g \in [1 .. N -> Seq(E)] : FlattensTo(g, seqs, N)
<1> DEFINE P == {n \in 0 .. N : \E g \in [1 .. N -> Seq(E)] :
                                  \A i \in 1 .. n : g[i] = FlattenedOf(i, g, seqs)}
<1>1. \A i \in 1 .. N : seqs[i] \in Seq(E)
  OBVIOUS
<1>2. 0 \in P
  <2> PICK g : g = [i \in 1 .. N |-> seqs[i]]
    OBVIOUS
  <2>1. g \in [1 .. N -> Seq(E)]
    BY <1>1
  <2> QED BY <2>1
<1>3. ASSUME NEW n \in 0 .. N, n # N, n \in P PROVE n + 1 \in P
  <2>1. PICK g \in [1 .. N -> Seq(E)] : \A i \in 1 .. n : g[i] = FlattenedOf(i, g, seqs)
    BY <1>3
  <2>2. PICK x : x = FlattenedOf(n + 1, g, seqs)
    OBVIOUS
  <2>3. n + 1 \in 1 .. N
    BY <1>3
  <2>4. x \in Seq(E)
    <3>1. CASE n = 0
      BY <1>1, <2>2, <2>3, <3>1 DEF FlattenedOf
    <3>2. CASE n # 0
      <4>1. n \in 1 .. N /\ n + 1 - 1 = n /\ n + 1 # 1
        BY <3>2
      <4>2. g[n] \in Seq(E) /\ seqs[n + 1] \in Seq(E)
        BY <1>1, <2>3, <4>1
      <4>3. x = g[n] \o seqs[n + 1]
        BY <2>2, <4>1 DEF FlattenedOf
      <4> QED BY <4>2, <4>3, JoinedIs
    <3> QED BY <3>1, <3>2
  <2>5. PICK h : h = [g EXCEPT ![n + 1] = x]
    OBVIOUS
  <2>6. /\ h \in [1 .. N -> Seq(E)] /\ h[n + 1] = x
        /\ \A i \in 1 .. N : i # n + 1 => h[i] = g[i]
    BY <2>3, <2>4, <2>5
  <2>7. ASSUME NEW i \in 1 .. n + 1 PROVE h[i] = FlattenedOf(i, h, seqs)
    <3>1. h[i] = FlattenedOf(i, g, seqs)
      <4>1. CASE i = n + 1
        BY <2>2, <2>6, <4>1
      <4>2. CASE i # n + 1
        <5>1. i \in 1 .. n /\ i \in 1 .. N
          BY <2>3, <4>2
        <5> QED BY <2>1, <2>6, <4>2, <5>1
      <4> QED BY <4>1, <4>2
    <3>2. CASE i = 1
      BY <3>1, <3>2 DEF FlattenedOf
    <3>3. CASE i # 1
      <4>1. i - 1 \in 1 .. N /\ i - 1 # n + 1
        BY <2>3, <3>3
      <4>2. h[i - 1] = g[i - 1]
        BY <2>6, <4>1
      <4> QED BY <3>1, <3>3, <4>2 DEF FlattenedOf
    <3> QED BY <3>2, <3>3
  <2>8. \E f \in [1 .. N -> Seq(E)] : \A i \in 1 .. n + 1 : f[i] = FlattenedOf(i, f, seqs)
    BY <2>6, <2>7
  <2>9. n + 1 \in 0 .. N
    BY <2>3
  <2> QED BY <2>8, <2>9, Zenon
<1>4. N \in P
  <2>1. P \in SUBSET (0 .. N) /\ \A n \in 0 .. N : n # N /\ n \in P => n + 1 \in P
    BY <1>3
  <2> HIDE DEF P
  <2>2. \A n \in 0 .. N : n \in P
    BY <1>2, <2>1, UpTo
  <2> QED BY <2>2
<1>5. PICK g \in [1 .. N -> Seq(E)] : \A i \in 1 .. N : g[i] = FlattenedOf(i, g, seqs)
  BY <1>4
<1>6. IsFlattening(g, seqs)
  BY <1>5 DEF IsFlattening
<1>7. PICK h : IsFlattening(h, seqs) /\ h = CHOOSE f : IsFlattening(f, seqs)
  BY <1>6, Zenon
<1>8. \A i \in 1 .. N : h[i] = FlattenedOf(i, h, seqs)
  BY <1>7 DEF IsFlattening
<1>9. FlattenSeq(seqs) = h[N]
  <2>1. Len(seqs) # 0
    OBVIOUS
  <2>2. FlattenSeq(seqs) = (CHOOSE f : IsFlattening(f, seqs))[Len(seqs)]
    BY <2>1, Zenon DEF FlattenSeq, IsFlattening, FlattenedOf
  <2> QED BY <1>7, <2>2
<1>10. \A i \in 0 .. N : i = 0 \/ h[i] \in Seq(E)
  <2> PICK Q : Q = {i \in 0 .. N : i = 0 \/ h[i] \in Seq(E)}
    OBVIOUS
  <2>1. ASSUME NEW i \in 0 .. N, i # N, i \in Q PROVE i + 1 \in Q
    <3>1. i + 1 \in 1 .. N /\ i + 1 - 1 = i
      BY <2>1
    <3>2. h[i + 1] = FlattenedOf(i + 1, h, seqs) /\ seqs[i + 1] \in Seq(E)
      BY <1>1, <1>8, <3>1
    <3>3. CASE i = 0
      <4>1. i + 1 = 1
        BY <3>3
      <4> QED BY <3>1, <3>2, <4>1 DEF FlattenedOf
    <3>4. CASE i # 0
      <4>1. h[i] \in Seq(E) /\ i + 1 # 1 /\ i = i + 1 - 1
        BY <2>1, <3>1, <3>4
      <4>2. h[i + 1] \in Seq(E)
        <5> PICK k : k = i + 1
          OBVIOUS
        <5>1. /\ k # 1 /\ i = k - 1 /\ h[k] = FlattenedOf(k, h, seqs)
              /\ seqs[k] \in Seq(E) /\ h[i] \in Seq(E)
          BY <3>2, <4>1
        <5>2. h[k] \in Seq(E)
          BY <5>1, FlattenedAfter
        <5> QED BY <5>2
      <4> QED BY <3>1, <4>2
    <3> QED BY <3>3, <3>4
  <2>2. 0 \in Q /\ Q \in SUBSET (0 .. N)
    OBVIOUS
  <2>3. \A i \in 0 .. N : i \in Q
    BY <2>1, <2>2, UpTo
  <2> QED BY <2>3
<1>11. h \in [1 .. N -> Seq(E)]
  <2>1. h = [i \in 1 .. N |-> FlattenedOf(i, h, seqs)]
    BY <1>7 DEF IsFlattening
  <2>2. ASSUME NEW i \in 1 .. N PROVE h[i] \in Seq(E)
    <3>1. i \in 0 .. N /\ i # 0
      OBVIOUS
    <3> QED BY <1>10, <3>1
  <2> QED BY <2>1, <2>2
<1>12. FlattensTo(h, seqs, N)
  BY <1>8, <1>9 DEF FlattensTo
<1> QED BY <1>11, <1>12

\* What it leads to after each of the sequences.
LEMMA InBlocks ==
  ASSUME NEW E, NEW N \in Nat \ {0}, NEW seqs \in Seq(Seq(E)), Len(seqs) = N,
         NEW step, NEW inv,
         \A i \in 1 .. N : Leads(step, inv[i - 1], seqs[i], inv[i])
  PROVE  FlattenSeq(seqs) \in Seq(E) /\ Leads(step, inv[0], FlattenSeq(seqs), inv[N])
<1>f. PICK g \in [1 .. N -> Seq(E)] : FlattensTo(g, seqs, N)
  BY FlattenIs
<1>1. FlattenSeq(seqs) = g[N] /\ \A i \in 1 .. N : g[i] = FlattenedOf(i, g, seqs)
  BY <1>f DEF FlattensTo
<1> PICK Q : Q = {i \in 0 .. N : i = 0 \/ Leads(step, inv[0], g[i], inv[i])}
  OBVIOUS
<1>2. ASSUME NEW i \in 0 .. N, i # N, i \in Q PROVE i + 1 \in Q
  <2>1. i + 1 \in 1 .. N /\ i + 1 - 1 = i
    BY <1>2
  <2>2. /\ g[i + 1] = FlattenedOf(i + 1, g, seqs) /\ seqs[i + 1] \in Seq(E)
        /\ Leads(step, inv[i], seqs[i + 1], inv[i + 1])
    BY <1>1, <2>1
  <2>3. CASE i = 0
    <3>1. i + 1 = 1
      BY <2>3
    <3>2. Leads(step, inv[0], g[i + 1], inv[i + 1])
      BY <2>2, <2>3, <3>1 DEF FlattenedOf
    <3> QED BY <2>1, <3>2
  <2>4. CASE i # 0
    <3>1. i \in 1 .. N /\ Leads(step, inv[0], g[i], inv[i]) /\ i + 1 # 1
      BY <1>2, <2>4
    <3>2. g[i] \in Seq(E) /\ i = i + 1 - 1
      BY <2>1, <3>1
    <3>3. PICK k : k = i + 1
      OBVIOUS
    <3>4. /\ k # 1 /\ i = k - 1 /\ g[k] = FlattenedOf(k, g, seqs)
          /\ seqs[k] \in Seq(E) /\ g[i] \in Seq(E)
      BY <2>2, <3>1, <3>2, <3>3
    <3>5. Leads(step, inv[0], g[k], inv[k])
      BY <2>2, <3>1, <3>3, <3>4, FlattenedAfter
    <3> QED BY <2>1, <3>3, <3>5
  <2> QED BY <2>3, <2>4
<1>3. 0 \in Q /\ Q \in SUBSET (0 .. N)
  OBVIOUS
<1>4. \A i \in 0 .. N : i \in Q
  BY <1>2, <1>3, UpTo
<1>5. N \in 0 .. N /\ N # 0 /\ N \in 1 .. N
  OBVIOUS
<1>6. g[N] \in Seq(E)
  BY <1>5
<1> QED BY <1>1, <1>4, <1>5, <1>6

\* h folds s, from its first element on, as long as its states are in V.
IsFoldOf(h, base, step, s, V) ==
  /\ h[{}] = base
  /\ \A t \in SUBSET DOMAIN s : t # {} /\ h[t \ {Max(t)}] \in V =>
       h[t] = step[<<h[t \ {Max(t)}], s[Max(t)]>>]

LEMMA LastOf ==
  ASSUME NEW n \in Nat, NEW t \in SUBSET (1 .. n), t # {}
  PROVE  Max(t) \in t /\ \A i \in t : i <= Max(t)
<1>1. t \subseteq Nat /\ \A i \in t : i <= n
  OBVIOUS
<1> QED BY <1>1, MaxIsGreatest

\* A fold ends where its events lead.
LEMMA FoldLeads ==
  ASSUME NEW E, NEW V, NEW step \in [V \X E -> V], NEW s \in Seq(E), NEW base \in V,
         NEW h, IsFoldOf(h, base, step, s, V), NEW A, NEW B, base \in A, Leads(step, A, s, B)
  PROVE  h[DOMAIN s] \in V /\ h[DOMAIN s] \in B
<1>1. Len(s) \in Nat /\ DOMAIN s = 1 .. Len(s)
  OBVIOUS
<1>2. PICK f : f = [i \in 0 .. Len(s) |-> h[1 .. i]]
  OBVIOUS
<1>3. f[0] = base
  <2>1. 0 \in 0 .. Len(s) /\ 1 .. 0 = {}
    BY <1>1
  <2> QED BY <1>2, <2>1 DEF IsFoldOf
<1>4. ASSUME NEW i \in 1 .. Len(s), f[i - 1] \in V PROVE f[i] = step[<<f[i - 1], s[i]>>]
  <2>1. i - 1 \in 0 .. Len(s) /\ i \in 0 .. Len(s) /\ 1 .. i \in SUBSET DOMAIN s /\ i \in 1 .. i
    BY <1>1
  <2>2. Max(1 .. i) = i
    <3>1. 1 .. i \in SUBSET (1 .. Len(s)) /\ 1 .. i # {} /\ i \in Nat
      <4>1. 1 .. i \subseteq 1 .. Len(s)
        BY <1>1
      <4>2. 1 .. i # {} /\ i \in Nat
        BY <2>1
      <4> QED BY <4>1, <4>2
    <3>2. Max(1 .. i) \in 1 .. i /\ i <= Max(1 .. i)
      BY <1>1, <2>1, <3>1, LastOf
    <3> QED BY <3>1, <3>2
  <2>3. (1 .. i) \ {i} = 1 .. i - 1
    <3>1. \A k : k \in (1 .. i) \ {i} <=> k \in 1 .. i - 1
      BY <1>1
    <3> QED BY <3>1
  <2>4. h[1 .. i - 1] = f[i - 1] /\ h[1 .. i] = f[i]
    BY <1>2, <2>1
  <2>5. 1 .. i # {}
    BY <2>1
  <2>6. h[1 .. i] = step[<<h[(1 .. i) \ {i}], s[i]>>]
    BY <1>4, <2>1, <2>2, <2>3, <2>4, <2>5 DEF IsFoldOf
  <2> QED BY <2>3, <2>4, <2>6
<1>5. PICK P : P = {i \in 0 .. Len(s) : f[i] \in V}
  OBVIOUS
<1>6. ASSUME NEW i \in 0 .. Len(s), i # Len(s), i \in P PROVE i + 1 \in P
  <2> PICK k : k = i + 1
    OBVIOUS
  <2>a. k \in 1 .. Len(s) /\ k - 1 = i /\ k \in 0 .. Len(s)
    <3>1. ASSUME NEW n \in Nat, i \in 0 .. n, i # n
          PROVE  k \in 1 .. n /\ k - 1 = i /\ k \in 0 .. n
      BY <3>1
    <3> QED BY <1>1, <1>6, <3>1
  <2>b. f[i] \in V
    BY <1>5, <1>6
  <2>1. k \in 1 .. Len(s) /\ k - 1 = i /\ k \in 0 .. Len(s) /\ f[i] \in V
    BY <2>a, <2>b
  <2>2. f[k] = step[<<f[i], s[k]>>]
    BY <1>4, <2>1
  <2>3. s[k] \in E
    BY <2>1
  <2>4. f[k] \in V
    BY <2>1, <2>2, <2>3
  <2> QED BY <1>5, <2>1, <2>4
<1>7. \A i \in 0 .. Len(s) : f[i] \in V
  <2>1. 0 \in P /\ P \in SUBSET (0 .. Len(s))
    BY <1>1, <1>3, <1>5
  <2>2. \A i \in 0 .. Len(s) : i \in P
    BY <1>1, <1>6, <2>1, UpTo
  <2> QED BY <1>5, <2>2
<1>8. Walks(step, f, s)
  <2> SUFFICES ASSUME NEW i \in 1 .. Len(s) PROVE f[i] = step[<<f[i - 1], s[i]>>]
    BY DEF Walks
  <2>1. i - 1 \in 0 .. Len(s)
    BY <1>1
  <2>2. f[i - 1] \in V
    BY <1>7, <2>1
  <2> QED BY <1>4, <2>2
<1>9. f[Len(s)] \in B
  BY <1>3, <1>8 DEF Leads
<1>10. f[Len(s)] = h[DOMAIN s] /\ f[Len(s)] \in V
  <2>1. Len(s) \in 0 .. Len(s)
    BY <1>1
  <2> QED BY <1>1, <1>2, <1>7, <2>1
<1> QED BY <1>9, <1>10

\* g does, and its states are.
IsFoldBy(g, base, step, s, E, V) ==
  /\ g \in [SUBSET DOMAIN s -> V]
  /\ \A t \in SUBSET DOMAIN s :
       IF t = {} THEN g[t] = base
       ELSE /\ Max(t) \in DOMAIN s /\ s[Max(t)] \in E /\ g[t \ {Max(t)}] \in V
            /\ g[t] = step[<<g[t \ {Max(t)}], s[Max(t)]>>]

LEMMA FoldExists ==
  ASSUME NEW E, NEW V, NEW step \in [V \X E -> V], NEW s \in Seq(E), NEW base \in V
  PROVE  \E g : IsFoldBy(g, base, step, s, E, V)
<1>1. Len(s) \in Nat /\ DOMAIN s = 1 .. Len(s) /\ \A i \in DOMAIN s : s[i] \in E
  OBVIOUS
<1>a. PICK S : S = DOMAIN s
  OBVIOUS
<1>2. PICK chosen : chosen = [t \in SUBSET S |-> Max(t)]
  OBVIOUS
<1>3. PICK walk : walk = [q \in S \X V |-> step[<<q[2], s[q[1]]>>]]
  OBVIOUS
<1>4. walk \in [S \X V -> V] /\ \A i \in S, p \in V : walk[<<i, p>>] = step[<<p, s[i]>>]
  BY <1>1, <1>a, <1>3
<1>5. Chooses(chosen, S) /\ \A t \in SUBSET S : t # {} => Max(t) \in t /\ chosen[t] = Max(t)
  BY <1>1, <1>a, <1>2, LastOf DEF Chooses
<1>6. IsFiniteSet(S)
  BY <1>1, <1>a, FS_Interval
<1>7. PICK g \in [SUBSET S -> V] : IsFolding(g, S, base, walk, chosen)
  BY <1>4, <1>5, <1>6, FoldingExists
<1>8. ASSUME NEW t \in SUBSET S, t # {}
      PROVE  /\ Max(t) \in S /\ s[Max(t)] \in E /\ g[t \ {Max(t)}] \in V
             /\ g[t] = step[<<g[t \ {Max(t)}], s[Max(t)]>>]
  <2>1. g[t] = FoldedOf(t, g, base, walk, chosen)
    BY <1>7 DEF IsFolding
  <2>2. g[t] = walk[<<Max(t), g[t \ {Max(t)}]>>]
    BY <1>5, <1>8, <2>1, Zenon DEF FoldedOf
  <2>3. Max(t) \in S /\ g[t \ {Max(t)}] \in V
    BY <1>5, <1>8
  <2> QED BY <1>1, <1>4, <1>a, <2>2, <2>3
<1>9. g[{}] = base
  <2>1. g[{}] = FoldedOf({}, g, base, walk, chosen)
    BY <1>7 DEF IsFolding
  <2> QED BY <2>1, Zenon DEF FoldedOf
<1> QED BY <1>8, <1>9, <1>a DEF IsFoldBy

-----------------------------------------------------------------------------
(* What is folded over the events of a session.                            *)

MeasuredLayers == Range(Order)
EventTypes ==
  [cat : {"Node", "Kernel", "Session"}, layer : MeasuredLayers \cup {NoLayer},
   provider : {"CPUExecutionProvider", "CUDAExecutionProvider", "none"},
   dur : Nat, mem : Nat \cup {NoMemory}]
SampleTypes == UNION {[D -> Seq(Nat \cup {NoMemory})] : D \in SUBSET MeasuredLayers}
ParsingTypes ==
  [samples : SampleTypes, current : MeasuredLayers \cup {NoLayer}, kernels : Nat,
   found_cuda_node : BOOLEAN, found_kernel_event : BOOLEAN]

cpu_step(samples, e) ==
  LET l == node_layer_key_for_provider(e, "CPUExecutionProvider") IN
  IF l = NoLayer THEN samples ELSE append_sample(samples, l, e.dur)
memory_step(backend, samples, e) ==
  IF e.provider \notin providers(backend) THEN samples
  ELSE LET l == node_layer_key_for_provider(e, e.provider) IN
       IF l = NoLayer THEN samples ELSE append_sample(samples, l, e.mem)
StartParsing ==
  [samples |-> <<>>, current |-> NoLayer, kernels |-> 0,
   found_cuda_node |-> FALSE, found_kernel_event |-> FALSE]

CpuSteps == [q \in SampleTypes \X EventTypes |-> cpu_step(q[1], q[2])]
MemorySteps(backend) == [q \in SampleTypes \X EventTypes |-> memory_step(backend, q[1], q[2])]
GpuSteps == [q \in ParsingTypes \X EventTypes |-> gpu_step(q[1], q[2])]
SumSteps == [q \in Nat \X Nat |-> q[1] + q[2]]

\* The fields of an event.
LEMMA EventIs ==
  ASSUME NEW e \in EventTypes
  PROVE  /\ e.dur \in Nat /\ e.mem \in Nat \cup {NoMemory}
         /\ \A provider : node_layer_key_for_provider(e, provider) \in MeasuredLayers \cup {NoLayer}
BY DEF EventTypes, node_layer_key_for_provider

LEMMA SampleIsAppended ==
  ASSUME NEW m \in SampleTypes, NEW l \in MeasuredLayers, NEW x \in Nat \cup {NoMemory}
  PROVE  append_sample(m, l, x) \in SampleTypes
<1>1. PICK D \in SUBSET MeasuredLayers : m \in [D -> Seq(Nat \cup {NoMemory})]
  BY DEF SampleTypes
<1>2. samples_of(m, l) \in Seq(Nat \cup {NoMemory})
  <2>1. CASE l \in DOMAIN m
    BY <1>1, <2>1 DEF samples_of
  <2>2. CASE l \notin DOMAIN m
    BY <2>2 DEF samples_of
  <2> QED BY <2>1, <2>2
<1>3. Append(samples_of(m, l), x) \in Seq(Nat \cup {NoMemory})
  <2> PICK s : s = samples_of(m, l)
    OBVIOUS
  <2>1. s \in Seq(Nat \cup {NoMemory})
    BY <1>2
  <2> HIDE <1>1, <1>2
  <2>2. Append(s, x) \in Seq(Nat \cup {NoMemory})
    BY <2>1
  <2> QED BY <2>2
<1>4. append_sample(m, l, x) \in [D \cup {l} -> Seq(Nat \cup {NoMemory})]
  <2>1. append_sample(m, l, x) = [k \in D \cup {l} |-> IF k = l THEN Append(samples_of(m, l), x)
                                                       ELSE m[k]]
    BY <1>1 DEF append_sample
  <2> QED BY <1>1, <1>3, <2>1
<1>5. D \cup {l} \in SUBSET MeasuredLayers
  OBVIOUS
<1> QED BY <1>4, <1>5 DEF SampleTypes

LEMMA NothingIsSampled == <<>> \in SampleTypes
<1>1. {} \in SUBSET MeasuredLayers /\ <<>> \in [{} -> Seq(Nat \cup {NoMemory})]
  OBVIOUS
<1> QED BY <1>1 DEF SampleTypes

LEMMA CpuStepsAre == CpuSteps \in [SampleTypes \X EventTypes -> SampleTypes]
<1> SUFFICES ASSUME NEW m \in SampleTypes, NEW e \in EventTypes PROVE cpu_step(m, e) \in SampleTypes
  BY DEF CpuSteps
<1> QED BY EventIs, SampleIsAppended DEF cpu_step

LEMMA MemoryStepsAre ==
  ASSUME NEW backend
  PROVE  MemorySteps(backend) \in [SampleTypes \X EventTypes -> SampleTypes]
<1> SUFFICES ASSUME NEW m \in SampleTypes, NEW e \in EventTypes
             PROVE  memory_step(backend, m, e) \in SampleTypes
  BY DEF MemorySteps
<1> QED BY EventIs, SampleIsAppended DEF memory_step

LEMMA CurrentIsAppended ==
  ASSUME NEW p \in ParsingTypes
  PROVE  append_current_sample(p) \in SampleTypes
<1>1. p.samples \in SampleTypes /\ p.current \in MeasuredLayers \cup {NoLayer} /\ p.kernels \in Nat
  BY DEF ParsingTypes
<1> QED BY <1>1, SampleIsAppended DEF append_current_sample

\* What a node does to a parser of GPU durations, field by field.
LEMMA NodeIsOpened ==
  ASSUME NEW p \in ParsingTypes, NEW e \in EventTypes
  PROVE  open_node(p, e) =
           [samples |-> append_current_sample(p),
            current |-> node_layer_key_for_provider(e, "CUDAExecutionProvider"), kernels |-> 0,
            found_cuda_node |-> p.found_cuda_node, found_kernel_event |-> p.found_kernel_event]
<1>1. p = [samples |-> p.samples, current |-> p.current, kernels |-> p.kernels,
           found_cuda_node |-> p.found_cuda_node, found_kernel_event |-> p.found_kernel_event]
  BY DEF ParsingTypes
<1> PICK a, c : /\ a = append_current_sample(p)
                /\ c = node_layer_key_for_provider(e, "CUDAExecutionProvider")
  OBVIOUS
<1>2. open_node(p, e) = [p EXCEPT !.samples = a, !.kernels = 0, !.current = c]
  BY DEF open_node
<1> QED BY <1>1, <1>2

LEMMA GpuStepsAre == GpuSteps \in [ParsingTypes \X EventTypes -> ParsingTypes]
<1> SUFFICES ASSUME NEW p \in ParsingTypes, NEW e \in EventTypes PROVE gpu_step(p, e) \in ParsingTypes
  BY DEF GpuSteps
<1> PICK o : o = open_node(p, e)
  OBVIOUS
<1>1. o \in ParsingTypes
  BY NodeIsOpened, CurrentIsAppended, EventIs DEF ParsingTypes
<1>2. PICK c : c = node_layer_key_for_provider(e, "CPUExecutionProvider")
  OBVIOUS
<1>3. CASE e.cat = "Node" /\ o.current # NoLayer
  <2>1. gpu_step(p, e) = [o EXCEPT !.found_cuda_node = TRUE]
    BY <1>3 DEF gpu_step
  <2> QED BY <1>1, <2>1 DEF ParsingTypes
<1>4. CASE e.cat = "Node" /\ o.current = NoLayer /\ c # NoLayer
  <2>1. gpu_step(p, e) = [o EXCEPT !.samples = append_sample(o.samples, c, e.dur)]
    BY <1>2, <1>4 DEF gpu_step
  <2>2. append_sample(o.samples, c, e.dur) \in SampleTypes
    <3>1. o.samples \in SampleTypes /\ c \in MeasuredLayers /\ e.dur \in Nat
      BY <1>1, <1>2, <1>4, EventIs DEF ParsingTypes
    <3> QED BY <3>1, SampleIsAppended
  <2> QED BY <1>1, <2>1, <2>2 DEF ParsingTypes
<1>5. CASE e.cat = "Node" /\ o.current = NoLayer /\ c = NoLayer
  BY <1>1, <1>2, <1>5 DEF gpu_step
<1>6. CASE e.cat = "Kernel" /\ p.current # NoLayer
  <2>1. gpu_step(p, e) = [p EXCEPT !.kernels = @ + e.dur, !.found_kernel_event = TRUE]
    BY <1>6 DEF gpu_step
  <2>2. p.kernels + e.dur \in Nat
    BY EventIs DEF ParsingTypes
  <2> QED BY <2>1, <2>2 DEF ParsingTypes
<1>7. CASE e.cat # "Node" /\ ~(e.cat = "Kernel" /\ p.current # NoLayer)
  BY <1>7 DEF gpu_step
<1> QED BY <1>3, <1>4, <1>5, <1>6, <1>7

LEMMA StartIs == StartParsing \in ParsingTypes
BY NothingIsSampled DEF StartParsing, ParsingTypes

LEMMA SumStepsAre == SumSteps \in [Nat \X Nat -> Nat]
BY DEF SumSteps

IsCpuFold(h, s) ==
  h = [t \in SUBSET DOMAIN s |-> IF t = {} THEN <<>> ELSE LET x == Max(t) IN cpu_step(h[t \ {x}], s[x])]

\* The four folds of a session end where the events lead.
LEMMA CpuLeads ==
  ASSUME NEW s \in Seq(EventTypes), NEW A, NEW B, <<>> \in A, Leads(CpuSteps, A, s, B)
  PROVE  cpu_durations(s) \in B
<1> PICK steps : steps = CpuSteps
  OBVIOUS
<1>1. steps \in [SampleTypes \X EventTypes -> SampleTypes] /\ <<>> \in SampleTypes
  BY CpuStepsAre, NothingIsSampled
<1>2. \A q \in SampleTypes, e \in EventTypes : steps[<<q, e>>] = cpu_step(q, e)
  BY DEF CpuSteps
<1>3. PICK g : IsFoldBy(g, <<>>, steps, s, EventTypes, SampleTypes)
  BY <1>1, FoldExists
<1>4. IsCpuFold(g, s)
  <2>1. \A t \in SUBSET DOMAIN s : g[t] = IF t = {} THEN <<>> ELSE LET x == Max(t) IN cpu_step(g[t \ {x}], s[x])
    BY <1>2, <1>3 DEF IsFoldBy
  <2>2. g = [t \in SUBSET DOMAIN s |-> g[t]]
    BY <1>3 DEF IsFoldBy
  <2> QED BY <2>1, <2>2, Zenon DEF IsCpuFold
<1>5. PICK h : IsCpuFold(h, s) /\ h = CHOOSE f : IsCpuFold(f, s)
  BY <1>4, Zenon
<1>6. cpu_durations(s) = h[DOMAIN s]
  BY <1>5, Zenon DEF IsCpuFold, FoldLeft, MapThenFoldSet, cpu_durations, cpu_step
<1>7. IsFoldOf(h, <<>>, steps, s, SampleTypes)
  <2>1. \A t \in SUBSET DOMAIN s : t # {} => s[Max(t)] \in EventTypes
    BY <1>3 DEF IsFoldBy
  <2>2. \A t \in SUBSET DOMAIN s : h[t] = IF t = {} THEN <<>> ELSE LET x == Max(t) IN cpu_step(h[t \ {x}], s[x])
    BY <1>5 DEF IsCpuFold
  <2> QED BY <1>2, <2>1, <2>2 DEF IsFoldOf
<1>8. h[DOMAIN s] \in B
  <2>1. Leads(steps, A, s, B)
    OBVIOUS
  <2> QED BY <1>1, <1>7, <2>1, FoldLeads
<1> QED BY <1>6, <1>8

IsMemoryFold(h, backend, s) ==
  h = [t \in SUBSET DOMAIN s |-> IF t = {} THEN <<>> ELSE LET x == Max(t) IN memory_step(backend, h[t \ {x}], s[x])]

LEMMA MemoryLeads ==
  ASSUME NEW backend, NEW s \in Seq(EventTypes), NEW A, NEW B, <<>> \in A, Leads(MemorySteps(backend), A, s, B)
  PROVE  memory_bytes_by_layer(backend, s) \in B
<1> PICK steps : steps = MemorySteps(backend)
  OBVIOUS
<1>1. steps \in [SampleTypes \X EventTypes -> SampleTypes] /\ <<>> \in SampleTypes
  BY MemoryStepsAre, NothingIsSampled
<1>2. \A q \in SampleTypes, e \in EventTypes : steps[<<q, e>>] = memory_step(backend, q, e)
  BY DEF MemorySteps
<1>3. PICK g : IsFoldBy(g, <<>>, steps, s, EventTypes, SampleTypes)
  BY <1>1, FoldExists
<1>4. IsMemoryFold(g, backend, s)
  <2>1. \A t \in SUBSET DOMAIN s : g[t] = IF t = {} THEN <<>> ELSE LET x == Max(t) IN memory_step(backend, g[t \ {x}], s[x])
    BY <1>2, <1>3 DEF IsFoldBy
  <2>2. g = [t \in SUBSET DOMAIN s |-> g[t]]
    BY <1>3 DEF IsFoldBy
  <2> QED BY <2>1, <2>2, Zenon DEF IsMemoryFold
<1>5. PICK h : IsMemoryFold(h, backend, s) /\ h = CHOOSE f : IsMemoryFold(f, backend, s)
  BY <1>4, Zenon
<1>6. memory_bytes_by_layer(backend, s) = h[DOMAIN s]
  BY <1>5, Zenon DEF IsMemoryFold, FoldLeft, MapThenFoldSet, memory_bytes_by_layer, memory_step
<1>7. IsFoldOf(h, <<>>, steps, s, SampleTypes)
  <2>1. \A t \in SUBSET DOMAIN s : t # {} => s[Max(t)] \in EventTypes
    BY <1>3 DEF IsFoldBy
  <2>2. \A t \in SUBSET DOMAIN s : h[t] = IF t = {} THEN <<>> ELSE LET x == Max(t) IN memory_step(backend, h[t \ {x}], s[x])
    BY <1>5 DEF IsMemoryFold
  <2> QED BY <1>2, <2>1, <2>2 DEF IsFoldOf
<1>8. h[DOMAIN s] \in B
  <2>1. Leads(steps, A, s, B)
    OBVIOUS
  <2> QED BY <1>1, <1>7, <2>1, FoldLeads
<1> QED BY <1>6, <1>8

IsGpuFold(h, s) ==
  h = [t \in SUBSET DOMAIN s |-> IF t = {} THEN StartParsing ELSE LET x == Max(t) IN gpu_step(h[t \ {x}], s[x])]

LEMMA GpuLeads ==
  ASSUME NEW s \in Seq(EventTypes), NEW A, NEW B, StartParsing \in A, Leads(GpuSteps, A, s, B)
  PROVE  FoldLeft(gpu_step, StartParsing, s) \in B
<1> PICK steps : steps = GpuSteps
  OBVIOUS
<1>1. steps \in [ParsingTypes \X EventTypes -> ParsingTypes] /\ StartParsing \in ParsingTypes
  BY GpuStepsAre, StartIs
<1>2. \A q \in ParsingTypes, e \in EventTypes : steps[<<q, e>>] = gpu_step(q, e)
  BY DEF GpuSteps
<1>3. PICK g : IsFoldBy(g, StartParsing, steps, s, EventTypes, ParsingTypes)
  BY <1>1, FoldExists
<1>4. IsGpuFold(g, s)
  <2>1. \A t \in SUBSET DOMAIN s : g[t] = IF t = {} THEN StartParsing ELSE LET x == Max(t) IN gpu_step(g[t \ {x}], s[x])
    BY <1>2, <1>3 DEF IsFoldBy
  <2>2. g = [t \in SUBSET DOMAIN s |-> g[t]]
    BY <1>3 DEF IsFoldBy
  <2> QED BY <2>1, <2>2, Zenon DEF IsGpuFold
<1>5. PICK h : IsGpuFold(h, s) /\ h = CHOOSE f : IsGpuFold(f, s)
  BY <1>4, Zenon
<1>6. FoldLeft(gpu_step, StartParsing, s) = h[DOMAIN s]
  BY <1>5, Zenon DEF IsGpuFold, FoldLeft, MapThenFoldSet
<1>7. IsFoldOf(h, StartParsing, steps, s, ParsingTypes)
  <2>1. \A t \in SUBSET DOMAIN s : t # {} => s[Max(t)] \in EventTypes
    BY <1>3 DEF IsFoldBy
  <2>2. \A t \in SUBSET DOMAIN s : h[t] = IF t = {} THEN StartParsing ELSE LET x == Max(t) IN gpu_step(h[t \ {x}], s[x])
    BY <1>5 DEF IsGpuFold
  <2> QED BY <1>2, <2>1, <2>2 DEF IsFoldOf
<1>8. h[DOMAIN s] \in B
  <2>1. Leads(steps, A, s, B)
    OBVIOUS
  <2> QED BY <1>1, <1>7, <2>1, FoldLeads
<1> QED BY <1>6, <1>8

IsSumFold(h, s) ==
  h = [t \in SUBSET DOMAIN s |-> IF t = {} THEN 0 ELSE LET x == Max(t) IN h[t \ {x}] + s[x]]

LEMMA SumLeads ==
  ASSUME NEW s \in Seq(Nat), NEW A, NEW B, 0 \in A, Leads(SumSteps, A, s, B)
  PROVE  FoldLeft(+, 0, s) \in B
<1> PICK steps : steps = SumSteps
  OBVIOUS
<1>1. steps \in [Nat \X Nat -> Nat] /\ 0 \in Nat
  BY SumStepsAre
<1>2. \A q \in Nat, e \in Nat : steps[<<q, e>>] = q + e
  BY DEF SumSteps
<1>3. PICK g : IsFoldBy(g, 0, steps, s, Nat, Nat)
  BY <1>1, FoldExists
<1>4. IsSumFold(g, s)
  <2>1. \A t \in SUBSET DOMAIN s : g[t] = IF t = {} THEN 0 ELSE LET x == Max(t) IN g[t \ {x}] + s[x]
    BY <1>2, <1>3 DEF IsFoldBy
  <2>2. g = [t \in SUBSET DOMAIN s |-> g[t]]
    BY <1>3 DEF IsFoldBy
  <2> QED BY <2>1, <2>2, Zenon DEF IsSumFold
<1>5. PICK h : IsSumFold(h, s) /\ h = CHOOSE f : IsSumFold(f, s)
  BY <1>4, Zenon
<1>6. FoldLeft(+, 0, s) = h[DOMAIN s]
  BY <1>5, Zenon DEF IsSumFold, FoldLeft, MapThenFoldSet
<1>7. IsFoldOf(h, 0, steps, s, Nat)
  <2>1. \A t \in SUBSET DOMAIN s : t # {} => s[Max(t)] \in Nat
    BY <1>3 DEF IsFoldBy
  <2>2. \A t \in SUBSET DOMAIN s : h[t] = IF t = {} THEN 0 ELSE LET x == Max(t) IN h[t \ {x}] + s[x]
    BY <1>5 DEF IsSumFold
  <2> QED BY <1>2, <2>1, <2>2 DEF IsFoldOf
<1>8. h[DOMAIN s] \in B
  <2>1. Leads(steps, A, s, B)
    OBVIOUS
  <2> QED BY <1>1, <1>7, <2>1, FoldLeads
<1> QED BY <1>6, <1>8

-----------------------------------------------------------------------------
(* The samples of a session.                                               *)

\* T[i][k] is what layer i takes in run k.  After layer i of a run there is a
\* sample of every layer for every run so far, with this one for those up to i.
Measures == [1 .. Len(Order) -> [Nat -> Nat]]
Reached(run, i) == {l \in MeasuredLayers : run > 1 \/ Place(l) <= i}
RunsOf(l, run, i) == IF Place(l) <= i THEN run ELSE run - 1
SamplesAfter(T, run, i) ==
  [l \in Reached(run, i) |-> [k \in 1 .. RunsOf(l, run, i) |-> T[Place(l)][k]]]

\* Every layer has a place, and no two have the same.
LEMMA OrderIs ==
  /\ Len(Order) = 3 /\ DOMAIN Order = 1 .. 3
  /\ \A i \in 1 .. 3 : Order[i] \in MeasuredLayers /\ Place(Order[i]) = i
  /\ \A l \in MeasuredLayers : Place(l) \in 1 .. 3 /\ Order[Place(l)] = l
  /\ NoLayer \notin MeasuredLayers
<1>1. /\ Len(Order) = 3 /\ DOMAIN Order = 1 .. 3
      /\ Order[1] = "conv" /\ Order[2] = "shape" /\ Order[3] = "relu"
  BY DEF Order
<1>2. ASSUME NEW i \in 1 .. 3 PROVE Order[i] \in MeasuredLayers /\ Place(Order[i]) = i
  <2>1. Order[i] \in MeasuredLayers
    BY <1>1 DEF MeasuredLayers, Range
  <2>2. \A j \in 1 .. 3 : Order[j] = Order[i] => j = i
    BY <1>1
  <2>3. Place(Order[i]) \in DOMAIN Order /\ Order[Place(Order[i])] = Order[i]
    <3>1. i \in DOMAIN Order /\ Order[i] = Order[i]
      BY <1>1
    <3> QED BY <3>1, Zenon DEF Place
  <2> QED BY <1>1, <2>1, <2>2, <2>3
<1>3. ASSUME NEW l \in MeasuredLayers PROVE Place(l) \in 1 .. 3 /\ Order[Place(l)] = l
  <2>1. PICK i \in 1 .. 3 : Order[i] = l
    BY <1>1 DEF MeasuredLayers, Range
  <2> QED BY <1>2, <2>1
<1>4. NoLayer \notin MeasuredLayers
  BY MarksAssumption DEF MeasuredLayers
<1> QED BY <1>1, <1>2, <1>3, <1>4

LEMMA OneMore ==
  ASSUME NEW n \in Nat, NEW f, \A k \in 1 .. n + 1 : f[k] \in Nat
  PROVE  Append([k \in 1 .. n |-> f[k]], f[n + 1]) = [k \in 1 .. n + 1 |-> f[k]]
<1> PICK s : s = [k \in 1 .. n |-> f[k]]
  OBVIOUS
<1>1. s \in Seq(Nat) /\ Len(s) = n /\ f[n + 1] \in Nat
  OBVIOUS
<1>2. PICK t : t = Append(s, f[n + 1])
  OBVIOUS
<1>3. t \in Seq(Nat) /\ Len(t) = n + 1 /\ \A k \in 1 .. n : t[k] = s[k]
  BY <1>1, <1>2
<1>4. t[n + 1] = f[n + 1]
  BY <1>1, <1>2
<1>5. DOMAIN t = 1 .. n + 1
  BY <1>3
<1>6. \A k \in 1 .. n + 1 : t[k] = f[k]
  BY <1>3, <1>4
<1>7. t = [k \in DOMAIN t |-> t[k]]
  BY <1>3
<1> QED BY <1>2, <1>5, <1>6, <1>7

\* The sample of the next layer of a run.
LEMMA SampleOfLayer ==
  ASSUME NEW T \in Measures, NEW run \in Nat \ {0}, NEW i \in 1 .. 3
  PROVE  append_sample(SamplesAfter(T, run, i - 1), Order[i], T[i][run]) = SamplesAfter(T, run, i)
<1> PICK m, l : m = SamplesAfter(T, run, i - 1) /\ l = Order[i]
  OBVIOUS
<1>1. l \in MeasuredLayers /\ Place(l) = i /\ \A k \in MeasuredLayers : Place(k) = i => k = l
  BY OrderIs
<1>2. \A k \in MeasuredLayers : Place(k) \in 1 .. 3
  BY OrderIs
<1>3. DOMAIN m = Reached(run, i - 1)
  BY DEF SamplesAfter
<1>4. Reached(run, i - 1) \cup {l} = Reached(run, i)
  <2>1. \A k \in MeasuredLayers : Place(k) <= i <=> Place(k) <= i - 1 \/ k = l
    BY <1>1, <1>2
  <2> QED BY <1>1, <2>1 DEF Reached
<1>5. ASSUME NEW k \in Reached(run, i), k # l PROVE m[k] = SamplesAfter(T, run, i)[k]
  <2>1. k \in MeasuredLayers /\ k \in Reached(run, i - 1)
    BY <1>4, <1>5 DEF Reached
  <2>2. Place(k) <= i <=> Place(k) <= i - 1
    BY <1>1, <1>2, <1>5, <2>1
  <2>3. RunsOf(k, run, i) = RunsOf(k, run, i - 1)
    BY <2>2 DEF RunsOf
  <2> QED BY <2>1, <2>3 DEF SamplesAfter
<1>6. Append(samples_of(m, l), T[i][run]) = SamplesAfter(T, run, i)[l]
  <2>1. PICK f : f = T[i]
    OBVIOUS
  <2>2. f \in [Nat -> Nat]
    BY <2>1, OrderIs DEF Measures
  <2>3. PICK n \in Nat : n = run - 1 /\ run = n + 1
    OBVIOUS
  <2>4. samples_of(m, l) = [k \in 1 .. n |-> f[k]]
    <3>1. RunsOf(l, run, i - 1) = n
      BY <1>1, <2>3 DEF RunsOf
    <3>2. CASE run > 1
      <4>1. l \in Reached(run, i - 1)
        BY <1>1, <3>2 DEF Reached
      <4>2. m[l] = [k \in 1 .. n |-> f[k]]
        BY <1>1, <2>1, <3>1, <4>1 DEF SamplesAfter
      <4> QED BY <1>3, <4>1, <4>2 DEF samples_of
    <3>3. CASE ~(run > 1)
      <4>1. l \notin Reached(run, i - 1)
        BY <1>1, <3>3 DEF Reached
      <4>2. n = 0
        BY <2>3, <3>3
      <4>3. samples_of(m, l) = <<>>
        BY <1>3, <4>1 DEF samples_of
      <4> QED BY <4>2, <4>3
    <3> QED BY <3>2, <3>3
  <2>5. RunsOf(l, run, i) = run /\ l \in Reached(run, i)
    BY <1>1 DEF RunsOf, Reached
  <2>6. SamplesAfter(T, run, i)[l] = [k \in 1 .. n + 1 |-> f[k]]
    BY <1>1, <2>1, <2>3, <2>5 DEF SamplesAfter
  <2>7. Append([k \in 1 .. n |-> f[k]], f[n + 1]) = [k \in 1 .. n + 1 |-> f[k]]
    BY <2>2, OneMore
  <2>8. T[i][run] = f[n + 1]
    BY <2>1, <2>3
  <2> QED BY <2>4, <2>6, <2>7, <2>8, Zenon
<1>7. \A k \in Reached(run, i) :
        (IF k = l THEN Append(samples_of(m, l), T[i][run]) ELSE m[k]) = SamplesAfter(T, run, i)[k]
  BY <1>5, <1>6, Zenon
<1>8. append_sample(m, l, T[i][run]) =
        [k \in Reached(run, i) |-> IF k = l THEN Append(samples_of(m, l), T[i][run]) ELSE m[k]]
  BY <1>3, <1>4, Zenon DEF append_sample
<1>9. SamplesAfter(T, run, i) = [k \in Reached(run, i) |-> SamplesAfter(T, run, i)[k]]
  BY DEF SamplesAfter
<1>10. append_sample(m, l, T[i][run]) = SamplesAfter(T, run, i)
  BY <1>7, <1>8, <1>9, Zenon
<1> QED BY <1>10, Zenon

\* After the last layer of a run the next one begins, and no sample precedes the first.
LEMMA SamplesOfRun ==
  ASSUME NEW T \in Measures, NEW run \in Nat \ {0}
  PROVE  SamplesAfter(T, run, 3) = SamplesAfter(T, run + 1, 0)
<1>1. \A l \in MeasuredLayers : Place(l) \in 1 .. 3
  BY OrderIs
<1>2. Reached(run, 3) = Reached(run + 1, 0)
  BY <1>1 DEF Reached
<1>3. \A l \in Reached(run, 3) : RunsOf(l, run, 3) = RunsOf(l, run + 1, 0)
  BY <1>1 DEF Reached, RunsOf
<1> QED BY <1>2, <1>3 DEF SamplesAfter

LEMMA SamplesOfNone ==
  ASSUME NEW T \in Measures
  PROVE  SamplesAfter(T, 1, 0) = <<>>
<1>1. Reached(1, 0) = {}
  BY OrderIs DEF Reached
<1>2. DOMAIN SamplesAfter(T, 1, 0) = {} /\ DOMAIN <<>> = {}
  BY <1>1 DEF SamplesAfter
<1>3. SamplesAfter(T, 1, 0) = [l \in {} |-> SamplesAfter(T, 1, 0)[l]]
  BY <1>1 DEF SamplesAfter
<1>4. <<>> = [l \in {} |-> SamplesAfter(T, 1, 0)[l]]
  OBVIOUS
<1> QED BY <1>3, <1>4

LEMMA SamplesAreTyped ==
  ASSUME NEW T \in Measures, NEW run \in Nat \ {0}, NEW i \in 0 .. 3
  PROVE  SamplesAfter(T, run, i) \in SampleTypes
<1>1. Reached(run, i) \in SUBSET MeasuredLayers
  BY DEF Reached
<1>2. ASSUME NEW l \in Reached(run, i)
      PROVE  [k \in 1 .. RunsOf(l, run, i) |-> T[Place(l)][k]] \in Seq(Nat \cup {NoMemory})
  <2>1. PICK f : f = T[Place(l)]
    OBVIOUS
  <2>2. Place(l) \in 1 .. Len(Order)
    BY OrderIs DEF Reached
  <2>3. f \in [Nat -> Nat]
    BY <2>1, <2>2 DEF Measures
  <2>4. PICK n \in Nat : n = RunsOf(l, run, i)
    BY DEF RunsOf
  <2>5. [k \in 1 .. n |-> f[k]] \in Seq(Nat \cup {NoMemory})
    BY <2>3
  <2> QED BY <2>1, <2>4, <2>5
<1>3. SamplesAfter(T, run, i) \in [Reached(run, i) -> Seq(Nat \cup {NoMemory})]
  BY <1>2 DEF SamplesAfter
<1> QED BY <1>1, <1>3 DEF SampleTypes

-----------------------------------------------------------------------------
(* The events of a session.                                                *)

Kernels == [MeasuredLayers -> Nat]
LayerBlock(backend, kernels, i, run) ==
  <<Node(NoLayer, Primary(backend), 0, NoMemory)>> \o LayerEvents(backend, kernels, i, run)

\* The events of a session.
LEMMA NodeIs ==
  ASSUME NEW l \in MeasuredLayers \cup {NoLayer},
         NEW provider \in {"CPUExecutionProvider", "CUDAExecutionProvider"},
         NEW dur \in Nat, NEW mem \in Nat \cup {NoMemory}, NEW e, e = Node(l, provider, dur, mem)
  PROVE  /\ e \in EventTypes
         /\ e.cat = "Node" /\ e.layer = l /\ e.provider = provider /\ e.dur = dur /\ e.mem = mem
         /\ \A p : node_layer_key_for_provider(e, p) = IF p = provider THEN l ELSE NoLayer
<1>1. e.cat = "Node" /\ e.layer = l /\ e.provider = provider /\ e.dur = dur /\ e.mem = mem
  BY DEF Node
<1>2. e \in EventTypes
  BY DEF Node, EventTypes
<1>3. \A p : node_layer_key_for_provider(e, p) = IF p = provider THEN l ELSE NoLayer
  BY <1>1 DEF node_layer_key_for_provider
<1> QED BY <1>1, <1>2, <1>3

LEMMA OtherIs ==
  ASSUME NEW cat \in {"Kernel", "Session"}, NEW dur \in Nat, NEW e, e = Other(cat, dur)
  PROVE  /\ e \in EventTypes
         /\ e.cat = cat /\ e.provider = "none" /\ e.dur = dur
         /\ \A p : node_layer_key_for_provider(e, p) = NoLayer
<1>1. e.cat = cat /\ e.layer = NoLayer /\ e.provider = "none" /\ e.dur = dur
  BY DEF Other
<1>2. e \in EventTypes
  BY DEF Other, EventTypes
<1>3. \A p : node_layer_key_for_provider(e, p) = NoLayer
  BY <1>1 DEF node_layer_key_for_provider
<1> QED BY <1>1, <1>2, <1>3

\* What the times and the memory of a layer are.
LEMMA MeasuresAre ==
  ASSUME NEW i \in 1 .. 3, NEW run \in Nat, NEW n \in Nat
  PROVE  Duration(i, run) \in Nat /\ Memory(i, run) \in Nat /\ KernelTime(i, run, n) \in Nat
<1>1. i \in Nat /\ run % 2 \in Nat
  OBVIOUS
<1> QED BY <1>1 DEF Duration, Memory, KernelTime

LEMMA PrimaryIs ==
  /\ Primary("cpu") = "CPUExecutionProvider" /\ Primary("gpu") = "CUDAExecutionProvider"
  /\ "CPUExecutionProvider" # "CUDAExecutionProvider"
BY DEF Primary

LEMMA OpeningIs ==
  ASSUME NEW backend \in {"cpu", "gpu"}, NEW e, e = Node(NoLayer, Primary(backend), 0, NoMemory)
  PROVE  /\ e \in EventTypes /\ e.cat = "Node" /\ e.provider = Primary(backend)
         /\ \A p : node_layer_key_for_provider(e, p) = NoLayer
<1>1. e.cat = "Node" /\ e.layer = NoLayer /\ e.provider = Primary(backend)
  BY DEF Node
<1>2. e \in EventTypes
  BY PrimaryIs DEF Node, EventTypes
<1>3. \A p : node_layer_key_for_provider(e, p) = NoLayer
  BY <1>1 DEF node_layer_key_for_provider
<1> QED BY <1>1, <1>2, <1>3

\* The kernels that layer i starts in a run.
KernelEvents(i, run, n) == [k \in 1 .. n |-> Other("Kernel", KernelTime(i, run, k))]

LEMMA KernelEventsAre ==
  ASSUME NEW i \in 1 .. 3, NEW run \in Nat, NEW n \in Nat, NEW s, s = KernelEvents(i, run, n)
  PROVE  /\ s \in Seq(EventTypes)
         /\ Len(s) = n
         /\ \A k \in 1 .. n : s[k] = Other("Kernel", KernelTime(i, run, k))
<1>1. \A k \in 1 .. n : Other("Kernel", KernelTime(i, run, k)) \in EventTypes
  <2> SUFFICES ASSUME NEW k \in 1 .. n PROVE Other("Kernel", KernelTime(i, run, k)) \in EventTypes
    OBVIOUS
  <2>1. k \in Nat
    OBVIOUS
  <2>2. KernelTime(i, run, k) \in Nat
    BY <2>1, MeasuresAre
  <2> QED BY <2>2, OtherIs
<1>2. s = [k \in 1 .. n |-> Other("Kernel", KernelTime(i, run, k))]
  BY DEF KernelEvents
<1>3. \A k \in 1 .. n : s[k] = Other("Kernel", KernelTime(i, run, k))
  BY <1>2
<1>4. s \in [1 .. n -> EventTypes]
  BY <1>1, <1>2
<1>5. s \in Seq(EventTypes) /\ Len(s) = n
  BY <1>4
<1> QED BY <1>3, <1>5

\* Layer i of a run, on the CPU or on a GPU.
LEMMA LayerEventsAre ==
  ASSUME NEW backend \in {"cpu", "gpu"}, NEW kernels \in Kernels, NEW i \in 1 .. 3,
         NEW run \in Nat, NEW on_gpu, on_gpu = (backend = "gpu" /\ kernels[Order[i]] # 0)
  PROVE  /\ ~ on_gpu => LayerEvents(backend, kernels, i, run) =
              <<Node(Order[i], "CPUExecutionProvider", Duration(i, run), Memory(i, run))>>
         /\ on_gpu => LayerEvents(backend, kernels, i, run) =
              <<Node(Order[i], "CUDAExecutionProvider", 1, Memory(i, run))>>
                \o KernelEvents(i, run, kernels[Order[i]])
<1>1. ~ on_gpu <=> backend = "cpu" \/ kernels[Order[i]] = 0
  OBVIOUS
<1>2. ASSUME ~ on_gpu
      PROVE  LayerEvents(backend, kernels, i, run) =
               <<Node(Order[i], "CPUExecutionProvider", Duration(i, run), Memory(i, run))>>
  <2>1. backend = "cpu" \/ kernels[Order[i]] = 0
    BY <1>1, <1>2
  <2> QED BY <2>1, Zenon DEF LayerEvents
<1>3. ASSUME on_gpu
      PROVE  LayerEvents(backend, kernels, i, run) =
               <<Node(Order[i], "CUDAExecutionProvider", 1, Memory(i, run))>>
                 \o KernelEvents(i, run, kernels[Order[i]])
  <2>1. ~ (backend = "cpu" \/ kernels[Order[i]] = 0)
    BY <1>1, <1>3
  <2> QED BY <2>1, Zenon DEF LayerEvents, KernelEvents
<1> QED BY <1>2, <1>3, Zenon

LEMMA BlocksAreTyped ==
  ASSUME NEW backend \in {"cpu", "gpu"}, NEW kernels \in Kernels, NEW i \in 1 .. 3,
         NEW run \in Nat
  PROVE  /\ LayerEvents(backend, kernels, i, run) \in Seq(EventTypes)
         /\ LayerBlock(backend, kernels, i, run) \in Seq(EventTypes)
<1>1. Order[i] \in MeasuredLayers /\ Duration(i, run) \in Nat /\ Memory(i, run) \in Nat
  BY OrderIs, MeasuresAre
<1>2. kernels[Order[i]] \in Nat
  BY <1>1 DEF Kernels
<1> PICK on_gpu : on_gpu = (backend = "gpu" /\ kernels[Order[i]] # 0)
  OBVIOUS
<1>3. LayerEvents(backend, kernels, i, run) \in Seq(EventTypes)
  <2>1. CASE ~ on_gpu
    <3> PICK e : e = Node(Order[i], "CPUExecutionProvider", Duration(i, run), Memory(i, run))
      OBVIOUS
    <3>1. e \in EventTypes
      BY <1>1, NodeIs
    <3>2. <<e>> \in Seq(EventTypes)
      BY <3>1
    <3> QED BY <2>1, <3>2, LayerEventsAre, Zenon
  <2>2. CASE on_gpu
    <3> PICK e, s : /\ e = Node(Order[i], "CUDAExecutionProvider", 1, Memory(i, run))
                    /\ s = KernelEvents(i, run, kernels[Order[i]])
      OBVIOUS
    <3>1. e \in EventTypes
      BY <1>1, NodeIs
    <3>2. <<e>> \in Seq(EventTypes) /\ s \in Seq(EventTypes)
      BY <1>2, <3>1, KernelEventsAre
    <3>3. <<e>> \o s \in Seq(EventTypes)
      BY <3>2, JoinedIs
    <3> QED BY <2>2, <3>3, LayerEventsAre, Zenon
  <2> QED BY <2>1, <2>2
<1>4. LayerBlock(backend, kernels, i, run) \in Seq(EventTypes)
  <2> PICK e, s : /\ e = Node(NoLayer, Primary(backend), 0, NoMemory)
                  /\ s = LayerEvents(backend, kernels, i, run)
    OBVIOUS
  <2>1. e \in EventTypes
    BY OpeningIs
  <2>2. <<e>> \in Seq(EventTypes)
    BY <2>1
  <2>3. <<e>> \o s \in Seq(EventTypes)
    BY <1>3, <2>2, JoinedIs
  <2> QED BY <2>3, Zenon DEF LayerBlock
<1> QED BY <1>3, <1>4

LEMMA ListIs ==
  ASSUME NEW Q, NEW n \in Nat, NEW s \in [1 .. n -> Q]
  PROVE  s \in Seq(Q) /\ Len(s) = n
OBVIOUS

\* inv[<<run, i>>] holds after layer i of a run.
SessionStep(step, inv, backend, kernels) ==
  \A run \in 1 .. expected_samples :
    /\ \A i \in 1 .. 3 :
         Leads(step, inv[<<run, i - 1>>], LayerBlock(backend, kernels, i, run), inv[<<run, i>>])
    /\ Leads(step, inv[<<run, 3>>], <<Other("Session", 100)>>, inv[<<run + 1, 0>>])

LEMMA RunsAre ==
  /\ expected_samples \in Nat \ {0}
  /\ WARMUP_ITERATIONS \in Nat /\ PROFILE_ITERATIONS \in Nat \ {0}
  /\ expected_samples = WARMUP_ITERATIONS + PROFILE_ITERATIONS
BY IterationsAssumption DEF expected_samples

\* What goes from layer to layer, and from run to run, goes through a session.
LEMMA SessionLeads ==
  ASSUME NEW backend \in {"cpu", "gpu"}, NEW kernels \in Kernels, NEW step, NEW inv,
         SessionStep(step, inv, backend, kernels)
  PROVE  /\ SessionEvents(backend, kernels) \in Seq(EventTypes)
         /\ Leads(step, inv[<<1, 0>>], SessionEvents(backend, kernels),
                  inv[<<expected_samples + 1, 0>>])
<1>1. ASSUME NEW run \in 1 .. expected_samples
      PROVE  /\ RunEvents(backend, kernels, run) \in Seq(EventTypes)
             /\ Leads(step, inv[<<run, 0>>], RunEvents(backend, kernels, run), inv[<<run + 1, 0>>])
  <2>1. run \in Nat
    BY RunsAre
  <2> PICK seqs : seqs = [i \in 1 .. Len(Order) |-> LayerBlock(backend, kernels, i, run)]
    OBVIOUS
  <2>2. seqs = [i \in 1 .. 3 |-> LayerBlock(backend, kernels, i, run)]
    BY OrderIs
  <2>3. seqs \in Seq(Seq(EventTypes)) /\ Len(seqs) = 3
    <3>1. \A i \in 1 .. 3 : LayerBlock(backend, kernels, i, run) \in Seq(EventTypes)
      BY <2>1, BlocksAreTyped
    <3>2. seqs \in [1 .. 3 -> Seq(EventTypes)] /\ 3 \in Nat
      BY <2>2, <3>1
    <3> QED BY <3>2, ListIs
  <2> PICK at : at = [i \in 0 .. 3 |-> inv[<<run, i>>]]
    OBVIOUS
  <2>4. at[0] = inv[<<run, 0>>] /\ at[3] = inv[<<run, 3>>]
    OBVIOUS
  <2>5. ASSUME NEW i \in 1 .. 3 PROVE Leads(step, at[i - 1], seqs[i], at[i])
    <3>1. at[i - 1] = inv[<<run, i - 1>>] /\ at[i] = inv[<<run, i>>]
      OBVIOUS
    <3>2. seqs[i] = LayerBlock(backend, kernels, i, run)
      BY <2>2
    <3> QED BY <3>1, <3>2 DEF SessionStep
  <2> PICK flat : flat = FlattenSeq(seqs)
    OBVIOUS
  <2>6. flat \in Seq(EventTypes) /\ Leads(step, at[0], flat, at[3])
    <3> PICK n \in Nat \ {0} : n = 3
      OBVIOUS
    <3>1. \A i \in 1 .. n : Leads(step, at[i - 1], seqs[i], at[i])
      BY <2>5
    <3>2. Leads(step, at[0], flat, at[n]) /\ flat \in Seq(EventTypes)
      BY <2>3, <3>1, InBlocks
    <3> QED BY <3>2
  <2> PICK last : last = <<Other("Session", 100)>>
    OBVIOUS
  <2>7. last \in Seq(EventTypes)
    <3> PICK e : e = Other("Session", 100)
      OBVIOUS
    <3>1. e \in EventTypes
      BY OtherIs
    <3> QED BY <3>1
  <2>8. Leads(step, at[3], last, inv[<<run + 1, 0>>])
    BY <2>4 DEF SessionStep
  <2>9. flat \o last \in Seq(EventTypes) /\ Leads(step, at[0], flat \o last, inv[<<run + 1, 0>>])
    BY <2>6, <2>7, <2>8, InTurn
  <2>10. RunEvents(backend, kernels, run) = flat \o last
    BY Zenon DEF RunEvents, LayerBlock
  <2> QED BY <2>4, <2>9, <2>10, Zenon
<1> PICK N \in Nat \ {0} : N = expected_samples
  BY RunsAre
<1> PICK seqs : seqs = [run \in 1 .. N |-> RunEvents(backend, kernels, run)]
  OBVIOUS
<1>2. seqs \in Seq(Seq(EventTypes)) /\ Len(seqs) = N
  <2>1. seqs \in [1 .. N -> Seq(EventTypes)]
    BY <1>1
  <2> QED BY <2>1, ListIs
<1> PICK at : at = [run \in 0 .. N |-> inv[<<run + 1, 0>>]]
  OBVIOUS
<1>3. at[0] = inv[<<1, 0>>] /\ at[N] = inv[<<N + 1, 0>>]
  OBVIOUS
<1>4. ASSUME NEW run \in 1 .. N PROVE Leads(step, at[run - 1], seqs[run], at[run])
  <2>1. at[run - 1] = inv[<<run, 0>>] /\ at[run] = inv[<<run + 1, 0>>]
    <3>1. run - 1 \in 0 .. N /\ run \in 0 .. N /\ run - 1 + 1 = run
      OBVIOUS
    <3> QED BY <3>1
  <2>2. seqs[run] = RunEvents(backend, kernels, run)
    OBVIOUS
  <2> QED BY <1>1, <2>1, <2>2
<1>5. FlattenSeq(seqs) \in Seq(EventTypes) /\ Leads(step, at[0], FlattenSeq(seqs), at[N])
  BY <1>2, <1>4, InBlocks
<1>6. SessionEvents(backend, kernels) = FlattenSeq(seqs)
  BY Zenon DEF SessionEvents
<1> QED BY <1>3, <1>5, <1>6

-----------------------------------------------------------------------------
(* What the folds make of the events.                                      *)

TimesOf(backend, kernels) ==
  [i \in 1 .. Len(Order) |-> [run \in Nat |-> TimeOf(backend, kernels, i, run)]]
MemoryOf == [i \in 1 .. Len(Order) |-> [run \in Nat |-> Memory(i, run)]]

LEMMA KernelTimesAre ==
  ASSUME NEW i \in 1 .. 3, NEW run \in Nat, NEW n \in Nat, NEW time, time = KernelTimes(i, run, n)
  PROVE  /\ DOMAIN time = 1 .. n /\ Counts(time, 1 .. n)
         /\ \A k \in 1 .. n : time[k] = KernelTime(i, run, k)
<1>1. DOMAIN time = 1 .. n /\ \A k \in 1 .. n : time[k] = KernelTime(i, run, k)
  BY DEF KernelTimes
<1>2. \A k \in 1 .. n : time[k] \in Nat
  <2> SUFFICES ASSUME NEW k \in 1 .. n PROVE time[k] \in Nat
    OBVIOUS
  <2>1. k \in Nat
    OBVIOUS
  <2>2. KernelTime(i, run, k) \in Nat
    BY <2>1, MeasuresAre
  <2> QED BY <1>1, <2>2
<1>3. IsFiniteSet(1 .. n)
  BY FS_Interval
<1> QED BY <1>1, <1>2, <1>3 DEF Counts

\* A layer takes what its event says, or the sum of what its kernels do.
LEMMA TimeIs ==
  ASSUME NEW backend \in {"cpu", "gpu"}, NEW kernels \in Kernels, NEW i \in 1 .. 3,
         NEW run \in Nat, NEW n, n = kernels[Order[i]]
  PROVE  /\ TimeOf(backend, kernels, i, run) \in Nat
         /\ TimesOf(backend, kernels)[i][run] = TimeOf(backend, kernels, i, run)
         /\ backend = "cpu" \/ n = 0 => TimeOf(backend, kernels, i, run) = Duration(i, run)
         /\ ~(backend = "cpu" \/ n = 0) =>
              TimeOf(backend, kernels, i, run) = SumOver(KernelTimes(i, run, n), 1 .. n)
<1>1. n \in Nat
  BY OrderIs DEF Kernels
<1>2. ASSUME backend = "cpu" \/ n = 0
      PROVE  TimeOf(backend, kernels, i, run) = Duration(i, run)
  BY <1>2, Zenon DEF TimeOf
<1>3. ASSUME ~(backend = "cpu" \/ n = 0)
      PROVE  /\ TimeOf(backend, kernels, i, run) = SumOver(KernelTimes(i, run, n), 1 .. n)
             /\ TimeOf(backend, kernels, i, run) \in Nat
  <2> DEFINE time == KernelTimes(i, run, kernels[Order[i]])
  <2>1. DOMAIN time = 1 .. n /\ Counts(time, 1 .. n)
    BY <1>1, KernelTimesAre
  <2>2. ~(backend = "cpu" \/ kernels[Order[i]] = 0)
    BY <1>3
  <2>3. TimeOf(backend, kernels, i, run) = MapThenSumSet(LAMBDA k : time[k], DOMAIN time)
    BY <2>2, Zenon DEF TimeOf
  <2> HIDE DEF time
  <2>4. MapThenSumSet(LAMBDA k : time[k], DOMAIN time) = SumOver(time, DOMAIN time)
    BY Zenon DEF MapThenSumSet, MapThenFoldSet, SumOver, IsSumming, Summed
  <2>5. SumOver(time, 1 .. n) \in Nat
    BY <2>1, SumIsNatural
  <2>6. TimeOf(backend, kernels, i, run) = SumOver(time, 1 .. n)
    BY <2>1, <2>3, <2>4, Zenon
  <2> QED BY <2>5, <2>6 DEF time
<1>4. TimeOf(backend, kernels, i, run) \in Nat
  BY <1>2, <1>3, MeasuresAre
<1>5. TimesOf(backend, kernels)[i][run] = TimeOf(backend, kernels, i, run)
  BY OrderIs DEF TimesOf
<1> QED BY <1>2, <1>3, <1>4, <1>5

LEMMA MeasuresAreTyped ==
  ASSUME NEW backend \in {"cpu", "gpu"}, NEW kernels \in Kernels
  PROVE  /\ TimesOf(backend, kernels) \in Measures
         /\ MemoryOf \in Measures
         /\ \A i \in 1 .. 3, run \in Nat : MemoryOf[i][run] = Memory(i, run)
<1>1. \A i \in 1 .. 3, run \in Nat : TimeOf(backend, kernels, i, run) \in Nat
  BY TimeIs
<1>2. \A i \in 1 .. 3, run \in Nat : Memory(i, run) \in Nat
  <2> SUFFICES ASSUME NEW i \in 1 .. 3, NEW run \in Nat PROVE Memory(i, run) \in Nat
    OBVIOUS
  <2>1. 0 \in Nat
    OBVIOUS
  <2> QED BY <2>1, MeasuresAre
<1>3. TimesOf(backend, kernels) \in Measures
  BY <1>1, OrderIs DEF TimesOf, Measures
<1>4. MemoryOf \in Measures
  BY <1>2, OrderIs DEF MemoryOf, Measures
<1>5. \A i \in 1 .. 3, run \in Nat : MemoryOf[i][run] = Memory(i, run)
  BY OrderIs DEF MemoryOf
<1> QED BY <1>3, <1>4, <1>5

\* An event leaves the samples as they are, or is a sample of one layer.
Keeps(step, e) == \A m \in SampleTypes : step[<<m, e>>] = m
Samples(step, e, l, x) == \A m \in SampleTypes : step[<<m, e>>] = append_sample(m, l, x)

LEMMA CpuStepIs ==
  ASSUME NEW e \in EventTypes, NEW l, l = node_layer_key_for_provider(e, "CPUExecutionProvider")
  PROVE  IF l = NoLayer THEN Keeps(CpuSteps, e) ELSE Samples(CpuSteps, e, l, e.dur)
BY DEF Keeps, Samples, CpuSteps, cpu_step

LEMMA MemoryStepIs ==
  ASSUME NEW backend, NEW e \in EventTypes,
         NEW l, l = node_layer_key_for_provider(e, e.provider)
  PROVE  IF e.provider \notin providers(backend) \/ l = NoLayer
         THEN Keeps(MemorySteps(backend), e)
         ELSE Samples(MemorySteps(backend), e, l, e.mem)
BY DEF Keeps, Samples, MemorySteps, memory_step

LEMMA KeptOverList ==
  ASSUME NEW step, NEW m \in SampleTypes, NEW s, NEW n \in Nat, Len(s) = n,
         \A k \in 1 .. n : Keeps(step, s[k])
  PROVE  Leads(step, {m}, s, {m})
<1> PICK inv : inv = [k \in 0 .. n |-> {m}]
  OBVIOUS
<1>1. ASSUME NEW k \in 1 .. n, NEW p \in inv[k - 1] PROVE step[<<p, s[k]>>] \in inv[k]
  <2>1. inv[k - 1] = {m} /\ inv[k] = {m}
    OBVIOUS
  <2>2. p = m
    BY <1>1, <2>1
  <2>3. step[<<m, s[k]>>] = m
    BY DEF Keeps
  <2> QED BY <2>1, <2>2, <2>3
<1>2. Leads(step, inv[0], s, inv[n])
  BY <1>1, ByEvents
<1>3. inv[0] = {m} /\ inv[n] = {m}
  OBVIOUS
<1> QED BY <1>2, <1>3

LEMMA KeptOver ==
  ASSUME NEW step, NEW m \in SampleTypes, NEW e, Keeps(step, e)
  PROVE  Leads(step, {m}, <<e>>, {m})
<1>1. \A p \in {m} : step[<<p, e>>] \in {m}
  BY DEF Keeps
<1> QED BY <1>1, OneEvent

\* The event of a layer takes the samples one layer further.
LEMMA SampledBy ==
  ASSUME NEW step, NEW e, NEW T \in Measures, NEW run \in Nat \ {0}, NEW i \in 1 .. 3,
         Samples(step, e, Order[i], T[i][run])
  PROVE  Leads(step, {SamplesAfter(T, run, i - 1)}, <<e>>, {SamplesAfter(T, run, i)})
<1> PICK m : m = SamplesAfter(T, run, i - 1)
  OBVIOUS
<1>1. m \in SampleTypes
  BY SamplesAreTyped
<1>2. step[<<m, e>>] = SamplesAfter(T, run, i)
  BY <1>1, SampleOfLayer DEF Samples
<1>3. \A p \in {m} : step[<<p, e>>] \in {SamplesAfter(T, run, i)}
  BY <1>2
<1>4. Leads(step, {m}, <<e>>, {SamplesAfter(T, run, i)})
  BY <1>3, OneEvent
<1> QED BY <1>4

\* What holds after layer i of a run, of the durations on the CPU and of memory.
SamplesAt(T) == [q \in Nat \X Nat |-> {SamplesAfter(T, q[1], q[2])}]

\* A session, as the durations on the CPU are collected.
LEMMA CpuSession ==
  ASSUME NEW kernels \in Kernels, NEW T, T = TimesOf("cpu", kernels)
  PROVE  SessionStep(CpuSteps, SamplesAt(T), "cpu", kernels)
<1> PICK inv : inv = SamplesAt(T)
  OBVIOUS
<1>0. T \in Measures
  BY MeasuresAreTyped
<1>1. ASSUME NEW run \in 1 .. expected_samples, NEW i \in 1 .. 3
      PROVE  Leads(CpuSteps, inv[<<run, i - 1>>], LayerBlock("cpu", kernels, i, run), inv[<<run, i>>])
  <2>1. run \in Nat \ {0} /\ i \in Nat /\ i - 1 \in Nat /\ i - 1 \in 0 .. 3
    BY RunsAre
  <2> PICK m, n : m = SamplesAfter(T, run, i - 1) /\ n = SamplesAfter(T, run, i)
    OBVIOUS
  <2>2. inv[<<run, i - 1>>] = {m} /\ inv[<<run, i>>] = {n} /\ m \in SampleTypes
    BY <1>0, <2>1, SamplesAreTyped DEF SamplesAt
  <2> PICK e, f : /\ e = Node(NoLayer, Primary("cpu"), 0, NoMemory)
                  /\ f = Node(Order[i], "CPUExecutionProvider", Duration(i, run), Memory(i, run))
    OBVIOUS
  <2>3. e \in EventTypes /\ Leads(CpuSteps, {m}, <<e>>, {m})
    <3>1. e \in EventTypes /\ node_layer_key_for_provider(e, "CPUExecutionProvider") = NoLayer
      BY OpeningIs
    <3> QED BY <2>2, <3>1, CpuStepIs, KeptOver
  <2>4. f \in EventTypes /\ Leads(CpuSteps, {m}, <<f>>, {n})
    <3>1. Order[i] \in MeasuredLayers /\ Order[i] # NoLayer
          /\ Duration(i, run) \in Nat /\ Memory(i, run) \in Nat
      BY <2>1, OrderIs, MeasuresAre
    <3>2. /\ f \in EventTypes /\ f.dur = Duration(i, run)
          /\ node_layer_key_for_provider(f, "CPUExecutionProvider") = Order[i]
      BY <3>1, NodeIs
    <3>3. T[i][run] = Duration(i, run)
      <4> PICK b \in {"cpu", "gpu"} : b = "cpu"
        OBVIOUS
      <4> PICK k : k = kernels[Order[i]]
        OBVIOUS
      <4>1. TimesOf(b, kernels)[i][run] = TimeOf(b, kernels, i, run)
        BY <2>1, TimeIs
      <4>2. TimeOf(b, kernels, i, run) = Duration(i, run)
        BY <2>1, TimeIs
      <4> QED BY <4>1, <4>2
    <3>4. Samples(CpuSteps, f, Order[i], T[i][run])
      BY <3>1, <3>2, <3>3, CpuStepIs
    <3> QED BY <1>0, <2>1, <3>2, <3>4, SampledBy
  <2>5. LayerBlock("cpu", kernels, i, run) = <<e>> \o <<f>>
    <3>1. LayerEvents("cpu", kernels, i, run) = <<f>>
      BY Zenon DEF LayerEvents
    <3> QED BY <3>1, Zenon DEF LayerBlock
  <2>6. Leads(CpuSteps, {m}, <<e>> \o <<f>>, {n})
    <3>1. <<e>> \in Seq(EventTypes) /\ <<f>> \in Seq(EventTypes)
      BY <2>3, <2>4
    <3> QED BY <2>3, <2>4, <3>1, InTurn
  <2> QED BY <2>2, <2>5, <2>6, Zenon
<1>2. ASSUME NEW run \in 1 .. expected_samples
      PROVE  Leads(CpuSteps, inv[<<run, 3>>], <<Other("Session", 100)>>, inv[<<run + 1, 0>>])
  <2>1. run \in Nat \ {0} /\ run + 1 \in Nat /\ 3 \in Nat /\ 0 \in Nat /\ 3 \in 0 .. 3
    BY RunsAre
  <2> PICK m, e : m = SamplesAfter(T, run, 3) /\ e = Other("Session", 100)
    OBVIOUS
  <2>2. inv[<<run, 3>>] = {m} /\ inv[<<run + 1, 0>>] = {m} /\ m \in SampleTypes
    BY <1>0, <2>1, SamplesOfRun, SamplesAreTyped DEF SamplesAt
  <2>3. e \in EventTypes /\ node_layer_key_for_provider(e, "CPUExecutionProvider") = NoLayer
    BY OtherIs
  <2> QED BY <2>2, <2>3, CpuStepIs, KeptOver
<1> QED BY <1>1, <1>2 DEF SessionStep

LEMMA ProvidersAre ==
  /\ providers("cpu") = {"CPUExecutionProvider"}
  /\ providers("gpu") = {"CUDAExecutionProvider", "CPUExecutionProvider"}
BY PrimaryIs DEF providers

\* Kernels have no memory of their own.
LEMMA KernelsAreNotSampled ==
  ASSUME NEW backend, NEW i \in 1 .. 3, NEW run \in Nat, NEW n \in Nat, NEW m \in SampleTypes,
         NEW s, s = KernelEvents(i, run, n)
  PROVE  s \in Seq(EventTypes) /\ Leads(MemorySteps(backend), {m}, s, {m})
<1>1. s \in Seq(EventTypes) /\ Len(s) = n
  BY KernelEventsAre
<1>2. \A j \in 1 .. n : s[j] = Other("Kernel", KernelTime(i, run, j))
  BY KernelEventsAre
<1>3. ASSUME NEW j \in 1 .. n PROVE Keeps(MemorySteps(backend), s[j])
  <2> PICK o : o = s[j]
    OBVIOUS
  <2>1. j \in Nat
    OBVIOUS
  <2>2. KernelTime(i, run, j) \in Nat
    BY <2>1, MeasuresAre
  <2>3. o \in EventTypes /\ node_layer_key_for_provider(o, o.provider) = NoLayer
    BY <1>2, <2>2, OtherIs
  <2> QED BY <2>3, MemoryStepIs
<1>4. Leads(MemorySteps(backend), {m}, s, {m})
  BY <1>1, <1>3, KeptOverList
<1> QED BY <1>1, <1>4

\* A session, as the memory is collected.
LEMMA MemorySession ==
  ASSUME NEW backend \in {"cpu", "gpu"}, NEW kernels \in Kernels
  PROVE  SessionStep(MemorySteps(backend), SamplesAt(MemoryOf), backend, kernels)
<1> PICK T : T = MemoryOf
  OBVIOUS
<1> PICK inv, step : inv = SamplesAt(T) /\ step = MemorySteps(backend)
  OBVIOUS
<1>0. T \in Measures
  BY MeasuresAreTyped
<1>1. ASSUME NEW run \in Nat, run # 0, NEW i \in 1 .. 3
      PROVE  Leads(step, inv[<<run, i - 1>>], LayerBlock(backend, kernels, i, run), inv[<<run, i>>])
  <2>1. run \in Nat \ {0} /\ run \in Nat /\ i \in Nat /\ i - 1 \in Nat /\ i - 1 \in 0 .. 3
    BY <1>1
  <2> PICK m, n : m = SamplesAfter(T, run, i - 1) /\ n = SamplesAfter(T, run, i)
    OBVIOUS
  <2> PICK k \in Nat : k = kernels[Order[i]]
    BY OrderIs DEF Kernels
  <2>2. inv[<<run, i - 1>>] = {m} /\ inv[<<run, i>>] = {n} /\ m \in SampleTypes /\ n \in SampleTypes
    <3>1. i \in 0 .. 3
      OBVIOUS
    <3> QED BY <1>0, <2>1, <3>1, SamplesAreTyped DEF SamplesAt
  <2>3. /\ k \in Nat /\ Order[i] \in MeasuredLayers /\ Order[i] # NoLayer
        /\ Duration(i, run) \in Nat /\ Memory(i, run) \in Nat
    BY <2>1, OrderIs, MeasuresAre DEF Kernels
  <2> PICK e : e = Node(NoLayer, Primary(backend), 0, NoMemory)
    OBVIOUS
  <2>4. e \in EventTypes /\ Leads(step, {m}, <<e>>, {m})
    <3>1. e \in EventTypes /\ node_layer_key_for_provider(e, e.provider) = NoLayer
      BY OpeningIs
    <3> QED BY <2>2, <3>1, MemoryStepIs, KeptOver
  <2>5. ASSUME NEW provider \in {"CPUExecutionProvider", "CUDAExecutionProvider"},
               provider \in providers(backend), NEW dur \in Nat,
               NEW f, f = Node(Order[i], provider, dur, Memory(i, run))
        PROVE  f \in EventTypes /\ Leads(step, {m}, <<f>>, {n})
    <3>1. /\ f \in EventTypes /\ f.mem = Memory(i, run) /\ f.provider = provider
          /\ node_layer_key_for_provider(f, f.provider) = Order[i]
      BY <2>3, <2>5, NodeIs
    <3>2. T[i][run] = Memory(i, run)
      BY <2>1, MeasuresAreTyped
    <3>3. Samples(step, f, Order[i], T[i][run])
      BY <2>3, <2>5, <3>1, <3>2, MemoryStepIs
    <3> QED BY <1>0, <2>1, <3>1, <3>3, SampledBy
  <2>6. LayerBlock(backend, kernels, i, run) = <<e>> \o LayerEvents(backend, kernels, i, run)
    BY Zenon DEF LayerBlock
  <2>7. Leads(step, {m}, LayerEvents(backend, kernels, i, run), {n})
    <3> PICK on_gpu : on_gpu = (backend = "gpu" /\ k # 0)
      OBVIOUS
    <3>1. CASE ~ on_gpu
      <4> PICK f : f = Node(Order[i], "CPUExecutionProvider", Duration(i, run), Memory(i, run))
        OBVIOUS
      <4>1. LayerEvents(backend, kernels, i, run) = <<f>>
        BY <2>1, <3>1, LayerEventsAre
      <4>2. "CPUExecutionProvider" \in providers(backend)
        BY ProvidersAre
      <4>3. Leads(step, {m}, <<f>>, {n})
        BY <2>3, <2>5, <4>2
      <4> QED BY <4>1, <4>3
    <3>2. CASE on_gpu
      <4> PICK f, s : /\ f = Node(Order[i], "CUDAExecutionProvider", 1, Memory(i, run))
                      /\ s = KernelEvents(i, run, k)
        OBVIOUS
      <4>1. LayerEvents(backend, kernels, i, run) = <<f>> \o s
        BY <2>1, <3>2, LayerEventsAre, Zenon
      <4>2. "CUDAExecutionProvider" \in providers(backend)
        BY <3>2, ProvidersAre
      <4>3. f \in EventTypes /\ Leads(step, {m}, <<f>>, {n})
        BY <2>3, <2>5, <4>2
      <4>4. s \in Seq(EventTypes) /\ Leads(step, {n}, s, {n})
        BY <2>1, <2>2, KernelsAreNotSampled
      <4>7. <<f>> \in Seq(EventTypes)
        BY <4>3
      <4>8. Leads(step, {m}, <<f>> \o s, {n})
        BY <4>3, <4>4, <4>7, InTurn
      <4> QED BY <4>1, <4>8, Zenon
    <3> QED BY <3>1, <3>2
  <2>8. Leads(step, {m}, <<e>> \o LayerEvents(backend, kernels, i, run), {n})
    <3> PICK s : s = LayerEvents(backend, kernels, i, run)
      OBVIOUS
    <3>a. <<e>> \in Seq(EventTypes)
      BY <2>4
    <3>b. s \in Seq(EventTypes)
      BY <2>1, BlocksAreTyped, Zenon
    <3>1. <<e>> \in Seq(EventTypes) /\ s \in Seq(EventTypes)
      BY <3>a, <3>b
    <3>2. Leads(step, {m}, <<e>> \o s, {n})
      BY <2>4, <2>7, <3>1, InTurn
    <3> QED BY <3>2, Zenon
  <2> QED BY <2>2, <2>6, <2>8, Zenon
<1>2. ASSUME NEW run \in 1 .. expected_samples
      PROVE  Leads(step, inv[<<run, 3>>], <<Other("Session", 100)>>, inv[<<run + 1, 0>>])
  <2>1. run \in Nat \ {0} /\ run + 1 \in Nat /\ 3 \in Nat /\ 0 \in Nat /\ 3 \in 0 .. 3
    BY RunsAre
  <2> PICK m, e : m = SamplesAfter(T, run, 3) /\ e = Other("Session", 100)
    OBVIOUS
  <2>2. inv[<<run, 3>>] = {m} /\ inv[<<run + 1, 0>>] = {m} /\ m \in SampleTypes
    BY <1>0, <2>1, SamplesOfRun, SamplesAreTyped DEF SamplesAt
  <2>3. e \in EventTypes /\ node_layer_key_for_provider(e, e.provider) = NoLayer
    BY OtherIs
  <2> QED BY <2>2, <2>3, MemoryStepIs, KeptOver
<1>3. \A run \in 1 .. expected_samples : run \in Nat /\ run # 0
  BY RunsAre
<1> QED BY <1>1, <1>2, <1>3 DEF SessionStep

-----------------------------------------------------------------------------
(* The durations on a GPU.                                                 *)

Yes == TRUE
Flags == BOOLEAN

\* Where a parser of GPU durations is.
At(S, l, k, c, r) ==
  [samples |-> S, current |-> l, kernels |-> k, found_cuda_node |-> c, found_kernel_event |-> r]
Found(kernels, run, i) == \E j \in 1 .. 3 : kernels[Order[j]] # 0 /\ (run > 1 \/ j <= i)
ParsedAfter(T, kernels, run, i) ==
  {p \in ParsingTypes : /\ append_current_sample(p) = SamplesAfter(T, run, i)
                        /\ p.found_cuda_node = Found(kernels, run, i)
                        /\ p.found_kernel_event = Found(kernels, run, i)}
ParsedAt(T, kernels) == [q \in Nat \X Nat |-> ParsedAfter(T, kernels, q[1], q[2])]

LEMMA AtIs ==
  ASSUME NEW S \in SampleTypes, NEW l \in MeasuredLayers \cup {NoLayer}, NEW k \in Nat,
         NEW c \in Flags, NEW r \in Flags, NEW p, p = At(S, l, k, c, r)
  PROVE  /\ p \in ParsingTypes
         /\ p.samples = S /\ p.current = l /\ p.kernels = k
         /\ p.found_cuda_node = c /\ p.found_kernel_event = r
         /\ append_current_sample(p) = IF l = NoLayer THEN S ELSE append_sample(S, l, k)
<1>1. p \in ParsingTypes
  BY DEF At, ParsingTypes, Flags
<1>2. p.samples = S /\ p.current = l /\ p.kernels = k
  BY DEF At
<1>3. p.found_cuda_node = c /\ p.found_kernel_event = r
  BY Zenon DEF At
<1>4. append_current_sample(p) = IF l = NoLayer THEN S ELSE append_sample(S, l, k)
  BY <1>2, Zenon DEF append_current_sample
<1> QED BY <1>1, <1>2, <1>3, <1>4, Zenon

WithSamples(p, x) == [p EXCEPT !.samples = x]
WithCudaNode(p, b) == [p EXCEPT !.found_cuda_node = b]
WithKernel(p, x, b) == [p EXCEPT !.kernels = x, !.found_kernel_event = b]

LEMMA AtSamples ==
  ASSUME NEW S, NEW l, NEW k, NEW c, NEW r, NEW x, NEW b
  PROVE  WithSamples(At(S, l, k, c, r), x) = At(x, l, k, c, r)
<1> PICK p : p = [samples |-> S, current |-> l, kernels |-> k,
                  found_cuda_node |-> c, found_kernel_event |-> r]
  OBVIOUS
<1>1. [p EXCEPT !.samples = x] =
        [samples |-> x, current |-> l, kernels |-> k, found_cuda_node |-> c,
         found_kernel_event |-> r]
  OBVIOUS
<1> QED BY <1>1, Zenon DEF At, WithSamples

LEMMA AtFound ==
  ASSUME NEW S, NEW l, NEW k, NEW c, NEW r, NEW x, NEW b
  PROVE  WithCudaNode(At(S, l, k, c, r), b) = At(S, l, k, b, r)
<1> PICK p : p = [samples |-> S, current |-> l, kernels |-> k,
                  found_cuda_node |-> c, found_kernel_event |-> r]
  OBVIOUS
<1>2. [p EXCEPT !.found_cuda_node = b] =
        [samples |-> S, current |-> l, kernels |-> k, found_cuda_node |-> b,
         found_kernel_event |-> r]
  OBVIOUS
<1> QED BY <1>2, Zenon DEF At, WithCudaNode

LEMMA AtKernel ==
  ASSUME NEW S, NEW l, NEW k, NEW c, NEW r, NEW x, NEW b
  PROVE  WithKernel(At(S, l, k, c, r), x, b) = At(S, l, x, c, b)
<1> PICK p : p = [samples |-> S, current |-> l, kernels |-> k,
                  found_cuda_node |-> c, found_kernel_event |-> r]
  OBVIOUS
<1>3. [p EXCEPT !.kernels = x, !.found_kernel_event = b] =
        [samples |-> S, current |-> l, kernels |-> x, found_cuda_node |-> c,
         found_kernel_event |-> b]
  <2>1. [p EXCEPT !.kernels = x] =
          [samples |-> S, current |-> l, kernels |-> x, found_cuda_node |-> c,
           found_kernel_event |-> r]
    OBVIOUS
  <2>2. [p EXCEPT !.kernels = x, !.found_kernel_event = b] =
          [[p EXCEPT !.kernels = x] EXCEPT !.found_kernel_event = b]
    OBVIOUS
  <2>3. [[samples |-> S, current |-> l, kernels |-> x, found_cuda_node |-> c,
          found_kernel_event |-> r] EXCEPT !.found_kernel_event = b] =
          [samples |-> S, current |-> l, kernels |-> x, found_cuda_node |-> c,
           found_kernel_event |-> b]
    OBVIOUS
  <2> QED BY <2>1, <2>2, <2>3
<1> QED BY <1>3, Zenon DEF At, WithKernel

\* A node without a layer.
LEMMA OpeningStep ==
  ASSUME NEW p \in ParsingTypes, NEW e \in EventTypes, e.cat = "Node",
         \A provider : node_layer_key_for_provider(e, provider) = NoLayer,
         NEW c \in Flags, p.found_cuda_node = c, p.found_kernel_event = c
  PROVE  GpuSteps[<<p, e>>] = At(append_current_sample(p), NoLayer, 0, c, c)
<1> PICK o : o = open_node(p, e)
  OBVIOUS
<1>1. o = At(append_current_sample(p), NoLayer, 0, c, c)
  BY NodeIsOpened, Zenon DEF At
<1>2. o.current = NoLayer
  BY <1>1 DEF At
<1>3. gpu_step(p, e) = o
  BY <1>2 DEF gpu_step
<1>4. GpuSteps[<<p, e>>] = gpu_step(p, e)
  BY DEF GpuSteps
<1> QED BY <1>1, <1>3, <1>4

\* The node of a layer, on the CPU or on a GPU.
LEMMA NodeSteps ==
  ASSUME NEW S \in SampleTypes, NEW c \in Flags, NEW l \in MeasuredLayers, l # NoLayer,
         NEW e \in EventTypes, e.cat = "Node", e.layer = l
  PROVE  /\ e.provider = "CPUExecutionProvider" =>
              GpuSteps[<<At(S, NoLayer, 0, c, c), e>>] =
                At(append_sample(S, l, e.dur), NoLayer, 0, c, c)
         /\ e.provider = "CUDAExecutionProvider" =>
              GpuSteps[<<At(S, NoLayer, 0, c, c), e>>] = At(S, l, 0, Yes, c)
<1> PICK p : p = At(S, NoLayer, 0, c, c)
  OBVIOUS
<1>1. /\ p \in ParsingTypes /\ append_current_sample(p) = S
      /\ p.found_cuda_node = c /\ p.found_kernel_event = c
  <2> PICK n \in MeasuredLayers \cup {NoLayer} : n = NoLayer
    OBVIOUS
  <2> PICK z \in Nat : z = 0
    OBVIOUS
  <2>1. p = At(S, n, z, c, c)
    OBVIOUS
  <2>2. p \in ParsingTypes /\ append_current_sample(p) = S
    BY <2>1, AtIs
  <2>3. p.found_cuda_node = c /\ p.found_kernel_event = c
    BY Zenon DEF At
  <2> QED BY <2>2, <2>3
<1> PICK o, d : /\ o = open_node(p, e)
                /\ d = node_layer_key_for_provider(e, "CUDAExecutionProvider")
  OBVIOUS
<1>2. o = At(S, d, 0, c, c)
  BY <1>1, NodeIsOpened, Zenon DEF At
<1>3. o.current = d /\ o.samples = S
  BY <1>2 DEF At
<1>4. GpuSteps[<<p, e>>] = gpu_step(p, e)
  BY <1>1 DEF GpuSteps
<1>5. ASSUME e.provider = "CPUExecutionProvider"
      PROVE  gpu_step(p, e) = At(append_sample(S, l, e.dur), NoLayer, 0, c, c)
  <2>1. d = NoLayer /\ node_layer_key_for_provider(e, "CPUExecutionProvider") = l
    BY <1>5 DEF node_layer_key_for_provider
  <2>2. gpu_step(p, e) = [o EXCEPT !.samples = append_sample(o.samples, l, e.dur)]
    BY <1>3, <2>1 DEF gpu_step
  <2> PICK x : x = append_sample(S, l, e.dur)
    OBVIOUS
  <2>3. gpu_step(p, e) = WithSamples(o, x)
    BY <1>3, <2>2, Zenon DEF WithSamples
  <2>4. o = At(S, NoLayer, 0, c, c)
    BY <1>2, <2>1, Zenon
  <2> QED BY <2>3, <2>4, AtSamples
<1>6. ASSUME e.provider = "CUDAExecutionProvider"
      PROVE  gpu_step(p, e) = At(S, l, 0, Yes, c)
  <2>1. d = l
    BY <1>6 DEF node_layer_key_for_provider
  <2>2. gpu_step(p, e) = [o EXCEPT !.found_cuda_node = TRUE]
    BY <1>3, <2>1 DEF gpu_step
  <2>3. gpu_step(p, e) = WithCudaNode(o, Yes)
    BY <2>2, Zenon DEF WithCudaNode, Yes
  <2>4. o = At(S, l, 0, c, c)
    BY <1>2, <2>1, Zenon
  <2>5. WithCudaNode(At(S, l, 0, c, c), Yes) = At(S, l, 0, Yes, c)
    BY AtFound
  <2> QED BY <2>3, <2>4, <2>5, Zenon
<1> QED BY <1>4, <1>5, <1>6

\* A kernel of a layer.
LEMMA KernelStep ==
  ASSUME NEW S \in SampleTypes, NEW l \in MeasuredLayers, l # NoLayer, NEW k \in Nat,
         NEW r \in Flags, NEW e \in EventTypes, e.cat = "Kernel"
  PROVE  GpuSteps[<<At(S, l, k, Yes, r), e>>] = At(S, l, k + e.dur, Yes, Yes)
<1> PICK p : p = At(S, l, k, Yes, r)
  OBVIOUS
<1>1. p \in ParsingTypes /\ p.current = l /\ p.kernels = k
  <2>1. p.current = l /\ p.kernels = k
    BY DEF At
  <2>2. p \in ParsingTypes
    BY DEF At, ParsingTypes, Yes, Flags
  <2> QED BY <2>1, <2>2
<1>2. GpuSteps[<<p, e>>] = gpu_step(p, e)
  BY <1>1 DEF GpuSteps
<1>3. gpu_step(p, e) = [p EXCEPT !.kernels = p.kernels + e.dur, !.found_kernel_event = TRUE]
  BY <1>1 DEF gpu_step
<1>4. gpu_step(p, e) = WithKernel(p, k + e.dur, Yes)
  BY <1>1, <1>3, Zenon DEF WithKernel, Yes
<1>5. WithKernel(At(S, l, k, Yes, r), k + e.dur, Yes) = At(S, l, k + e.dur, Yes, Yes)
  BY AtKernel
<1> QED BY <1>2, <1>4, <1>5, Zenon

LEMMA SumOfOneMore ==
  ASSUME NEW h, NEW n \in Nat, Counts(h, 1 .. n + 1)
  PROVE  SumOver(h, 1 .. n + 1) = SumOver(h, 1 .. n) + h[n + 1]
<1>1. n + 1 \in 1 .. n + 1 /\ (1 .. n + 1) \ {n + 1} = 1 .. n
  OBVIOUS
<1>2. SumOver(h, 1 .. n + 1) = h[n + 1] + SumOver(h, 1 .. n)
  BY <1>1, SumTakesOut
<1>3. h[n + 1] \in Nat
  BY <1>1 DEF Counts
<1>4. SumOver(h, 1 .. n) \in Nat
  <2>1. Counts(h, 1 .. n)
    BY CountsOfPart
  <2> QED BY <2>1, SumIsNatural
<1> QED BY <1>2, <1>3, <1>4

\* All kernels of a layer.
LEMMA KernelsAreSummed ==
  ASSUME NEW S \in SampleTypes, NEW l \in MeasuredLayers, l # NoLayer, NEW c \in Flags,
         NEW i \in 1 .. 3, NEW run \in Nat, NEW n \in Nat \ {0},
         NEW s, s = KernelEvents(i, run, n), NEW time, time = KernelTimes(i, run, n)
  PROVE  /\ s \in Seq(EventTypes)
         /\ Leads(GpuSteps, {At(S, l, 0, Yes, c)}, s, {At(S, l, SumOver(time, 1 .. n), Yes, Yes)})
<1>1. s \in Seq(EventTypes) /\ Len(s) = n
  BY KernelEventsAre
<1>2. \A j \in 1 .. n : s[j] = Other("Kernel", KernelTime(i, run, j))
  BY KernelEventsAre
<1>3. Counts(time, 1 .. n) /\ \A j \in 1 .. n : time[j] = KernelTime(i, run, j)
  BY KernelTimesAre
<1> DEFINE after(j) == At(S, l, SumOver(time, 1 .. j), Yes, IF j = 0 THEN c ELSE Yes)
<1>4. ASSUME NEW j \in 1 .. n PROVE GpuSteps[<<after(j - 1), s[j]>>] = after(j)
  <2>a. PICK k \in Nat : k = j - 1 /\ j = k + 1
    OBVIOUS
  <2>1. 1 .. j \in SUBSET (1 .. n) /\ 1 .. k \in SUBSET (1 .. n)
    BY <2>a
  <2>2. Counts(time, 1 .. k + 1) /\ Counts(time, 1 .. k)
    BY <1>3, <2>a, <2>1, CountsOfPart
  <2>3. SumOver(time, 1 .. j) = SumOver(time, 1 .. k) + time[j] /\ SumOver(time, 1 .. k) \in Nat
    BY <2>a, <2>2, SumOfOneMore, SumIsNatural
  <2>b. PICK e, r : e = s[j] /\ r = IF k = 0 THEN c ELSE Yes
    OBVIOUS
  <2>4. e \in EventTypes /\ e.cat = "Kernel" /\ e.dur = time[j]
    <3>0. j \in Nat
      OBVIOUS
    <3>1. KernelTime(i, run, j) \in Nat
      BY <3>0, MeasuresAre
    <3> QED BY <1>2, <1>3, <2>b, <3>1, OtherIs
  <2>5. r \in Flags
    BY <2>b DEF Yes, Flags
  <2>6. GpuSteps[<<At(S, l, SumOver(time, 1 .. k), Yes, r), e>>]
          = At(S, l, SumOver(time, 1 .. k) + e.dur, Yes, Yes)
    <3>1. PICK q \in Nat : q = SumOver(time, 1 .. k)
      BY <2>3
    <3>2. e \in EventTypes /\ e.cat = "Kernel"
      BY <2>4
    <3>3. GpuSteps[<<At(S, l, q, Yes, r), e>>] = At(S, l, q + e.dur, Yes, Yes)
      <4> HIDE DEF after
      <4> QED BY <2>5, <3>2, KernelStep
    <3> QED BY <3>1, <3>3, Zenon
  <2>7. after(j) = At(S, l, SumOver(time, 1 .. j), Yes, Yes)
    <3>1. j # 0
      OBVIOUS
    <3> QED BY <3>1, Zenon
  <2>8. after(j - 1) = At(S, l, SumOver(time, 1 .. k), Yes, r)
    <3>1. j - 1 = k
      BY <2>a
    <3> QED BY <2>b, <3>1, Zenon
  <2> QED BY <2>b, <2>3, <2>4, <2>6, <2>7, <2>8
<1>i. PICK inv : inv = [j \in 0 .. n |-> {after(j)}]
  OBVIOUS
<1>5. ASSUME NEW j \in 1 .. n, NEW p \in inv[j - 1] PROVE GpuSteps[<<p, s[j]>>] \in inv[j]
  <2> HIDE DEF after
  <2>1. inv[j - 1] = {after(j - 1)} /\ inv[j] = {after(j)}
    BY <1>i
  <2> QED BY <1>4, <1>5, <2>1
<1>6. Leads(GpuSteps, inv[0], s, inv[n])
  <2> HIDE DEF after
  <2> QED BY <1>1, <1>5, ByEvents
<1>7. inv[0] = {At(S, l, 0, Yes, c)} /\ inv[n] = {At(S, l, SumOver(time, 1 .. n), Yes, Yes)}
  <2>1. 1 .. 0 = {} /\ 0 \in 0 .. n /\ n \in 0 .. n /\ n # 0
    OBVIOUS
  <2>2. SumOver(time, 1 .. 0) = 0
    BY <2>1, SumOfNone
  <2> QED BY <1>i, <2>1, <2>2
<1> QED BY <1>1, <1>6, <1>7

\* A layer with kernels is found once and for all.
LEMMA FoundIs ==
  ASSUME NEW kernels \in Kernels, NEW run \in Nat \ {0}
  PROVE  /\ \A i \in 0 .. 3 : Found(kernels, run, i) \in Flags
         /\ ~ Found(kernels, 1, 0)
         /\ \A i \in 1 .. 3 :
              IF kernels[Order[i]] = 0 THEN Found(kernels, run, i) <=> Found(kernels, run, i - 1)
              ELSE Found(kernels, run, i)
         /\ Found(kernels, run, 3) <=> Found(kernels, run + 1, 0)
         /\ Found(kernels, run, 3) <=> \E l \in MeasuredLayers : kernels[l] # 0
<1>1. \A i \in 0 .. 3 : Found(kernels, run, i) \in Flags
  BY DEF Found, Flags
<1>2. ~ Found(kernels, 1, 0)
  BY DEF Found
<1>3. ASSUME NEW i \in 1 .. 3
      PROVE  IF kernels[Order[i]] = 0 THEN Found(kernels, run, i) <=> Found(kernels, run, i - 1)
             ELSE Found(kernels, run, i)
  <2>1. CASE kernels[Order[i]] = 0
    <3>1. \A j \in 1 .. 3 : kernels[Order[j]] # 0 => (j <= i <=> j <= i - 1)
      BY <2>1
    <3> QED BY <2>1, <3>1 DEF Found
  <2>2. CASE kernels[Order[i]] # 0
    BY <2>2 DEF Found
  <2> QED BY <2>1, <2>2
<1>4. Found(kernels, run, 3) <=> Found(kernels, run + 1, 0)
  <2>1. run + 1 > 1 /\ \A j \in 1 .. 3 : j <= 3
    OBVIOUS
  <2> QED BY <2>1 DEF Found
<1>5. Found(kernels, run, 3) <=> \E l \in MeasuredLayers : kernels[l] # 0
  <2>1. \A j \in 1 .. 3 : Order[j] \in MeasuredLayers /\ j <= 3
    BY OrderIs
  <2>2. \A l \in MeasuredLayers : \E j \in 1 .. 3 : Order[j] = l
    BY OrderIs
  <2> QED BY <2>1, <2>2 DEF Found
<1> QED BY <1>1, <1>2, <1>3, <1>4, <1>5

\* A parser at the end of a layer, on the CPU or on a GPU.
LEMMA ParsedOnCpu ==
  ASSUME NEW T \in Measures, NEW kernels \in Kernels, NEW run \in Nat \ {0}, NEW i \in 0 .. 3,
         NEW S \in SampleTypes, S = SamplesAfter(T, run, i),
         NEW c \in Flags, c = Found(kernels, run, i), NEW l, l = NoLayer
  PROVE  At(S, l, 0, c, c) \in ParsedAfter(T, kernels, run, i)
<1> PICK n \in MeasuredLayers \cup {NoLayer} : n = l
  OBVIOUS
<1> PICK z \in Nat : z = 0
  OBVIOUS
<1> PICK p : p = At(S, l, 0, c, c)
  OBVIOUS
<1>1. p = At(S, n, z, c, c)
  OBVIOUS
<1>2. p \in ParsingTypes /\ append_current_sample(p) = S
      /\ p.found_cuda_node = c /\ p.found_kernel_event = c
  BY <1>1, AtIs
<1> QED BY <1>2 DEF ParsedAfter

LEMMA ParsedOnGpu ==
  ASSUME NEW T \in Measures, NEW kernels \in Kernels, NEW run \in Nat \ {0}, NEW i \in 0 .. 3,
         NEW S \in SampleTypes, NEW l \in MeasuredLayers, l # NoLayer, NEW k \in Nat,
         append_sample(S, l, k) = SamplesAfter(T, run, i), Found(kernels, run, i)
  PROVE  At(S, l, k, Yes, Yes) \in ParsedAfter(T, kernels, run, i)
<1> PICK c \in Flags : c = Yes
  BY DEF Yes, Flags
<1> PICK p : p = At(S, l, k, c, c)
  OBVIOUS
<1>1. p \in ParsingTypes /\ append_current_sample(p) = append_sample(S, l, k)
      /\ p.found_cuda_node = c /\ p.found_kernel_event = c
  BY AtIs
<1>2. c = Found(kernels, run, i)
  BY DEF Yes
<1>3. p \in ParsedAfter(T, kernels, run, i)
  BY <1>1, <1>2 DEF ParsedAfter
<1> QED BY <1>3

LEMMA ParsedIs ==
  ASSUME NEW T, NEW kernels \in Kernels, NEW run \in Nat, NEW i \in Nat,
         NEW p \in ParsedAfter(T, kernels, run, i), NEW c, c = Found(kernels, run, i)
  PROVE  /\ p \in ParsingTypes /\ append_current_sample(p) = SamplesAfter(T, run, i)
         /\ p.found_cuda_node = c /\ p.found_kernel_event = c
BY DEF ParsedAfter

\* A layer of a run, as the durations on a GPU are collected.
LEMMA GpuLayer ==
  ASSUME NEW kernels \in Kernels, NEW T, T = TimesOf("gpu", kernels),
         NEW run \in Nat \ {0}, NEW i \in 1 .. 3
  PROVE  Leads(GpuSteps, ParsedAfter(T, kernels, run, i - 1), LayerBlock("gpu", kernels, i, run),
               ParsedAfter(T, kernels, run, i))
<1>0. T \in Measures /\ run \in Nat /\ i \in 0 .. 3 /\ i - 1 \in Nat /\ i - 1 \in 0 .. 3
  BY MeasuresAreTyped
<1> PICK A, B : /\ A = ParsedAfter(T, kernels, run, i - 1)
                /\ B = ParsedAfter(T, kernels, run, i)
  OBVIOUS
<1> PICK S \in SampleTypes : S = SamplesAfter(T, run, i - 1)
  BY <1>0, SamplesAreTyped
<1> PICK c \in Flags : c = Found(kernels, run, i - 1)
  BY <1>0, FoundIs
<1> PICK l \in MeasuredLayers : l = Order[i] /\ l # NoLayer
  BY OrderIs
<1> PICK k \in Nat : k = kernels[l]
  BY DEF Kernels
<1>1. append_sample(S, l, T[i][run]) = SamplesAfter(T, run, i)
  BY <1>0, SampleOfLayer
<1> PICK b \in {"cpu", "gpu"} : b = "gpu"
  OBVIOUS
<1>2. /\ T[i][run] \in Nat
      /\ k = 0 => T[i][run] = Duration(i, run)
      /\ k # 0 => T[i][run] = SumOver(KernelTimes(i, run, k), 1 .. k)
  BY <1>0, TimeIs
<1> PICK x \in Nat : x = T[i][run]
  BY <1>2
<1> PICK e : e = Node(NoLayer, Primary(b), 0, NoMemory)
  OBVIOUS
<1>3. /\ e \in EventTypes /\ e.cat = "Node"
      /\ \A provider : node_layer_key_for_provider(e, provider) = NoLayer
  BY OpeningIs
<1> PICK M : M = {At(S, NoLayer, 0, c, c)}
  OBVIOUS
<1>4. Leads(GpuSteps, A, <<e>>, M)
  <2>1. ASSUME NEW p \in A PROVE GpuSteps[<<p, e>>] \in M
    <3>1. /\ p \in ParsingTypes /\ append_current_sample(p) = S
          /\ p.found_cuda_node = c /\ p.found_kernel_event = c
      BY <1>0, <2>1, ParsedIs
    <3>2. GpuSteps[<<p, e>>] = At(append_current_sample(p), NoLayer, 0, c, c)
      BY <1>3, <3>1, OpeningStep
    <3> QED BY <3>1, <3>2
  <2> QED BY <2>1, OneEvent
<1>5. LayerBlock("gpu", kernels, i, run) = <<e>> \o LayerEvents("gpu", kernels, i, run)
  BY Zenon DEF LayerBlock
<1>6. LayerEvents("gpu", kernels, i, run) \in Seq(EventTypes)
  BY <1>0, BlocksAreTyped
<1>7. Leads(GpuSteps, M, LayerEvents("gpu", kernels, i, run), B)
  <2> PICK on_gpu : on_gpu = (b = "gpu" /\ k # 0)
    OBVIOUS
  <2>1. CASE k = 0
    <3> PICK f : f = Node(Order[i], "CPUExecutionProvider", Duration(i, run), Memory(i, run))
      OBVIOUS
    <3>1. LayerEvents("gpu", kernels, i, run) = <<f>>
      <4>1. ~ on_gpu
        BY <2>1
      <4>2. LayerEvents(b, kernels, i, run) = <<f>>
        BY <1>0, <4>1, LayerEventsAre
      <4> QED BY <4>2
    <3>2. Duration(i, run) \in Nat /\ Memory(i, run) \in Nat
      BY <1>0, MeasuresAre
    <3>3. f \in EventTypes /\ f.cat = "Node" /\ f.layer = l /\ f.dur = x
          /\ f.provider = "CPUExecutionProvider"
      BY <1>2, <2>1, <3>2, NodeIs
    <3>4. GpuSteps[<<At(S, NoLayer, 0, c, c), f>>] = At(append_sample(S, l, x), NoLayer, 0, c, c)
      BY <3>3, NodeSteps
    <3> PICK R \in SampleTypes : R = append_sample(S, l, x)
      BY SampleIsAppended
    <3>5. At(R, NoLayer, 0, c, c) \in B
      <4>1. c = Found(kernels, run, i)
        BY <2>1, FoundIs DEF Found
      <4>2. R = SamplesAfter(T, run, i)
        BY <1>1
      <4> QED BY <1>0, <4>1, <4>2, ParsedOnCpu
    <3>6. GpuSteps[<<At(S, NoLayer, 0, c, c), f>>] \in B
      BY <3>4, <3>5, Zenon
    <3>7. \A p \in M : GpuSteps[<<p, f>>] \in B
      BY <3>6
    <3> QED BY <3>1, <3>7, OneEvent
  <2>2. CASE k # 0
    <3> PICK f, s : /\ f = Node(Order[i], "CUDAExecutionProvider", 1, Memory(i, run))
                    /\ s = KernelEvents(i, run, k)
      OBVIOUS
    <3>1. LayerEvents("gpu", kernels, i, run) = <<f>> \o s
      BY <1>0, <2>2, LayerEventsAre
    <3>2. Memory(i, run) \in Nat
      BY <1>0, MeasuresAre
    <3>3. f \in EventTypes /\ f.cat = "Node" /\ f.layer = l /\ f.provider = "CUDAExecutionProvider"
      BY <3>2, NodeIs
    <3> PICK D : D = {At(S, l, 0, Yes, c)}
      OBVIOUS
    <3>4. GpuSteps[<<At(S, NoLayer, 0, c, c), f>>] = At(S, l, 0, Yes, c)
      BY <3>3, NodeSteps
    <3>5. Leads(GpuSteps, M, <<f>>, D)
      <4>1. \A p \in M : GpuSteps[<<p, f>>] \in D
        BY <3>4
      <4> QED BY <4>1, OneEvent
    <3> PICK time : time = KernelTimes(i, run, k)
      OBVIOUS
    <3>6. x = SumOver(time, 1 .. k)
      BY <1>2, <2>2
    <3>7. s \in Seq(EventTypes)
          /\ Leads(GpuSteps, D, s, {At(S, l, SumOver(time, 1 .. k), Yes, Yes)})
      BY <1>0, <2>2, KernelsAreSummed
    <3>8. At(S, l, x, Yes, Yes) \in B
      <4>1. Found(kernels, run, i)
        BY <2>2, FoundIs
      <4>2. append_sample(S, l, x) = SamplesAfter(T, run, i)
        BY <1>1
      <4> QED BY <1>0, <4>1, <4>2, ParsedOnGpu
    <3>9. Leads(GpuSteps, D, s, B)
      BY <3>6, <3>7, <3>8 DEF Leads
    <3>10. <<f>> \in Seq(EventTypes)
      BY <3>3
    <3>11. Leads(GpuSteps, M, <<f>> \o s, B)
      BY <3>5, <3>7, <3>9, <3>10, InTurn
    <3> QED BY <3>1, <3>11, Zenon
  <2> QED BY <2>1, <2>2
<1>8. Leads(GpuSteps, A, <<e>> \o LayerEvents("gpu", kernels, i, run), B)
  <2> PICK s \in Seq(EventTypes) : s = LayerEvents("gpu", kernels, i, run)
    BY <1>6
  <2>1. <<e>> \in Seq(EventTypes)
    BY <1>3
  <2>2. Leads(GpuSteps, A, <<e>> \o s, B)
    BY <1>4, <1>7, <2>1, InTurn
  <2> QED BY <2>2, Zenon
<1> QED BY <1>5, <1>8, Zenon

\* A session, as the durations on a GPU are collected.
LEMMA GpuSession ==
  ASSUME NEW kernels \in Kernels, NEW T, T = TimesOf("gpu", kernels)
  PROVE  SessionStep(GpuSteps, ParsedAt(T, kernels), "gpu", kernels)
<1> PICK inv : inv = ParsedAt(T, kernels)
  OBVIOUS
<1>0. T \in Measures
  BY MeasuresAreTyped
<1>1. \A run, i \in Nat : inv[<<run, i>>] = ParsedAfter(T, kernels, run, i)
  BY DEF ParsedAt
<1>2. ASSUME NEW run \in 1 .. expected_samples, NEW i \in 1 .. 3
      PROVE  Leads(GpuSteps, inv[<<run, i - 1>>], LayerBlock("gpu", kernels, i, run), inv[<<run, i>>])
  <2>1. run \in Nat \ {0} /\ i \in Nat /\ i - 1 \in Nat
    BY RunsAre
  <2>2. /\ inv[<<run, i - 1>>] = ParsedAfter(T, kernels, run, i - 1)
        /\ inv[<<run, i>>] = ParsedAfter(T, kernels, run, i)
    BY <1>1, <2>1
  <2> QED BY <2>1, <2>2, GpuLayer
<1>3. ASSUME NEW run \in 1 .. expected_samples
      PROVE  Leads(GpuSteps, inv[<<run, 3>>], <<Other("Session", 100)>>, inv[<<run + 1, 0>>])
  <2>1. run \in Nat \ {0} /\ run \in Nat /\ run + 1 \in Nat /\ 3 \in Nat /\ 0 \in Nat
    BY RunsAre
  <2> PICK e, A, B : /\ e = Other("Session", 100)
                     /\ A = ParsedAfter(T, kernels, run, 3)
                     /\ B = ParsedAfter(T, kernels, run + 1, 0)
    OBVIOUS
  <2>2. inv[<<run, 3>>] = A /\ inv[<<run + 1, 0>>] = B
    BY <1>1, <2>1
  <2>3. A = B
    <3>1. SamplesAfter(T, run, 3) = SamplesAfter(T, run + 1, 0)
      BY <1>0, <2>1, SamplesOfRun
    <3>2. Found(kernels, run, 3) = Found(kernels, run + 1, 0)
      BY <2>1, FoundIs DEF Found
    <3> QED BY <3>1, <3>2 DEF ParsedAfter
  <2>4. e \in EventTypes /\ e.cat = "Session"
    BY OtherIs
  <2>5. ASSUME NEW p \in A PROVE GpuSteps[<<p, e>>] \in B
    <3>1. p \in ParsingTypes
      BY <2>5 DEF ParsedAfter
    <3>2. GpuSteps[<<p, e>>] = gpu_step(p, e)
      BY <2>4, <3>1 DEF GpuSteps
    <3>3. gpu_step(p, e) = p
      BY <2>4 DEF gpu_step
    <3> QED BY <2>3, <2>5, <3>2, <3>3
  <2> QED BY <2>2, <2>5, OneEvent
<1> QED BY <1>2, <1>3 DEF SessionStep

-----------------------------------------------------------------------------
(* The profile of a session.                                               *)

\* A session has one sample per layer and run.
LEMMA SamplesOfSession ==
  ASSUME NEW T \in Measures, NEW D, D = SamplesAfter(T, expected_samples + 1, 0)
  PROVE  /\ DOMAIN D = MeasuredLayers /\ D \in [MeasuredLayers -> Seq(Nat)]
         /\ \A l \in MeasuredLayers :
              /\ D[l] \in Seq(Nat) /\ Len(D[l]) = expected_samples
              /\ \A run \in 1 .. expected_samples : D[l][run] = T[Place(l)][run]
<1> PICK N \in Nat \ {0} : N = expected_samples
  BY RunsAre
<1>1. Reached(N + 1, 0) = MeasuredLayers
  BY DEF Reached
<1>2. D = [l \in MeasuredLayers |-> [k \in 1 .. RunsOf(l, N + 1, 0) |-> T[Place(l)][k]]]
  BY <1>1, Zenon DEF SamplesAfter
<1>3. ASSUME NEW l \in MeasuredLayers
      PROVE  /\ D[l] = [k \in 1 .. N |-> T[Place(l)][k]]
             /\ D[l] \in Seq(Nat) /\ Len(D[l]) = N
             /\ \A run \in 1 .. N : D[l][run] = T[Place(l)][run]
  <2>1. Place(l) \in 1 .. 3
    BY OrderIs
  <2>2. RunsOf(l, N + 1, 0) = N
    BY <2>1 DEF RunsOf
  <2> PICK f : f = T[Place(l)]
    OBVIOUS
  <2>3. f \in [Nat -> Nat]
    BY <2>1, OrderIs DEF Measures
  <2>4. D[l] = [k \in 1 .. N |-> f[k]]
    BY <1>2, <2>2
  <2> PICK s : s = D[l]
    OBVIOUS
  <2>5. s \in [1 .. N -> Nat]
    <3>1. s = [k \in 1 .. N |-> f[k]]
      BY <2>4
    <3>2. \A k \in 1 .. N : f[k] \in Nat
      BY <2>3
    <3> QED BY <3>1, <3>2
  <2>6. s \in Seq(Nat) /\ Len(s) = N
    BY <2>5, ListIs
  <2>7. \A run \in 1 .. N : s[run] = f[run]
    BY <2>4
  <2> QED BY <2>4, <2>6, <2>7
<1>4. DOMAIN D = MeasuredLayers
  BY <1>2
<1>5. D \in [MeasuredLayers -> Seq(Nat)]
  <2>1. D = [l \in MeasuredLayers |-> D[l]]
    BY <1>2
  <2> QED BY <1>3, <2>1
<1> QED BY <1>3, <1>4, <1>5

\* The samples of the runs that count.
LEMMA MeasuredIs ==
  ASSUME NEW s \in Seq(Nat), Len(s) = expected_samples, NEW t, t = measured(s)
  PROVE  /\ t \in Seq(Nat) /\ Len(t) = PROFILE_ITERATIONS
         /\ \A k \in 1 .. PROFILE_ITERATIONS : t[k] = s[WARMUP_ITERATIONS + k]
         /\ Range(t) = {s[run] : run \in MeasuredRuns}
<1> PICK W \in Nat : W = WARMUP_ITERATIONS
  BY RunsAre
<1> PICK P \in Nat \ {0} : P = PROFILE_ITERATIONS
  BY RunsAre
<1>1. expected_samples = W + P
  BY RunsAre
<1>2. t = SubSeq(s, W + 1, W + P)
  BY <1>1 DEF measured
<1>3. t = [k \in 1 .. P |-> s[W + k]]
  <2>1. W + P - (W + 1) + 1 = P
    OBVIOUS
  <2>2. \A k \in 1 .. P : t[k] = s[W + k]
    BY <1>1, <1>2
  <2>3. t \in Seq(Nat) /\ Len(t) = P
    BY <1>1, <1>2
  <2>4. DOMAIN t = 1 .. P /\ t = [k \in DOMAIN t |-> t[k]]
    BY <2>3
  <2> QED BY <2>2, <2>4
<1>4. \A k \in 1 .. P : s[W + k] \in Nat
  BY <1>1
<1>5. t \in [1 .. P -> Nat]
  BY <1>3, <1>4
<1>6. t \in Seq(Nat) /\ Len(t) = P
  BY <1>5, ListIs
<1>7. \A k \in 1 .. P : t[k] = s[W + k]
  BY <1>3
<1>8. Range(t) = {s[run] : run \in MeasuredRuns}
  <2>1. MeasuredRuns = W + 1 .. W + P
    BY <1>1 DEF MeasuredRuns
  <2>2. DOMAIN t = 1 .. P
    BY <1>3
  <2>3. ASSUME NEW run \in W + 1 .. W + P PROVE \E k \in 1 .. P : s[run] = t[k]
    <3> PICK k : k = run - W
      OBVIOUS
    <3>1. k \in 1 .. P /\ W + k = run
      OBVIOUS
    <3> QED BY <1>7, <3>1
  <2>4. ASSUME NEW k \in 1 .. P PROVE \E run \in W + 1 .. W + P : s[run] = t[k]
    <3>1. W + k \in W + 1 .. W + P
      OBVIOUS
    <3> QED BY <1>7, <3>1
  <2>5. \A x : x \in Range(t) <=> \E k \in 1 .. P : x = t[k]
    BY <2>2 DEF Range
  <2>6. \A x : x \in {s[run] : run \in MeasuredRuns} <=> \E run \in W + 1 .. W + P : x = s[run]
    BY <2>1
  <2>7. \A x : x \in Range(t) <=> x \in {s[run] : run \in MeasuredRuns}
    <3> SUFFICES ASSUME NEW x PROVE x \in Range(t) <=> \E run \in W + 1 .. W + P : x = s[run]
      BY <2>6
    <3>1. ASSUME x \in Range(t) PROVE \E run \in W + 1 .. W + P : x = s[run]
      BY <2>4, <2>5, <3>1
    <3>2. ASSUME NEW run \in W + 1 .. W + P, x = s[run] PROVE x \in Range(t)
      BY <2>3, <2>5, <3>2
    <3> QED BY <3>1, <3>2
  <2> QED BY <2>7
<1> QED BY <1>6, <1>7, <1>8

LEMMA OneTakenOut ==
  ASSUME NEW S, NEW h, Counts(h, S), NEW x \in S, NEW R, R = S \ {x}
  PROVE  SumOver(h, S) = h[x] + SumOver(h, R)
BY SumTakesOut

TotalTime(times) == FoldLeft(+, 0, times)

RunsAfter(m, n) == m + 1 .. m + n
Follow(h, m, n, t) == \A k \in 1 .. n : h[m + k] = t[k]

\* The total of a list of times is the sum over its runs.
LEMMA SumOfTimes ==
  ASSUME NEW t \in Seq(Nat), NEW n \in Nat, Len(t) = n, NEW m \in Nat,
         NEW h, Follow(h, m, n, t)
  PROVE  TotalTime(t) = SumOver(h, RunsAfter(m, n)) /\ TotalTime(t) \in Nat
<1>a. \A k \in 1 .. n : h[m + k] = t[k]
  BY DEF Follow
<1> DEFINE upto(k) == SumOver(h, m + 1 .. m + k)
<1>1. \A k \in 1 .. n : t[k] \in Nat
  OBVIOUS
<1>2. Counts(h, m + 1 .. m + n)
  <2>1. IsFiniteSet(m + 1 .. m + n)
    BY FS_Interval
  <2>2. ASSUME NEW x \in m + 1 .. m + n PROVE h[x] \in Nat
    <3> PICK k : k = x - m
      OBVIOUS
    <3>1. k \in 1 .. n /\ m + k = x
      OBVIOUS
    <3> QED BY <1>1, <1>a, <3>1
  <2> QED BY <2>1, <2>2 DEF Counts
<1>3. \A k \in 0 .. n : Counts(h, m + 1 .. m + k) /\ upto(k) \in Nat
  <2> SUFFICES ASSUME NEW k \in 0 .. n PROVE Counts(h, m + 1 .. m + k) /\ upto(k) \in Nat
    OBVIOUS
  <2>1. (m + 1 .. m + k) \in SUBSET (m + 1 .. m + n)
    OBVIOUS
  <2>2. Counts(h, m + 1 .. m + k)
    BY <1>2, <2>1, CountsOfPart
  <2> QED BY <2>2, SumIsNatural
<1>4. ASSUME NEW k \in 1 .. n PROVE upto(k) = upto(k - 1) + t[k]
  <2>0. PICK S, x, R : S = m + 1 .. m + k /\ x = m + k /\ R = m + 1 .. m + (k - 1)
    OBVIOUS
  <2>1. x \in S /\ R = S \ {x}
    <3> PICK q \in Nat : q = k - 1 /\ k = q + 1
      OBVIOUS
    <3>0. S = m + 1 .. m + (q + 1) /\ x = m + (q + 1)
      BY <2>0
    <3>1. x \in S /\ S \ {x} = m + 1 .. m + q
      BY <3>0
    <3> QED BY <2>0, <3>1
  <2>2. k \in 0 .. n /\ k - 1 \in 0 .. n
    OBVIOUS
  <2>3. SumOver(h, S) = h[x] + SumOver(h, R)
    <3>1. Counts(h, S)
      BY <1>3, <2>0, <2>2
    <3> QED BY <2>1, <3>1, OneTakenOut
  <2>4. h[x] = t[k] /\ t[k] \in Nat
    BY <1>1, <1>a, <2>0
  <2>5. SumOver(h, R) = upto(k - 1) /\ SumOver(h, S) = upto(k) /\ upto(k - 1) \in Nat
    BY <1>3, <2>0, <2>2
  <2> HIDE DEF upto
  <2> QED BY <2>3, <2>4, <2>5
<1> PICK inv : inv = [k \in 0 .. n |-> {upto(k)}]
  OBVIOUS
<1> HIDE DEF upto
<1>5. ASSUME NEW k \in 1 .. n, NEW p \in inv[k - 1] PROVE SumSteps[<<p, t[k]>>] \in inv[k]
  <2>1. inv[k - 1] = {upto(k - 1)} /\ inv[k] = {upto(k)}
    OBVIOUS
  <2>2. p = upto(k - 1) /\ p \in Nat
    BY <1>3, <1>5, <2>1
  <2>3. SumSteps[<<p, t[k]>>] = p + t[k]
    BY <1>1, <2>2 DEF SumSteps
  <2> QED BY <1>4, <2>1, <2>2, <2>3
<1>6. Leads(SumSteps, inv[0], t, inv[n])
  BY <1>5, ByEvents
<1>7. upto(0) = 0
  <2>1. m + 1 .. m + 0 = {}
    OBVIOUS
  <2> QED BY <2>1, SumOfNone DEF upto
<1>8. inv[0] = {0} /\ inv[n] = {upto(n)}
  BY <1>7
<1>9. FoldLeft(+, 0, t) \in inv[n]
  BY <1>6, <1>8, SumLeads
<1>10. upto(n) \in Nat
  BY <1>3
<1>11. TotalTime(t) \in inv[n]
  BY <1>9, Zenon DEF TotalTime
<1> QED BY <1>8, <1>10, <1>11 DEF upto, RunsAfter

MemoriesOf(i) == {Memory(i, run) : run \in MeasuredRuns}

LEMMA MemoriesAre ==
  ASSUME NEW i \in 1 .. 3, NEW S, S = MemoriesOf(i)
  PROVE  /\ S \subseteq Nat /\ S # {} /\ Max(S) \in Nat
<1> PICK W \in Nat : W = WARMUP_ITERATIONS
  BY RunsAre
<1> PICK P \in Nat \ {0} : P = PROFILE_ITERATIONS
  BY RunsAre
<1>1. MeasuredRuns = W + 1 .. W + P
  BY RunsAre DEF MeasuredRuns
<1>3. \A x \in S : x <= 10 * i + 1
  <2> SUFFICES ASSUME NEW run \in MeasuredRuns PROVE Memory(i, run) <= 10 * i + 1
    BY DEF MemoriesOf
  <2>1. run \in Nat
    BY <1>1
  <2>2. run % 2 <= 1
    BY <2>1
  <2> PICK r \in Nat : r = run % 2
    BY <2>1
  <2>3. r <= 1 /\ Memory(i, run) = 10 * i + r
    BY <2>2 DEF Memory
  <2> QED BY <2>3
<1>4. S \subseteq Nat
  <2> SUFFICES ASSUME NEW run \in MeasuredRuns PROVE Memory(i, run) \in Nat
    BY DEF MemoriesOf
  <2>1. run \in Nat
    BY <1>1
  <2> PICK z \in Nat : z = 0
    OBVIOUS
  <2> QED BY <2>1, MeasuresAre
<1>5. S # {}
  <2>1. W + 1 \in MeasuredRuns
    BY <1>1
  <2>2. Memory(i, W + 1) \in S
    BY <2>1 DEF MemoriesOf
  <2> QED BY <2>2
<1>6. Max(S) \in S
  <2> PICK n \in Nat : n = 10 * i + 1
    OBVIOUS
  <2>1. \A x \in S : x <= n
    BY <1>3
  <2> QED BY <1>4, <1>5, <2>1, MaxIsGreatest
<1> QED BY <1>4, <1>5, <1>6

\* The profile of a layer.
ProfileOf(total, most) ==
  [execution_time |-> <<total, PROFILE_ITERATIONS>>, memory |-> most]
ProfileTypes == [execution_time : Nat \X Nat, memory : Nat]

AreMemories(memories, i) ==
  \A run \in 1 .. expected_samples : memories[run] = Memory(i, run)
AreTimes(time, times) == \A run \in MeasuredRuns : time[run] = times[run]

\* The mean and the maximum of one layer.
LEMMA LayerIsProfiled ==
  ASSUME NEW i \in 1 .. 3, NEW times \in Seq(Nat), Len(times) = expected_samples,
         NEW memories \in Seq(Nat), Len(memories) = expected_samples,
         AreMemories(memories, i), NEW time, AreTimes(time, times)
  PROVE  /\ layer_profile(times, memories) =
              ProfileOf(SumOver(time, MeasuredRuns), Max(MemoriesOf(i)))
         /\ layer_profile(times, memories) \in ProfileTypes
<1> PICK W \in Nat : W = WARMUP_ITERATIONS
  BY RunsAre
<1> PICK P \in Nat \ {0} : P = PROFILE_ITERATIONS
  BY RunsAre
<1>1. expected_samples = W + P /\ MeasuredRuns = W + 1 .. W + P
  BY RunsAre DEF MeasuredRuns
<1> PICK t, s, S : t = measured(times) /\ s = measured(memories) /\ S = MemoriesOf(i)
  OBVIOUS
<1>2. t \in Seq(Nat) /\ Len(t) = P /\ \A k \in 1 .. P : t[k] = times[W + k]
  BY MeasuredIs
<1>3. Range(s) = {memories[run] : run \in MeasuredRuns}
  BY MeasuredIs
<1>4. Range(s) = S
  <2>1. \A run \in MeasuredRuns : memories[run] = Memory(i, run)
    BY <1>1 DEF AreMemories
  <2> QED BY <1>3, <2>1 DEF MemoriesOf
<1>5. S \subseteq Nat /\ S # {} /\ Max(S) \in Nat
  BY MemoriesAre
<1>6. Range(s) \ {NoMemory} = S /\ NoMemory \notin Range(s)
  BY <1>4, <1>5, MarksAssumption
<1>7. TotalTime(t) = SumOver(time, MeasuredRuns) /\ TotalTime(t) \in Nat
  <2>1. \A k \in 1 .. P : time[W + k] = t[k]
    <3> SUFFICES ASSUME NEW k \in 1 .. P PROVE time[W + k] = t[k]
      OBVIOUS
    <3>1. W + k \in MeasuredRuns
      BY <1>1
    <3> QED BY <1>2, <3>1 DEF AreTimes
  <2>2. t \in Seq(Nat) /\ Len(t) = P
    BY <1>2
  <2>3. MeasuredRuns = RunsAfter(W, P) /\ Follow(time, W, P, t)
    BY <1>1, <2>1 DEF RunsAfter, Follow
  <2> HIDE <2>1
  <2> QED BY <2>2, <2>3, SumOfTimes
<1>8. layer_profile(times, memories) = ProfileOf(TotalTime(t), Max(S))
  <2> PICK known : known = Range(s) \ {NoMemory}
    OBVIOUS
  <2>1. known = S /\ known # {}
    BY <1>5, <1>6
  <2>2. ~ (\/ Len(times) # expected_samples \/ Len(memories) # expected_samples
           \/ known # {} /\ NoMemory \in Range(s))
    BY <1>6
  <2>3. Len(t) = PROFILE_ITERATIONS
    BY <1>2
  <2>4. layer_profile(times, memories) =
          [execution_time |-> <<TotalTime(t), Len(t)>>, memory |-> Max(known)]
    BY <2>1, <2>2, Zenon DEF layer_profile, TotalTime
  <2> QED BY <2>1, <2>3, <2>4, Zenon DEF ProfileOf
<1> PICK total \in Nat : total = SumOver(time, MeasuredRuns)
  BY <1>7
<1> PICK most \in Nat : most = Max(S)
  BY <1>5
<1>9. ProfileOf(total, most) \in ProfileTypes
  BY RunsAre DEF ProfileOf, ProfileTypes
<1>10. layer_profile(times, memories) = ProfileOf(total, most)
  BY <1>7, <1>8
<1> QED BY <1>9, <1>10

\* What they should be.
LEMMA ExpectedIs ==
  ASSUME NEW backend, NEW kernels, NEW l \in MeasuredLayers,
         NEW i, i = Place(l),
         NEW time, time = [run \in MeasuredRuns |-> TimeOf(backend, kernels, i, run)]
  PROVE  ExpectedProfile(backend, kernels)[l] =
           ProfileOf(SumOver(time, MeasuredRuns), Max(MemoriesOf(i)))
<1> DEFINE times == [run \in MeasuredRuns |-> TimeOf(backend, kernels, Place(l), run)]
           memories == {Memory(Place(l), run) : run \in MeasuredRuns}
<1>1. ExpectedProfile(backend, kernels)[l] =
        [execution_time |-> <<MapThenSumSet(LAMBDA run : times[run], MeasuredRuns),
                              PROFILE_ITERATIONS>>,
         memory |-> Max(memories)]
  BY Zenon DEF ExpectedProfile, MeasuredLayers
<1>2. times = time /\ memories = MemoriesOf(i)
  BY DEF MemoriesOf
<1> HIDE DEF times, memories
<1>3. MapThenSumSet(LAMBDA run : times[run], MeasuredRuns) = SumOver(times, MeasuredRuns)
  BY Zenon DEF MapThenSumSet, MapThenFoldSet, SumOver, IsSumming, Summed
<1> QED BY <1>1, <1>2, <1>3, Zenon DEF ProfileOf

\* What a parse makes of the samples of a session.
LEMMA ProfileIs ==
  ASSUME NEW backend \in {"cpu", "gpu"}, NEW kernels \in Kernels, NEW events,
         durations_by_layer(backend, events) =
           SamplesAfter(TimesOf(backend, kernels), expected_samples + 1, 0),
         memory_bytes_by_layer(backend, events) = SamplesAfter(MemoryOf, expected_samples + 1, 0)
  PROVE  parse_profile_events(backend, events) = ExpectedProfile(backend, kernels)
<1> PICK T, D, M : /\ T = TimesOf(backend, kernels)
                   /\ D = SamplesAfter(T, expected_samples + 1, 0)
                   /\ M = SamplesAfter(MemoryOf, expected_samples + 1, 0)
  OBVIOUS
<1>1. T \in Measures /\ MemoryOf \in Measures
  BY MeasuresAreTyped
<1>2. /\ DOMAIN D = MeasuredLayers /\ D \in [MeasuredLayers -> Seq(Nat)]
      /\ \A l \in MeasuredLayers :
           /\ D[l] \in Seq(Nat) /\ Len(D[l]) = expected_samples
           /\ \A run \in 1 .. expected_samples : D[l][run] = T[Place(l)][run]
  BY <1>1, SamplesOfSession
<1>3. /\ DOMAIN M = MeasuredLayers
      /\ \A l \in MeasuredLayers :
           /\ M[l] \in Seq(Nat) /\ Len(M[l]) = expected_samples
           /\ \A run \in 1 .. expected_samples : M[l][run] = MemoryOf[Place(l)][run]
  BY <1>1, SamplesOfSession
<1> PICK profile : profile = [l \in DOMAIN D |-> layer_profile(D[l], samples_of(M, l))]
  OBVIOUS
<1> PICK expected : expected = ExpectedProfile(backend, kernels)
  OBVIOUS
<1>4. ASSUME NEW l \in MeasuredLayers
      PROVE  profile[l] = expected[l] /\ profile[l] \in ProfileTypes
  <2> PICK i \in 1 .. 3 : i = Place(l)
    BY OrderIs
  <2> PICK times \in Seq(Nat) : times = D[l]
    BY <1>2
  <2> PICK memories \in Seq(Nat) : memories = M[l]
    BY <1>3
  <2> PICK time : time = [run \in MeasuredRuns |-> TimeOf(backend, kernels, i, run)]
    OBVIOUS
  <2>1. Len(times) = expected_samples /\ Len(memories) = expected_samples
    BY <1>2, <1>3
  <2>2. \A run \in 1 .. expected_samples : run \in Nat
    BY RunsAre
  <2>3. \A run \in 1 .. expected_samples : memories[run] = Memory(i, run)
    BY <1>3, <2>2, MeasuresAreTyped
  <2>4. \A run \in MeasuredRuns : run \in 1 .. expected_samples
    BY RunsAre DEF MeasuredRuns
  <2>5. \A run \in MeasuredRuns : time[run] = times[run]
    <3> SUFFICES ASSUME NEW run \in MeasuredRuns PROVE time[run] = times[run]
      OBVIOUS
    <3>1. times[run] = T[i][run]
      BY <1>2, <2>4
    <3>2. T[i][run] = TimeOf(backend, kernels, i, run)
      BY <2>2, <2>4, TimeIs
    <3> QED BY <3>1, <3>2
  <2>6. /\ layer_profile(times, memories) =
              ProfileOf(SumOver(time, MeasuredRuns), Max(MemoriesOf(i)))
        /\ layer_profile(times, memories) \in ProfileTypes
    <3>1. AreMemories(memories, i) /\ AreTimes(time, times)
      BY <2>3, <2>5 DEF AreMemories, AreTimes
    <3> QED BY <2>1, <3>1, LayerIsProfiled
  <2>7. expected[l] = ProfileOf(SumOver(time, MeasuredRuns), Max(MemoriesOf(i)))
    BY ExpectedIs
  <2>9. profile[l] = layer_profile(times, memories)
    <3>1. samples_of(M, l) = memories
      BY <1>3 DEF samples_of
    <3> QED BY <1>2, <3>1
  <2>10. expected[l] = layer_profile(times, memories)
    BY <2>6, <2>7, Zenon
  <2> QED BY <2>6, <2>9, <2>10
<1>5. profile = expected
  <2>1. expected = [l \in MeasuredLayers |-> expected[l]]
    BY Zenon DEF ExpectedProfile, MeasuredLayers
  <2>2. profile = [l \in MeasuredLayers |-> profile[l]]
    BY <1>2
  <2> QED BY <1>4, <2>1, <2>2
<1>6. D # Invalid /\ Invalid \notin Range(profile)
  <2>1. D # Invalid
    BY <1>2, MarksAssumption DEF MeasuredLayers
  <2>2. DOMAIN profile = MeasuredLayers
    BY <1>2
  <2>3. Invalid \notin Range(profile)
    BY <1>4, <2>2, MarksAssumption DEF Range, ProfileTypes
  <2> QED BY <2>1, <2>3
<1>7. parse_profile_events(backend, events) = profile
  <2> PICK durations, memory : /\ durations = durations_by_layer(backend, events)
                               /\ memory = memory_bytes_by_layer(backend, events)
    OBVIOUS
  <2>1. durations = D /\ memory = M
    OBVIOUS
  <2>2. parse_profile_events(backend, events) =
          IF durations = Invalid THEN Invalid
          ELSE LET p == [l \in DOMAIN durations |-> layer_profile(durations[l], samples_of(memory, l))]
               IN IF Invalid \in Range(p) THEN Invalid ELSE p
    BY Zenon DEF parse_profile_events
  <2> QED BY <1>6, <2>1, <2>2
<1> QED BY <1>5, <1>7

LEMMA SamplesStart ==
  ASSUME NEW T \in Measures, NEW inv, inv = SamplesAt(T), NEW n \in Nat
  PROVE  <<>> \in inv[<<1, 0>>] /\ inv[<<n + 1, 0>>] = {SamplesAfter(T, n + 1, 0)}
<1>1. inv[<<1, 0>>] = {SamplesAfter(T, 1, 0)} /\ inv[<<n + 1, 0>>] = {SamplesAfter(T, n + 1, 0)}
  BY DEF SamplesAt
<1> QED BY <1>1, SamplesOfNone

\* Any session is parsed to the profile of its layers, but one on a GPU that no layer used.
LEMMA SessionIsParsed ==
  ASSUME NEW backend \in {"cpu", "gpu"}, NEW kernels \in Kernels, NEW found,
         found = (backend = "cpu" \/ \E l \in MeasuredLayers : kernels[l] # 0)
  PROVE  parse_profile_events(backend, SessionEvents(backend, kernels)) =
           IF found THEN ExpectedProfile(backend, kernels) ELSE Invalid
<1> PICK events : events = SessionEvents(backend, kernels)
  OBVIOUS
<1> PICK N \in Nat \ {0} : N = expected_samples
  BY RunsAre
<1> PICK T : T = TimesOf(backend, kernels)
  OBVIOUS
<1>1. T \in Measures /\ MemoryOf \in Measures
  BY MeasuresAreTyped
<1>2. events \in Seq(EventTypes)
      /\ memory_bytes_by_layer(backend, events) = SamplesAfter(MemoryOf, N + 1, 0)
  <2> PICK inv, step : inv = SamplesAt(MemoryOf) /\ step = MemorySteps(backend)
    OBVIOUS
  <2>1. SessionStep(step, inv, backend, kernels)
    BY MemorySession
  <2>2. events \in Seq(EventTypes) /\ Leads(step, inv[<<1, 0>>], events, inv[<<N + 1, 0>>])
    BY <2>1, SessionLeads
  <2>3. <<>> \in inv[<<1, 0>>] /\ inv[<<N + 1, 0>>] = {SamplesAfter(MemoryOf, N + 1, 0)}
    BY <1>1, SamplesStart
  <2>4. memory_bytes_by_layer(backend, events) \in inv[<<N + 1, 0>>]
    BY <2>2, <2>3, MemoryLeads
  <2> QED BY <2>2, <2>3, <2>4
<1>3. CASE backend = "cpu"
  <2> PICK inv : inv = SamplesAt(T)
    OBVIOUS
  <2>1. SessionStep(CpuSteps, inv, backend, kernels)
    BY <1>3, CpuSession
  <2>2. Leads(CpuSteps, inv[<<1, 0>>], events, inv[<<N + 1, 0>>])
    BY <2>1, SessionLeads
  <2>3. <<>> \in inv[<<1, 0>>] /\ inv[<<N + 1, 0>>] = {SamplesAfter(T, N + 1, 0)}
    BY <1>1, SamplesStart
  <2>4. cpu_durations(events) \in inv[<<N + 1, 0>>]
    BY <1>2, <2>2, <2>3, CpuLeads
  <2>5. durations_by_layer(backend, events) = SamplesAfter(T, N + 1, 0)
    <3>1. durations_by_layer(backend, events) = cpu_durations(events)
      BY <1>3 DEF durations_by_layer
    <3> QED BY <2>3, <2>4, <3>1
  <2>6. parse_profile_events(backend, events) = ExpectedProfile(backend, kernels)
    BY <1>2, <2>5, ProfileIs
  <2> QED BY <1>3, <2>6
<1>4. CASE backend = "gpu"
  <2> PICK inv, last : /\ inv = ParsedAt(T, kernels)
                       /\ last = FoldLeft(gpu_step, StartParsing, events)
    OBVIOUS
  <2>1. SessionStep(GpuSteps, inv, backend, kernels)
    BY <1>4, GpuSession
  <2>2. Leads(GpuSteps, inv[<<1, 0>>], events, inv[<<N + 1, 0>>])
    BY <2>1, SessionLeads
  <2>3. /\ inv[<<1, 0>>] = ParsedAfter(T, kernels, 1, 0)
        /\ inv[<<N + 1, 0>>] = ParsedAfter(T, kernels, N + 1, 0)
    BY DEF ParsedAt
  <2>4. StartParsing \in ParsedAfter(T, kernels, 1, 0)
    <3>1. /\ StartParsing.current = NoLayer /\ StartParsing.samples = <<>>
          /\ StartParsing.found_cuda_node = FALSE /\ StartParsing.found_kernel_event = FALSE
      BY DEF StartParsing
    <3>2. append_current_sample(StartParsing) = SamplesAfter(T, 1, 0)
      BY <1>1, <3>1, SamplesOfNone DEF append_current_sample
    <3>3. Found(kernels, 1, 0) = FALSE
      BY DEF Found
    <3> QED BY <3>1, <3>2, <3>3, StartIs DEF ParsedAfter
  <2>5. last \in ParsedAfter(T, kernels, N + 1, 0)
    BY <1>2, <2>2, <2>3, <2>4, GpuLeads
  <2>6. Found(kernels, N + 1, 0) <=> found
    BY <1>4, FoundIs
  <2>7. /\ append_current_sample(last) = SamplesAfter(T, N + 1, 0)
        /\ last.found_cuda_node = Found(kernels, N + 1, 0)
        /\ last.found_kernel_event = Found(kernels, N + 1, 0)
    BY <2>5 DEF ParsedAfter
  <2>8. durations_by_layer(backend, events) =
          IF last.found_cuda_node /\ last.found_kernel_event THEN append_current_sample(last)
          ELSE Invalid
    BY <1>4, Zenon DEF durations_by_layer, gpu_durations, StartParsing
  <2>9. CASE found
    <3>1. durations_by_layer(backend, events) = SamplesAfter(T, N + 1, 0)
      BY <2>6, <2>7, <2>8, <2>9
    <3>2. parse_profile_events(backend, events) = ExpectedProfile(backend, kernels)
      BY <1>2, <3>1, ProfileIs
    <3> QED BY <2>9, <3>2
  <2>10. CASE ~ found
    <3>1. durations_by_layer(backend, events) = Invalid
      BY <2>6, <2>7, <2>8, <2>10
    <3>2. parse_profile_events(backend, events) = Invalid
      BY <3>1, Zenon DEF parse_profile_events
    <3> QED BY <2>10, <3>2
  <2> QED BY <2>9, <2>10
<1> QED BY <1>3, <1>4

\* Every session is measured, whichever layers run on a GPU.
LEMMA SessionsAreMeasuredAlways == SessionsAreMeasured
<1> SUFFICES ASSUME NEW kernels \in [MeasuredLayers -> 0 .. 2]
             PROVE  /\ parse_profile_events("cpu", SessionEvents("cpu", kernels)) =
                         ExpectedProfile("cpu", kernels)
                    /\ parse_profile_events("gpu", SessionEvents("gpu", kernels)) =
                         IF Range(kernels) = {0} THEN Invalid ELSE ExpectedProfile("gpu", kernels)
  BY DEF SessionsAreMeasured, MeasuredLayers
<1>1. kernels \in Kernels
  BY DEF Kernels
<1>2. parse_profile_events("cpu", SessionEvents("cpu", kernels)) = ExpectedProfile("cpu", kernels)
  <2> PICK b \in {"cpu", "gpu"} : b = "cpu"
    OBVIOUS
  <2>1. parse_profile_events(b, SessionEvents(b, kernels)) = ExpectedProfile(b, kernels)
    BY <1>1, SessionIsParsed
  <2> QED BY <2>1
<1>3. Range(kernels) = {0} <=> ~ \E l \in MeasuredLayers : kernels[l] # 0
  <2>1. \E l : l \in MeasuredLayers
    BY OrderIs
  <2>2. DOMAIN kernels = MeasuredLayers
    OBVIOUS
  <2> QED BY <2>1, <2>2 DEF Range
<1>4. parse_profile_events("gpu", SessionEvents("gpu", kernels)) =
        IF Range(kernels) = {0} THEN Invalid ELSE ExpectedProfile("gpu", kernels)
  <2> PICK b \in {"cpu", "gpu"} : b = "gpu"
    OBVIOUS
  <2> PICK found : found = (b = "cpu" \/ \E l \in MeasuredLayers : kernels[l] # 0)
    OBVIOUS
  <2>1. parse_profile_events(b, SessionEvents(b, kernels)) =
          IF found THEN ExpectedProfile(b, kernels) ELSE Invalid
    BY <1>1, SessionIsParsed
  <2> QED BY <1>3, <2>1
<1> QED BY <1>2, <1>4

-----------------------------------------------------------------------------
(* What the workers publish.                                               *)

ExecutionsInv ==
  /\ executions = [w \in Workers |-> executions[w]]
  /\ \A w \in Workers : \A v \in DOMAIN executions[w] :
       /\ v \in Variants
       /\ executions[w][v] = model_execution_profile[w][v]
       /\ executions[w][v] # Invalid

\* Only the profile that is published changes.
LEMMA PublicationKeeps ==
  ASSUME TypeInv, ExecutionsInv, NEW w \in Workers, PublishModelExecutionProfile(w)
  PROVE  ExecutionsInv'
<1> PICK v, profile : v = rounds[w].variant /\ profile = model_execution_profile[w][v]
  OBVIOUS
<1>1. v \in Variants
  <2>1. IsRound(rounds[w]) /\ rounds[w].step = "download"
    BY DEF TypeInv, PublishModelExecutionProfile
  <2> QED BY <2>1 DEF IsRound
<1>2. CASE profile = Invalid
  <2>1. executions' = executions
    BY <1>2 DEF PublishModelExecutionProfile
  <2> QED BY <2>1 DEF ExecutionsInv
<1>3. CASE profile # Invalid
  <2> PICK mine : mine = [u \in DOMAIN executions[w] \cup {v} |->
                            IF u = v THEN profile ELSE executions[w][u]]
    OBVIOUS
  <2>1. executions' = [executions EXCEPT ![w] = mine]
    BY <1>3 DEF PublishModelExecutionProfile, ExecutionsInv
  <2>2. /\ executions' = [x \in Workers |-> executions'[x]]
        /\ executions'[w] = mine
        /\ \A x \in Workers \ {w} : executions'[x] = executions[x]
    BY <2>1 DEF ExecutionsInv
  <2>3. \A u \in DOMAIN mine : /\ u \in Variants
                               /\ mine[u] = model_execution_profile[w][u] /\ mine[u] # Invalid
    BY <1>1, <1>3 DEF ExecutionsInv
  <2> PICK model : model = model_execution_profile
    OBVIOUS
  <2>4. model' = model
    BY DEF model_execution_profile
  <2>5. \A x \in Workers : \A u \in DOMAIN executions'[x] :
          u \in Variants /\ executions'[x][u] = model[x][u] /\ executions'[x][u] # Invalid
    <3> SUFFICES ASSUME NEW x \in Workers, NEW u \in DOMAIN executions'[x]
                 PROVE  /\ u \in Variants
                        /\ executions'[x][u] = model[x][u] /\ executions'[x][u] # Invalid
      OBVIOUS
    <3>1. CASE x = w
      BY <2>2, <2>3, <3>1
    <3>2. CASE x # w
      <4>1. executions'[x] = executions[x]
        BY <2>2, <3>2
      <4> QED BY <4>1 DEF ExecutionsInv
    <3> QED BY <3>1, <3>2
  <2> QED BY <2>2, <2>5 DEF ExecutionsInv, model_execution_profile
<1> QED BY <1>2, <1>3

\* Nothing but a publication changes what is published.
LEMMA NextExecutionsInv ==
  ASSUME TypeInv, ExecutionsInv, [Next]_vars
  PROVE  ExecutionsInv'
<1>1. ASSUME UNCHANGED executions PROVE ExecutionsInv'
  BY <1>1 DEF ExecutionsInv, model_execution_profile
<1>2. CASE UNCHANGED vars
  BY <1>1, <1>2 DEF vars, workerVars
<1>3. ASSUME NEW m \in Models, RegisterModel(m) PROVE UNCHANGED executions
  BY <1>3 DEF RegisterModel, workerVars
<1>4. ASSUME NEW l \in Loads, NEW v \in Variants, NEW b \in Bundles,
             StartModelVariantRegistration(l, v, b)
      PROVE  UNCHANGED executions
  BY <1>4 DEF StartModelVariantRegistration, workerVars
<1>5. ASSUME NEW l \in Loads, LoadAction(l) PROVE UNCHANGED executions
  BY <1>5 DEF LoadAction, UploadModelArtifact, FinalizeModelVariantRegistration, LoadFails,
     GetModel, DownloadVariant, AddProfiledModelVariant, PopPending, FinalizeFails, workerVars
<1>6. ASSUME NEW c \in Builds, NEW v \in Variants, NEW layers \in LayerSets,
             GenerateModelPartition(c, v, layers)
      PROVE  UNCHANGED executions
  BY <1>6 DEF GenerateModelPartition, workerVars
<1>7. ASSUME NEW c \in Builds, BuildAction(c) PROVE UNCHANGED executions
  BY <1>7 DEF BuildAction, DownloadForPartition, UploadPartition, AddModelPartition, BuildFails,
     workerVars
<1>8. ASSUME ManagerRestarts PROVE UNCHANGED executions
  BY <1>8 DEF ManagerRestarts, workerVars
<1>9. ASSUME NEW w \in Workers, RoundAction(w), ~ PublishModelExecutionProfile(w)
      PROVE  UNCHANGED executions
  BY <1>9 DEF RoundAction, WorkerStep, Poll, RoundEnds, DownloadForProfiling, NextPendingModel,
     ProfilingFails, WorkerRestarts
<1> QED BY <1>1, <1>2, <1>3, <1>4, <1>5, <1>6, <1>7, <1>8, <1>9, PublicationKeeps
        DEF Next, LoadAction, BuildAction, RoundAction, WorkerStep

LEMMA ExpectedOfSession ==
  ASSUME NEW b \in {"cpu", "gpu"}
  PROVE  parse_profile_events(b, SessionEvents(b, MCKernels)) = Expected[b]
<1>1. MCKernels \in Kernels /\ "conv" \in MeasuredLayers /\ MCKernels["conv"] # 0
  <2>1. MeasuredLayers = {"conv", "shape", "relu"}
    <3>1. DOMAIN Order = 1 .. 3 /\ Order[1] = "conv" /\ Order[2] = "shape" /\ Order[3] = "relu"
      BY DEF Order
    <3> QED BY <3>1 DEF MeasuredLayers, Range
  <2> QED BY <2>1 DEF MCKernels, Kernels
<1>2. parse_profile_events(b, SessionEvents(b, MCKernels)) = ExpectedProfile(b, MCKernels)
  BY <1>1, SessionIsParsed
<1> QED BY <1>2 DEF Expected

\* The execution profile a worker publishes gives every layer, for every shape on every
\* backend, the mean time of that layer's own events in the runs that count, kernel by
\* kernel on a GPU, and the most memory it used.
THEOREM ProfilesMeasureTheirLayersHolds == Spec => []ProfilesMeasureTheirLayers
<1>1. Init => ExecutionsInv
  BY DEF Init, ExecutionsInv
<1>2. ExecutionsInv => ProfilesMeasureTheirLayers
  <2> SUFFICES ASSUME ExecutionsInv,
                      NEW w \in Workers, NEW v \in profiled_ids(w), NEW s \in Shapes[v],
                      NEW b \in BackendsOf[w]
               PROVE  executions[w][v][s][b] = Expected[b]
    BY SessionsAreMeasuredAlways DEF ProfilesMeasureTheirLayers
  <2>1. /\ v \in Variants /\ executions[w][v] = model_execution_profile[w][v]
        /\ executions[w][v] # Invalid
    BY DEF ExecutionsInv, profiled_ids
  <2>2. b \in {"cpu", "gpu"} /\ Events[w][v][s][b] = SessionEvents(b, MCKernels)
    BY <2>1, SessionsAssumption
  <2> PICK shapes, backends, events :
        shapes = Shapes[v] /\ backends = BackendsOf[w] /\ events = Events[w][v]
    OBVIOUS
  <2>3. executions[w][v] = profile_model_execution(shapes, backends, events)
    BY <2>1 DEF model_execution_profile
  <2>4. executions[w][v][s][b] = parse_profile_events(b, events[s][b])
    <3> PICK profile : profile = [x \in shapes |-> [y \in backends |->
                                    parse_profile_events(y, events[x][y])]]
      OBVIOUS
    <3>1. profile_model_execution(shapes, backends, events) =
            IF \E x \in shapes, y \in backends : profile[x][y] = Invalid THEN Invalid ELSE profile
      BY Zenon DEF profile_model_execution
    <3>2. executions[w][v] = profile
      BY <2>1, <2>3, <3>1
    <3> QED BY <3>2
  <2> QED BY <2>2, <2>4, ExpectedOfSession
<1>3. Inv => TypeInv
  BY DEF Inv
<1>4. TypeInv /\ ExecutionsInv /\ [Next]_vars => ExecutionsInv'
  BY NextExecutionsInv
<1> QED BY <1>1, <1>2, <1>3, <1>4, Invariance, PTL DEF Spec
=============================================================================
