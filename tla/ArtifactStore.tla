---------------------------- MODULE ArtifactStore ----------------------------
(***************************************************************************)
(* S3ArtifactStore: artifacts of several files in a store of objects.      *)
(*                                                                         *)
(* A bundle is a record [files, entrypoint, of]: the files of its manifest *)
(* in their order, the one to open, and what they hold.  The store maps    *)
(* keys to the bundle an object was uploaded from; of a manifest's object  *)
(* only the list of files matters, of another only what it holds.          *)
(*                                                                         *)
(* An upload is the number of objects sent so far.  A download is a record *)
(* [ref, manifest, got]: the bundle whose manifest was read (or NoBundle)  *)
(* and what the files fetched so far hold.                                 *)
(***************************************************************************)
EXTENDS Sequences, Naturals, Functions

MANIFEST_FILE_NAME == "manifest.json"
NoBundle == [files |-> <<>>, entrypoint |-> MANIFEST_FILE_NAME, of |-> "nothing"]

\* What ArtifactManifest insists on.
valid_manifest(b) ==
  /\ MANIFEST_FILE_NAME \notin Range(b.files)
  /\ IsInjective(b.files)
  /\ b.entrypoint \in Range(b.files)

object_key(ref, file) == <<ref, file>>

-----------------------------------------------------------------------------
\* Mutant of upload_order: the manifest goes first.
manifest_first(b) == <<MANIFEST_FILE_NAME>> \o b.files

upload_order(b) == Append(b.files, MANIFEST_FILE_NAME)

upload_is_over(b, sent) == sent = Len(b.files) + 1

\* Mutant of upload_file: what is in the store already is not sent again.
upload_missing_file(objects, ref, b, sent) ==
  LET key == object_key(ref, upload_order(b)[sent + 1]) IN
  [k \in DOMAIN objects \cup {key} |-> IF k \in DOMAIN objects THEN objects[k] ELSE b]

upload_file(objects, ref, b, sent) ==
  LET key == object_key(ref, upload_order(b)[sent + 1]) IN
  [k \in DOMAIN objects \cup {key} |-> IF k = key THEN b ELSE objects[k]]

-----------------------------------------------------------------------------
start_download(ref) == [ref |-> ref, manifest |-> NoBundle, got |-> <<>>]

\* A manifest names a file at least.
manifest_is_read(d) == d.manifest.files # <<>>

next_object(d) ==
  object_key(d.ref, IF manifest_is_read(d) THEN d.manifest.files[Len(d.got) + 1]
                    ELSE MANIFEST_FILE_NAME)

download_is_over(d) == manifest_is_read(d) /\ Len(d.got) = Len(d.manifest.files)

is_stored(objects, d) == next_object(d) \in DOMAIN objects

download_file(objects, d) ==
  IF manifest_is_read(d) THEN [d EXCEPT !.got = Append(@, objects[next_object(d)].of)]
  ELSE [d EXCEPT !.manifest = objects[next_object(d)]]

check_artifact_existence(objects, ref) ==
  object_key(ref, MANIFEST_FILE_NAME) \in DOMAIN objects
=============================================================================
