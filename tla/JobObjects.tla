----------------------------- MODULE JobObjects -----------------------------
(***************************************************************************)
(* The files behind ingestion jobs.  An upload spools its bytes, creates   *)
(* the durable row, places the job's immutable original, keeps the bytes   *)
(* that the flat file of that name still holds in a content-addressed      *)
(* recovery object, and only then replaces the flat file, which is what    *)
(* loaders read.  Uploads of one name overlap and any of them may die.     *)
(* Operators look at the tree through a preview that reads the rows, then  *)
(* their statuses, then the files, and may run the guarded retention.      *)
(*                                                                         *)
(* api/routers/upload.py, ingestion/job_object_inventory.py,               *)
(* job_object_retention.py, job_object_operator.py, job_object_orphans.py. *)
(***************************************************************************)
EXTENDS Naturals

CONSTANTS
    Uploads,   \* uploads of one file name of one tenant, each with bytes of its own
    Legacy,    \* the bytes a flat file of an earlier version holds
    Previews   \* runs of the operator's preview

ASSUME ObjectsAssumption == Legacy \notin Uploads

VARIABLES
    upload,     \* per upload: how far it is
    priorBytes, \* per upload: what it read from the flat file, or "none"
    jobRow,     \* per upload: the row's status, or "none"
    original,   \* per upload: job-objects/<job_id>/<name>: "none", "partial" or "full"
    recovery,   \* per bytes: job-objects/legacy-previous/<sha256>/<name>
    withdrawn,  \* history: bytes whose recovery object its writer removed although another
                \* upload had found it and went on
    flat,       \* the bytes of the flat file
    served,     \* every value flat has had
    preview,    \* per preview: step, rows read, statuses read, report
    faults      \* what has gone wrong: "io", "death", "half_written"

objectVars == <<upload, priorBytes, jobRow, original, recovery, withdrawn, flat, served, preview,
                faults>>

Contents == Uploads \cup {Legacy}

ObjectsInit ==
    /\ upload = [u \in Uploads |-> "start"]
    /\ priorBytes = [u \in Uploads |-> "none"]
    /\ jobRow = [u \in Uploads |-> "none"]
    /\ original = [u \in Uploads |-> "none"]
    /\ recovery = [c \in Contents |-> "none"]
    /\ withdrawn = {}
    /\ flat = Legacy
    /\ served = {Legacy}
    /\ preview = [p \in Previews |->
          [step |-> "idle", rows |-> {}, failed |-> {}, report |-> [u \in Uploads |-> "absent"]]]
    /\ faults = {}

At(u, step) == upload[u] = step
MoveTo(u, step) == upload' = [upload EXCEPT ![u] = step]

----------------------------------------------------------------------------
(* upload_document *)

\* Mutant: the row is left for the end of the upload.
CreateRow_Later(u) ==
    /\ At(u, "start")
    /\ MoveTo(u, "row")
    /\ UNCHANGED <<priorBytes, jobRow, original, recovery, withdrawn, flat, served, preview,
                   faults>>

\* The durable row, with source_path, comes before any file but the spool.
CreateRow(u) ==
    /\ At(u, "start")
    /\ jobRow' = [jobRow EXCEPT ![u] = "queued"]
    /\ MoveTo(u, "row")
    /\ UNCHANGED <<priorBytes, original, recovery, withdrawn, flat, served, preview, faults>>

\* _place_exclusive_from_path opens the file, copies the spool and closes it.
BeginOriginal(u) ==
    /\ At(u, "row")
    /\ original' = [original EXCEPT ![u] = "partial"]
    /\ MoveTo(u, "placing")
    /\ UNCHANGED <<priorBytes, jobRow, recovery, withdrawn, flat, served, preview, faults>>

EndOriginal(u) ==
    /\ At(u, "placing")
    /\ original' = [original EXCEPT ![u] = "full"]
    /\ MoveTo(u, "placed")
    /\ UNCHANGED <<priorBytes, jobRow, recovery, withdrawn, flat, served, preview, faults>>

\* _preserve_prior_flat_bytes reads the flat file ...
ReadFlat(u) ==
    /\ At(u, "placed")
    /\ priorBytes' = [priorBytes EXCEPT ![u] = flat]
    /\ MoveTo(u, "read")
    /\ UNCHANGED <<jobRow, original, recovery, withdrawn, flat, served, preview, faults>>

\* ... and creates its recovery object, or finds it there with the same bytes; one that
\* another upload is still writing, or died writing, has other bytes.
RecoveryOutcome(c) ==
    CASE recovery[c] = "none"    -> "preserving"
      [] recovery[c] = "full"    -> "preserved"
      [] recovery[c] = "partial" -> "fail"

BeginRecovery(u) ==
    LET c == priorBytes[u]
    IN  /\ At(u, "read")
        /\ MoveTo(u, RecoveryOutcome(c))
        /\ recovery' = IF RecoveryOutcome(c) = "preserving"
                       THEN [recovery EXCEPT ![c] = "partial"] ELSE recovery
        /\ faults' = IF recovery[c] = "partial" THEN faults \cup {"half_written"} ELSE faults
        /\ UNCHANGED <<priorBytes, jobRow, original, withdrawn, flat, served, preview>>

\* _write_bytes_exclusive: all bytes are in the file before it is synced and closed.
WriteRecovery(u) ==
    /\ At(u, "preserving")
    /\ recovery' = [recovery EXCEPT ![priorBytes[u]] = "full"]
    /\ MoveTo(u, "syncing")
    /\ UNCHANGED <<priorBytes, jobRow, original, withdrawn, flat, served, preview, faults>>

EndRecovery(u) ==
    /\ At(u, "syncing")
    /\ MoveTo(u, "preserved")
    /\ UNCHANGED <<priorBytes, jobRow, original, recovery, withdrawn, flat, served, preview,
                   faults>>

\* _atomic_replace_from_path, and the job may be published.
ReplaceFlat(u) ==
    /\ At(u, "preserved")
    /\ flat' = u
    /\ served' = served \cup {u}
    /\ jobRow' = [jobRow EXCEPT ![u] = "ready"]
    /\ MoveTo(u, "done")
    /\ UNCHANGED <<priorBytes, original, recovery, withdrawn, preview, faults>>

\* Another upload has found the same bytes in the recovery object of this one.
Relied(u) ==
    \E v \in Uploads \ {u} : priorBytes[v] = priorBytes[u] /\ upload[v] \in {"preserved", "done"}

\* An error of the file system: a file being written, or synced, is removed if it can be.
IOError(u) ==
    /\ upload[u] \in {"placing", "placed", "preserving", "syncing", "preserved"}
    /\ \/ UNCHANGED <<original, recovery, withdrawn>>
       \/ /\ At(u, "placing")
          /\ original' = [original EXCEPT ![u] = "none"]
          /\ UNCHANGED <<recovery, withdrawn>>
       \/ /\ upload[u] \in {"preserving", "syncing"}
          /\ recovery' = [recovery EXCEPT ![priorBytes[u]] = "none"]
          /\ withdrawn' = IF Relied(u) THEN withdrawn \cup {priorBytes[u]} ELSE withdrawn
          /\ UNCHANGED original
    /\ MoveTo(u, "fail")
    /\ faults' = faults \cup {"io"}
    /\ UNCHANGED <<priorBytes, jobRow, flat, served, preview>>

\* _mark_failed: the row is terminal and keeps its source_path.
MarkUploadFailed(u) ==
    /\ At(u, "fail")
    /\ jobRow' = [jobRow EXCEPT ![u] = "failed"]
    /\ MoveTo(u, "failed")
    /\ UNCHANGED <<priorBytes, original, recovery, withdrawn, flat, served, preview, faults>>

\* The process dies: files stay as they are.
UploadDies(u) ==
    /\ upload[u] \notin {"start", "done", "failed", "dead"}
    /\ MoveTo(u, "dead")
    /\ faults' = faults \cup {"death"}
    /\ UNCHANGED <<priorBytes, jobRow, original, recovery, withdrawn, flat, served, preview>>

----------------------------------------------------------------------------
(* load_and_run_operator_preview and execute_job_object_retention *)

LoadRefs(p) ==
    /\ preview[p].step = "idle"
    /\ preview' = [preview EXCEPT ![p].step = "refs",
                                  ![p].rows = {u \in Uploads : jobRow[u] # "none"}]
    /\ UNCHANGED <<upload, priorBytes, jobRow, original, recovery, withdrawn, flat, served, faults>>

LoadStatuses(p) ==
    /\ preview[p].step = "refs"
    /\ preview' = [preview EXCEPT ![p].step = "statuses",
                                  ![p].failed = {u \in Uploads : jobRow[u] = "failed"}]
    /\ UNCHANGED <<upload, priorBytes, jobRow, original, recovery, withdrawn, flat, served, faults>>

\* _classify_file with annotate_job_object_transition_context.
Classify(p, u) ==
    CASE original[u] = "none" -> "absent"
      [] original[u] # "none" /\ u \notin preview[p].rows -> "unrecorded"
      [] original[u] # "none" /\ u \in preview[p].rows \cap preview[p].failed ->
            "retained_after_failed_transition"
      [] OTHER -> "retained"

ScanTree(p) ==
    /\ preview[p].step = "statuses"
    /\ preview' = [preview EXCEPT ![p].step = "reported",
                                  ![p].report = [u \in Uploads |-> Classify(p, u)]]
    /\ UNCHANGED <<upload, priorBytes, jobRow, original, recovery, withdrawn, flat, served, faults>>

\* assess_job_object_retention_policy: every class is kept.
AutoDeleteCandidates(p) == {}

\* The operator's expectation has to be what the policy says.
ExecuteRetention(p) ==
    /\ preview[p].step = "reported"
    /\ original' = [u \in Uploads |-> IF u \in AutoDeleteCandidates(p) THEN "none" ELSE original[u]]
    /\ preview' = [preview EXCEPT ![p] =
          [step |-> "idle", rows |-> {}, failed |-> {}, report |-> [u \in Uploads |-> "absent"]]]
    /\ UNCHANGED <<upload, priorBytes, jobRow, recovery, withdrawn, flat, served, faults>>

UploadStep(u) ==
    \/ CreateRow(u) \/ BeginOriginal(u) \/ EndOriginal(u) \/ ReadFlat(u) \/ BeginRecovery(u)
    \/ WriteRecovery(u) \/ EndRecovery(u) \/ ReplaceFlat(u) \/ IOError(u)
    \/ MarkUploadFailed(u) \/ UploadDies(u)

ObjectsNext ==
    \/ \E u \in Uploads : UploadStep(u)
    \/ \E p \in Previews : LoadRefs(p) \/ LoadStatuses(p) \/ ScanTree(p) \/ ExecuteRetention(p)

ObjectsSpec == ObjectsInit /\ [][ObjectsNext]_objectVars

----------------------------------------------------------------------------
(* Properties *)

ObjectsTypeOK ==
    /\ upload \in [Uploads -> {"start", "row", "placing", "placed", "read", "preserving", "syncing",
                               "preserved", "done", "fail", "failed", "dead"}]
    /\ priorBytes \in [Uploads -> Contents \cup {"none"}]
    /\ jobRow \in [Uploads -> {"none", "queued", "ready", "failed"}]
    /\ original \in [Uploads -> {"none", "partial", "full"}]
    /\ recovery \in [Contents -> {"none", "partial", "full"}] /\ withdrawn \subseteq Contents
    /\ flat \in Contents /\ served \subseteq Contents /\ faults \subseteq {"io", "death", "half_written"}

\* Whatever bytes the flat file has held are still to be found, in the flat file, in the
\* original of their job or in a recovery object, however uploads of the name overlap,
\* wherever one of them dies, and whatever retention is run in between; unless the writer
\* of a recovery object could not sync it and removed it under an upload that relied on it.
BytesKept ==
    \A c \in served : \/ flat = c
                      \/ recovery[c] = "full"
                      \/ c \in Uploads /\ original[c] = "full"
                      \/ c \in withdrawn

\* A file a preview reports as unrecorded is of a job whose row was created while the
\* preview ran: there is no file without a row, so no such file may be taken for garbage.
UnrecordedHasRow ==
    \A p \in Previews : \A u \in Uploads :
        preview[p].report[u] = "unrecorded" => jobRow[u] # "none" /\ u \notin preview[p].rows

\* An upload fails for a reason: an I/O error, or a recovery object of the same bytes
\* that is half written, because another upload is writing it or died over it.  One that
\* is complete is shared, however many uploads of the name come after it.
FailureNeedsFault ==
    \A u \in Uploads : upload[u] \in {"fail", "failed"} => faults \cap {"io", "half_written"} # {}

\* No bytes of an upload are lost, no object is taken for garbage and none fails without a
\* reason (upload, job_object_inventory, job_object_operator).
ObjectsSafety ==
    /\ ObjectsTypeOK
    /\ BytesKept
    /\ UnrecordedHasRow
    /\ FailureNeedsFault
=============================================================================
