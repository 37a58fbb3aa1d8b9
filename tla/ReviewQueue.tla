---------------------------- MODULE ReviewQueue ----------------------------
(***************************************************************************)
(* From weak traces to regression cases.  A scan of the traces fills the   *)
(* review queue, people decide its rows in the admin UI or in an exported  *)
(* batch that is imported later, and a rebuild promotes the confirmed rows *)
(* to the JSONL file of curated cases, which it reads, empties and writes  *)
(* anew.  Rebuilds run in the API process and from the command line.       *)
(*                                                                         *)
(* scripts/build_review_queue.py, review_export.py, review_import.py,      *)
(* build_curated_dataset.py, api/routers/admin_review.py, admin_kb.py.     *)
(***************************************************************************)
EXTENDS Naturals, FiniteSets

CONSTANTS
    Traces,        \* traces with a tenant of their own
    Imports,       \* batches: an export, its annotation and its imports
    ApiRebuilds,   \* rebuilds of POST /admin/curated-dataset/rebuild
    CliRebuilds,   \* runs of scripts/build_curated_dataset.py
    MaxDecisions   \* bound on the updates made in the admin UI

ASSUME ReviewAssumption == ApiRebuilds \cap CliRebuilds = {} /\ MaxDecisions \in Nat

VARIABLES
    review,     \* per trace: the row of review_queue, or "absent"
    batch,      \* per import: step, verdicts of the file, row in hand, rows updated
    rebuild,    \* per rebuild: step, verdicts it selected, records to write
    cases,      \* the file of curated cases: per trace "none", "good" or "bad"
    curated,    \* traces some rebuild has written to the file
    torn,       \* a write was cut off, or two processes rewrote the file at once
    decisions   \* updates made in the admin UI

reviewVars == <<review, batch, rebuild, cases, curated, torn, decisions>>

ReviewStatuses == {"pending", "in_review", "confirmed_good", "confirmed_bad", "dismissed"}

NoCases == [t \in Traces |-> "none"]

ReviewInit ==
    /\ review = [t \in Traces |-> "absent"]
    /\ batch = [i \in Imports |->
          [step |-> "idle", verdict |-> NoCases, todo |-> {}, row |-> "none", updated |-> {}]]
    /\ rebuild = [r \in ApiRebuilds \cup CliRebuilds |->
          [step |-> "idle", rows |-> NoCases, records |-> NoCases]]
    /\ cases = NoCases
    /\ curated = {}
    /\ torn = FALSE
    /\ decisions = 0

----------------------------------------------------------------------------
(* build_review_queue *)

\* What a scan can find: any of the traces of its window may have a reason (a
\* thumbs-down, a low score, an escalation, failed facts, slowness).
Candidates == SUBSET Traces \ {{}}

\* run_once inserts a pending row for every candidate and keeps the rows there are.
ScanTraces ==
    \E found \in Candidates :
        /\ \E t \in found : review[t] = "absent"
        /\ review' = [t \in Traces |-> IF t \in found /\ review[t] = "absent"
                                       THEN "pending" ELSE review[t]]
        /\ UNCHANGED <<batch, rebuild, cases, curated, torn, decisions>>

----------------------------------------------------------------------------
(* The admin UI, and the batches that are reviewed offline *)

\* A row that an uncommitted transaction has updated is locked.
RowLocked(t) == \E i \in Imports : t \in batch[i].updated

\* admin_update_review_queue writes whatever status the row has.
DecideInUI(t) ==
    /\ decisions < MaxDecisions
    /\ review[t] # "absent"
    /\ ~RowLocked(t)
    /\ \E s \in ReviewStatuses \ {review[t]} : review' = [review EXCEPT ![t] = s]
    /\ decisions' = decisions + 1
    /\ UNCHANGED <<batch, rebuild, cases, curated, torn>>

\* The default export takes the pending rows, --status all takes every row; a person
\* fills in verdicts, and lines left without one are skipped.
ExportBatch(i) ==
    /\ batch[i].step = "idle"
    /\ \E rows \in SUBSET {t \in Traces : review[t] # "absent"} :
         /\ rows # {}
         /\ \E filled \in [rows -> {"confirmed_good", "confirmed_bad", "dismissed"}] :
              batch' = [batch EXCEPT
                  ![i].step = "filled",
                  ![i].verdict = [t \in Traces |-> IF t \in rows THEN filled[t] ELSE "none"]]
    /\ UNCHANGED <<review, rebuild, cases, curated, torn, decisions>>

\* review_import.run_once begins; the same file may be imported again.
BeginImport(i) ==
    /\ batch[i].step = "filled"
    /\ batch' = [batch EXCEPT ![i].step = "select",
                              ![i].todo = {t \in Traces : batch[i].verdict[t] # "none"}]
    /\ UNCHANGED <<review, rebuild, cases, curated, torn, decisions>>

\* The status a statement of the import sees: its own updates and what is committed.
StatusSeen(i, t) == IF t \in batch[i].updated THEN batch[i].verdict[t] ELSE review[t]

\* A row that is not pending any more is skipped with a warning.
SelectRow(i) ==
    /\ batch[i].step = "select"
    /\ \E t \in batch[i].todo :
         batch' = [batch EXCEPT ![i].todo = @ \ {t},
                                ![i].row = IF StatusSeen(i, t) = "pending" THEN t ELSE "none",
                                ![i].step = IF StatusSeen(i, t) = "pending" THEN "update" ELSE @]
    /\ UNCHANGED <<review, rebuild, cases, curated, torn, decisions>>

\* Mutant: the update trusts the status that was selected.
UpdateRow_Unconditional(i) ==
    /\ batch[i].step = "update"
    /\ ~RowLocked(batch[i].row)
    /\ batch' = [batch EXCEPT ![i].step = "select", ![i].row = "none",
                              ![i].updated = @ \cup {batch[i].row}]
    /\ UNCHANGED <<review, rebuild, cases, curated, torn, decisions>>

\* UPDATE ... AND status = 'pending': it waits for the lock and looks at the row again.
UpdateRow(i) ==
    /\ batch[i].step = "update"
    /\ ~RowLocked(batch[i].row)
    /\ batch' = [batch EXCEPT ![i].step = "select", ![i].row = "none",
                              ![i].updated = IF review[batch[i].row] = "pending"
                                             THEN @ \cup {batch[i].row} ELSE @]
    /\ UNCHANGED <<review, rebuild, cases, curated, torn, decisions>>

\* One commit for the file, if a row was updated.
CommitImport(i) ==
    /\ batch[i].step = "select"
    /\ batch[i].todo = {}
    /\ review' = [t \in Traces |-> StatusSeen(i, t)]
    /\ batch' = [batch EXCEPT ![i].step = "filled", ![i].updated = {}]
    /\ UNCHANGED <<rebuild, cases, curated, torn, decisions>>

\* An exception or a crash: nothing of the file is kept.
AbortImport(i) ==
    /\ batch[i].step \in {"select", "update"}
    /\ batch' = [batch EXCEPT ![i].step = "filled", ![i].updated = {}, ![i].row = "none",
                              ![i].todo = {}]
    /\ UNCHANGED <<review, rebuild, cases, curated, torn, decisions>>

----------------------------------------------------------------------------
(* build_curated_dataset *)

\* _build_record: what is not confirmed_good is bad.
HumanVerdict(s) == IF s = "confirmed_good" THEN "good" ELSE "bad"

\* The rows the rebuild selects.
Promoted(includeBad) ==
    {t \in Traces : review[t] \in {"confirmed_good"}
                                  \cup IF includeBad THEN {"confirmed_bad"} ELSE {}}

\* The query, restricted to a tenant and to rows created since a date.
QueryConfirmed(r) ==
    /\ rebuild[r].step = "idle"
    /\ \E includeBad \in BOOLEAN, scope \in SUBSET Traces :
          rebuild' = [rebuild EXCEPT
              ![r].step = "queried",
              ![r].rows = [t \in Traces |-> IF t \in scope \cap Promoted(includeBad)
                                            THEN HumanVerdict(review[t]) ELSE "none"]]
    /\ UNCHANGED <<review, batch, cases, curated, torn, decisions>>

Rewriting(r) == rebuild[r].step \in {"loaded", "writing"}

\* Selected rows replace the records of their case, the other records stay.
Merge(rows) == [t \in Traces |-> IF rows[t] # "none" THEN rows[t] ELSE cases[t]]

\* From reading the file to closing it the API process does nothing else; a process
\* of the command line may be doing the same.
LoadExisting(r) ==
    /\ rebuild[r].step = "queried"
    /\ r \in ApiRebuilds => \A k \in ApiRebuilds : ~Rewriting(k)
    /\ rebuild' = [rebuild EXCEPT ![r].step = "loaded", ![r].records = Merge(rebuild[r].rows)]
    /\ torn' = (torn \/ \E k \in DOMAIN rebuild : Rewriting(k))
    /\ UNCHANGED <<review, batch, cases, curated, decisions>>

\* open("w") empties the file.
OpenFile(r) ==
    /\ rebuild[r].step = "loaded"
    /\ cases' = NoCases
    /\ rebuild' = [rebuild EXCEPT ![r].step = "writing"]
    /\ UNCHANGED <<review, batch, curated, torn, decisions>>

\* The records are written and the file is closed.  Where another process writes too,
\* each line is of one of them.
WriteFile(r) ==
    /\ rebuild[r].step = "writing"
    /\ \E mine \in SUBSET Traces :
         /\ (\A k \in DOMAIN rebuild \ {r} : ~Rewriting(k)) => mine = Traces
         /\ cases' = [t \in Traces |-> IF t \in mine THEN rebuild[r].records[t] ELSE cases[t]]
    /\ curated' = curated \cup {t \in Traces : cases'[t] # "none"}
    /\ rebuild' = [rebuild EXCEPT ![r] = [step |-> "idle", rows |-> NoCases, records |-> NoCases]]
    /\ UNCHANGED <<review, batch, torn, decisions>>

\* The process dies, or an exception ends the rebuild; lines may have reached the file.
RebuildDies(r) ==
    /\ rebuild[r].step # "idle"
    /\ IF rebuild[r].step = "writing"
       THEN \E written \in SUBSET Traces :
              /\ cases' = [t \in Traces |-> IF t \in written THEN rebuild[r].records[t] ELSE cases[t]]
              /\ torn' = TRUE
       ELSE UNCHANGED <<cases, torn>>
    /\ rebuild' = [rebuild EXCEPT ![r] = [step |-> "idle", rows |-> NoCases, records |-> NoCases]]
    /\ UNCHANGED <<review, batch, curated, decisions>>

RebuildStep(r) ==
    QueryConfirmed(r) \/ LoadExisting(r) \/ OpenFile(r) \/ WriteFile(r) \/ RebuildDies(r)

ImportStep(i) ==
    \/ ExportBatch(i) \/ BeginImport(i) \/ SelectRow(i) \/ UpdateRow(i)
    \/ CommitImport(i) \/ AbortImport(i)

ReviewNext ==
    \/ \E t \in Traces : DecideInUI(t)
    \/ ScanTraces
    \/ \E i \in Imports : ImportStep(i)
    \/ \E r \in ApiRebuilds \cup CliRebuilds : RebuildStep(r)

ReviewSpec == ReviewInit /\ [][ReviewNext]_reviewVars

----------------------------------------------------------------------------
(* Properties *)

ReviewTypeOK ==
    /\ review \in [Traces -> ReviewStatuses \cup {"absent"}]
    /\ \A i \in Imports : batch[i].updated \subseteq Traces /\ batch[i].todo \subseteq Traces
    /\ cases \in [Traces -> {"none", "good", "bad"}]
    /\ curated \subseteq Traces
    /\ torn \in BOOLEAN /\ decisions \in 0..MaxDecisions

\* A row that somebody has decided or taken up is changed again only in the admin UI: an
\* import that was annotated before the decision, is run twice, or overlaps another
\* import or an update between its SELECT and its UPDATE leaves it (review_import.run_once).
DecisionsChangeByHand ==
    [][\A t \in Traces : review[t] \notin {"absent", "pending", review'[t]}
                         => decisions' = decisions + 1]_reviewVars

\* Rebuilds for one tenant, for one date or without the bad cases keep every case that
\* earlier rebuilds wrote, unless a write was cut off or two processes rewrote the file
\* at the same time (build_curated_dataset.run_once).
CasesKept ==
    torn \/ (\E r \in DOMAIN rebuild : rebuild[r].step = "writing")
         \/ \A t \in curated : cases[t] # "none"

\* Decisions on reviews and the cases built from them are changed by nobody but those who may
\* (review_import, build_curated_dataset).
ReviewSafety ==
    /\ [](ReviewTypeOK /\ CasesKept)
    /\ DecisionsChangeByHand
=============================================================================
