--------------------------- MODULE IngestionJobs ---------------------------
(***************************************************************************)
(* Durable document ingestion: the rows of the ingestion_jobs table        *)
(* (ingestion/jobs.py), the upload handler that creates them               *)
(* (api/routers/upload.py), the broker, the Celery task that executes them *)
(* (tasks/ingest_task.py) and the lease, heartbeat and reaper that recover *)
(* them (ingestion/liveness.py).                                           *)
(*                                                                         *)
(* A job and the upload request that proposes its UUID have one name: an   *)
(* element of Jobs.  The tenant Default is indexed asynchronously through  *)
(* the broker; every other tenant is indexed by the request itself.        *)
(* Timestamps are kept relative to the reaper's clock: since[j] is the age *)
(* of the timestamp it compares, left[j] the time until lease_expires_at.  *)
(* A worker sets lease_expires_at by the clock of its own host, which is   *)
(* off the reaper's by an offset that may differ every time.               *)
(* A whole index build (VectorIndex.tla has its steps) is one switch of    *)
(* the active collection, under the tenant lock.                           *)
(***************************************************************************)
EXTENDS Integers, Sequences, FiniteSets

CONSTANTS
    Jobs,         \* upload requests, and the job rows they may create
    Workers,      \* Celery worker slots
    Tenants, Default,
    Requests,     \* what an upload may carry: [tenant, key, payload, name]
    NoKey,        \* the request has no Idempotency-Key header
    None,         \* Python's None
    LegacyJobs,   \* rows left running, without a lease, by a pre-4.3 worker
    Lease,        \* INGESTION_JOB_LEASE_SEC
    Heartbeat,    \* INGESTION_JOB_HEARTBEAT_SEC
    Offsets,      \* how far a worker's clock may be ahead of the reaper's (or behind it,
                  \* by skew or by the time from its reading to the commit)
    QueuedStale,  \* INGESTION_JOB_QUEUED_STALE_SEC
    LegacyStale,  \* INGESTION_JOB_LEGACY_RUNNING_STALE_SEC
    Punctual,     \* time never passes a heartbeat that is due
    MaxCopies     \* bound: broker copies of one job's message at a time

Statuses == {"absent", "queued", "running", "completed", "failed"}

Terminal == {"completed", "failed"}

\* _assert_heartbeat_lt_lease: settings that break it are refused.
HeartbeatFitsLease == Heartbeat < Lease

ASSUME ConstantsAssumption ==
    /\ Default \in Tenants
    /\ \A q \in Requests : DOMAIN q = {"tenant", "key", "payload", "name"} /\ q.tenant \in Tenants
    /\ LegacyJobs \subseteq Jobs
    /\ Jobs \cap Workers = {}
    /\ None \notin Jobs
    /\ Lease \in Nat \ {0}
    /\ Heartbeat \in Nat \ {0}
    /\ Offsets \subseteq Int
    /\ QueuedStale \in Nat \ {0}
    /\ LegacyStale \in Nat \ {0}
    /\ Punctual \in BOOLEAN
    /\ MaxCopies \in Nat \ {0}

ASSUME HeartbeatAssumption == HeartbeatFitsLease

VARIABLES
    req,       \* [Jobs -> Requests]: what each upload carries
    status, ready, started, since, lease, left, bound,
               \* the row: status, source_ready_at, started_at (set or not),
               \* age of created_at / started_at, lease_token (0: null),
               \* time to lease_expires_at, index_manifest_generation
    issued,    \* lease tokens drawn so far; a new one is issued + 1
    inflight,  \* [Jobs -> Nat]: messages for the job in the broker
    rpc, target,
               \* where each upload handler is; the job it answers with
    wpc, wjob, wtok, lost, beat,
               \* where each task execution is; its job and lease token;
               \* its sticky ownership_lost; time to its next heartbeat
    corpus,    \* [Tenants -> SUBSET Jobs]: uploads in the flat directory
    docs,      \* the documents an executor has loaded (None: not loaded)
    receipt,   \* the manifest generation its build published (0: none)
    log,       \* [Tenants -> Seq(Jobs)]: who published each generation
    active     \* [Tenants -> SUBSET Jobs]: documents of the active index

rowVars   == <<status, ready, started, since, lease, left, bound>>
reqVars   == <<rpc, target>>
workVars  == <<wpc, wjob, wtok, lost, beat>>
indexVars == <<log, active, receipt>>
vars == <<req, rowVars, issued, inflight, reqVars, workVars, corpus, docs, indexVars>>

Executors == Jobs \cup Workers

StaleCap == IF QueuedStale > LegacyStale THEN QueuedStale ELSE LegacyStale

\* The handler is still running in these places; the others are answers.
RequestBusy == {"place", "save_failed", "mark_ready", "load", "publish",
                "republish", "run", "build", "complete", "fail"}

Answers == {"accepted", "replayed", "conflict", "unavailable", "error", "indexed", "partial"}

Probing == {"pre_load", "pre_index", "pre_complete"}

WorkerBusy == Probing \cup {"load", "build", "complete", "failing"}

Busy(w) == wpc[w] \in WorkerBusy

\* celery_task_id is reserved when the row is created, for Default only.
Async(j) == req[j].tenant = Default

Exists(j) == status[j] # "absent"

\* The WHERE clause of every worker transition.
Owns(w) == /\ status[wjob[w]] = "running"
           /\ lease[wjob[w]] = wtok[w]

----------------------------------------------------------------------------

Init ==
    /\ req \in [Jobs -> Requests]
    /\ \A j \in LegacyJobs : Async(j)
    /\ \A i, j \in LegacyJobs : i # j => req[i].key = NoKey \/ req[i].key # req[j].key
    /\ status = [j \in Jobs |-> IF j \in LegacyJobs THEN "running" ELSE "absent"]
    /\ ready = [j \in Jobs |-> j \in LegacyJobs]
    /\ started = [j \in Jobs |-> j \in LegacyJobs]
    /\ since = [j \in Jobs |-> 0]
    /\ lease = [j \in Jobs |-> 0]
    /\ left = [j \in Jobs |-> 0]
    /\ bound = [j \in Jobs |-> 0]
    /\ issued = 0
    /\ inflight = [j \in Jobs |-> 0]
    /\ rpc = [j \in Jobs |-> IF j \in LegacyJobs THEN "accepted" ELSE "idle"]
    /\ target = [j \in Jobs |-> j]
    /\ wpc = [w \in Workers |-> "idle"]
    /\ wjob = [w \in Workers |-> None]
    /\ wtok = [w \in Workers |-> 0]
    /\ lost = [w \in Workers |-> FALSE]
    /\ beat = [w \in Workers |-> 0]
    /\ corpus = [t \in Tenants |-> {j \in LegacyJobs : t = Default}]
    /\ docs = [e \in Executors |-> None]
    /\ receipt = [e \in Executors |-> 0]
    /\ log = [t \in Tenants |-> <<>>]
    /\ active = [t \in Tenants |-> {}]

----------------------------------------------------------------------------
(* The upload handler.                                                     *)

Goto(r, place) == rpc' = [rpc EXCEPT ![r] = place]

\* The unique constraint (tenant_id, idempotency_key_hash).
KeyHolder(r) ==
    {j \in Jobs : /\ Exists(j)
                  /\ req[r].key # NoKey
                  /\ req[j].key = req[r].key
                  /\ req[j].tenant = req[r].tenant}

\* create_or_reuse, the insert succeeds: the row is queued, its bytes not placed.
CreateJob(r) ==
    /\ rpc[r] = "idle"
    /\ KeyHolder(r) = {}
    /\ status' = [status EXCEPT ![r] = "queued"]
    /\ since' = [since EXCEPT ![r] = 0]
    /\ Goto(r, "place")
    /\ UNCHANGED <<req, ready, started, lease, left, bound, issued, inflight,
                   target, workVars, corpus, docs, indexVars>>

\* A queued row is published again only once its source is ready.
Republishable(j) == Async(j) /\ status[j] = "queued" /\ ready[j]

\* Mutant: the fingerprint is not compared.
SamePayload_Ignored(r, j) == TRUE

SamePayload(r, j) == req[j].payload = req[r].payload

\* create_or_reuse, the insert hits the constraint: the same payload replays
\* the holder's row, as it is read now; another payload is a 409.
ReuseJob(r) ==
    /\ rpc[r] = "idle"
    /\ \E j \in KeyHolder(r) :
          IF SamePayload(r, j)
          THEN /\ target' = [target EXCEPT ![r] = j]
               /\ Goto(r, IF Republishable(j) THEN "republish" ELSE "replayed")
          ELSE /\ Goto(r, "conflict")
               /\ UNCHANGED target
    /\ UNCHANGED <<req, rowVars, issued, inflight, workVars, corpus, docs, indexVars>>

\* The immutable original, then the flat corpus view: a file of that name is replaced.
PlaceFile(r) ==
    /\ rpc[r] = "place"
    /\ corpus' = [corpus EXCEPT ![req[r].tenant] =
                     {j \in @ : req[j].name # req[r].name} \cup {r}]
    /\ Goto(r, "mark_ready")
    /\ UNCHANGED <<req, rowVars, issued, inflight, target, workVars, docs, indexVars>>

PlaceFileFails(r) ==
    /\ rpc[r] = "place"
    /\ Goto(r, "save_failed")
    /\ UNCHANGED <<req, rowVars, issued, inflight, target, workVars, corpus, docs, indexVars>>

\* mark_source_ready: compare-and-set on a queued row that is not ready yet.
MarkSourceReady(r) ==
    /\ rpc[r] = "mark_ready"
    /\ IF status[r] = "queued" /\ ~ready[r]
       THEN /\ ready' = [ready EXCEPT ![r] = TRUE]
            /\ Goto(r, "load")
       ELSE /\ Goto(r, "error")
            /\ UNCHANGED ready
    /\ UNCHANGED <<req, status, started, since, lease, left, bound, issued, inflight,
                   target, workVars, corpus, docs, indexVars>>

\* Categorisation loads the tenant's whole directory; a synchronous tenant
\* indexes these documents.  A failure is logged and leaves docs = None.  A
\* deployment without a loader or a builder fails the synchronous job here.
LoadForCategories(r) ==
    /\ rpc[r] = "load"
    /\ \E loaded \in {corpus[req[r].tenant], None} :
          docs' = [docs EXCEPT ![r] = IF Async(r) THEN @ ELSE loaded]
    /\ \E next \in IF Async(r) THEN {"publish"} ELSE {"run", "fail"} : Goto(r, next)
    /\ UNCHANGED <<req, rowVars, issued, inflight, target, workVars, corpus, indexVars>>

\* _publish_async_ingest, by the creator or by a replay: the broker takes the message.
PublishTask(r) ==
    /\ rpc[r] \in {"publish", "republish"}
    /\ inflight[target[r]] < MaxCopies
    /\ inflight' = [inflight EXCEPT ![target[r]] = @ + 1]
    /\ Goto(r, IF rpc[r] = "publish" THEN "accepted" ELSE "replayed")
    /\ UNCHANGED <<req, rowVars, issued, target, workVars, corpus, docs, indexVars>>

\* The publish raises after its retries: 503, the row stays queued and ready.
\* The broker may hold the message all the same (a lost acknowledgement).
PublishTaskFails(r) ==
    /\ rpc[r] \in {"publish", "republish"}
    /\ \E stored \in {0, 1} :
          /\ inflight[target[r]] + stored <= MaxCopies
          /\ inflight' = [inflight EXCEPT ![target[r]] = @ + stored]
    /\ Goto(r, "unavailable")
    /\ UNCHANGED <<req, rowVars, issued, target, workVars, corpus, docs, indexVars>>

\* mark_job_running, whatever the status is (synchronous tenants).
MarkJobRunning(r) ==
    /\ rpc[r] = "run"
    /\ status' = [status EXCEPT ![r] = "running"]
    /\ started' = [started EXCEPT ![r] = TRUE]
    /\ since' = [since EXCEPT ![r] = IF started[r] THEN @ ELSE 0]
    /\ Goto(r, "build")
    /\ UNCHANGED <<req, ready, lease, left, bound, issued, inflight, target, workVars,
                   corpus, docs, indexVars>>

\* The active collection is switched to what the executor e of job j loaded.
SwitchIndex(e, j) ==
    LET t == req[j].tenant IN
    /\ log' = [log EXCEPT ![t] = Append(@, j)]
    /\ active' = [active EXCEPT ![t] = docs[e]]
    /\ receipt' = [receipt EXCEPT ![e] = Len(log[t]) + 1]

\* The documents are loaded again when categorisation did not deliver them.
ReloadDocs(r) ==
    /\ rpc[r] = "build"
    /\ docs[r] = None
    /\ docs' = [docs EXCEPT ![r] = corpus[req[r].tenant]]
    /\ UNCHANGED <<req, rowVars, issued, inflight, reqVars, workVars, corpus, indexVars>>

RebuildOk(r) ==
    /\ rpc[r] = "build"
    /\ docs[r] \notin {None, {}}
    /\ SwitchIndex(r, r)
    /\ Goto(r, "complete")
    /\ UNCHANGED <<req, rowVars, issued, inflight, target, workVars, corpus, docs>>

\* Mutant: a failed rebuild is swallowed.
AfterRebuildFails_Swallowed == "complete"

AfterRebuildFails == "fail"

\* The rebuild fails, before the switch or (retention) after it; or there is
\* nothing to load, to extract or to index with.
RebuildFails(r) ==
    /\ rpc[r] = "build"
    /\ \/ UNCHANGED indexVars
       \/ docs[r] \notin {None, {}} /\ SwitchIndex(r, r)
    /\ Goto(r, AfterRebuildFails)
    /\ UNCHANGED <<req, rowVars, issued, inflight, target, workVars, corpus, docs>>

\* Mutant: binds the generation the manifest has now.
BindValue_Current(e, j) == Len(log[req[j].tenant])

\* index_publication_bind_values: from the receipt of the executor's own build.
BindValue(e, j) == receipt[e]

\* mark_job_completed, whatever the status is.
MarkJobCompleted(r) ==
    /\ rpc[r] = "complete"
    /\ status' = [status EXCEPT ![r] = "completed"]
    /\ started' = [started EXCEPT ![r] = TRUE]
    /\ bound' = [bound EXCEPT ![r] = BindValue(r, r)]
    /\ Goto(r, "indexed")
    /\ UNCHANGED <<req, ready, since, lease, left, issued, inflight, target, workVars,
                   corpus, docs, indexVars>>

\* mark_job_failed, whatever the status is.
MarkJobFailed(r) ==
    /\ rpc[r] \in {"save_failed", "fail"}
    /\ status' = [status EXCEPT ![r] = "failed"]
    /\ started' = [started EXCEPT ![r] = TRUE]
    /\ Goto(r, IF rpc[r] = "fail" THEN "partial" ELSE "error")
    /\ UNCHANGED <<req, ready, since, lease, left, bound, issued, inflight, target, workVars,
                   corpus, docs, indexVars>>

\* The handler stops where it is and the row stays as it is: the API process
\* dies, or a transition of the row raises (a 500).
RequestDies(r) ==
    /\ rpc[r] \in RequestBusy \cup {"idle"}
    /\ Goto(r, "error")
    /\ UNCHANGED <<req, rowVars, issued, inflight, target, workVars, corpus, docs, indexVars>>

Upload(r) ==
    \/ CreateJob(r) \/ ReuseJob(r) \/ PlaceFile(r) \/ PlaceFileFails(r)
    \/ MarkSourceReady(r) \/ LoadForCategories(r) \/ PublishTask(r) \/ PublishTaskFails(r)
    \/ MarkJobRunning(r) \/ ReloadDocs(r) \/ RebuildOk(r) \/ RebuildFails(r)
    \/ MarkJobCompleted(r) \/ MarkJobFailed(r)

----------------------------------------------------------------------------
(* The Celery task.                                                        *)

\* The WHERE clause of the claim.
Claimable(j) == inflight[j] > 0 /\ status[j] = "queued"

\* The time the reaper will see left of a lease that is set now, by the worker's clock.
LeaseFor(o) == IF Lease + o > 0 THEN Lease + o ELSE 0

\* sync_claim_running: queued -> running with a fresh lease token, then the
\* heartbeat thread starts (it waits one interval before its first tick).
ClaimRunning(w) ==
    /\ wpc[w] = "idle"
    /\ \E j \in Jobs, o \in Offsets :
          /\ Claimable(j)
          /\ inflight' = [inflight EXCEPT ![j] = @ - 1]
          /\ issued' = issued + 1
          /\ status' = [status EXCEPT ![j] = "running"]
          /\ started' = [started EXCEPT ![j] = TRUE]
          /\ since' = [since EXCEPT ![j] = 0]
          /\ lease' = [lease EXCEPT ![j] = issued + 1]
          /\ left' = [left EXCEPT ![j] = LeaseFor(o)]
          /\ wjob' = [wjob EXCEPT ![w] = j]
          /\ wtok' = [wtok EXCEPT ![w] = issued + 1]
    /\ wpc' = [wpc EXCEPT ![w] = "pre_load"]
    /\ lost' = [lost EXCEPT ![w] = FALSE]
    /\ beat' = [beat EXCEPT ![w] = Heartbeat]
    /\ UNCHANGED <<req, ready, bound, reqVars, corpus, docs, indexVars>>

\* A message ends without a claim: the broker loses it, the worker dies with
\* it (tasks are acknowledged early), or the claim is refused or raises.
DropDelivery(j) ==
    /\ inflight[j] > 0
    /\ inflight' = [inflight EXCEPT ![j] = @ - 1]
    /\ UNCHANGED <<req, rowVars, issued, reqVars, workVars, corpus, docs, indexVars>>

\* sync_extend_lease by the owner: from now.
ExtendLease(w) == \E o \in Offsets : left' = [left EXCEPT ![wjob[w]] = LeaseFor(o)]

\* _require_live_lease: the worker goes on only if it can extend its lease.
RequireLiveLease(w) ==
    /\ wpc[w] \in Probing
    /\ ~lost[w] /\ Owns(w)
    /\ ExtendLease(w)
    /\ wpc' = [wpc EXCEPT ![w] = IF @ = "pre_load" THEN "load"
                                 ELSE IF @ = "pre_index" THEN "build" ELSE "complete"]
    /\ UNCHANGED <<req, status, ready, started, since, lease, bound, issued, inflight, reqVars,
                   wjob, wtok, lost, beat, corpus, docs, indexVars>>

\* The task loads the directory its file is in: the tenant's whole corpus.
LoadDocuments(w) ==
    /\ wpc[w] = "load"
    /\ corpus[req[wjob[w]].tenant] # {}
    /\ docs' = [docs EXCEPT ![w] = corpus[req[wjob[w]].tenant]]
    /\ wpc' = [wpc EXCEPT ![w] = "pre_index"]
    /\ UNCHANGED <<req, rowVars, issued, inflight, reqVars, wjob, wtok, lost, beat, corpus,
                   indexVars>>

BuildVectorStore(w) ==
    /\ wpc[w] = "build"
    /\ SwitchIndex(w, wjob[w])
    /\ wpc' = [wpc EXCEPT ![w] = "pre_complete"]
    /\ UNCHANGED <<req, rowVars, issued, inflight, reqVars, wjob, wtok, lost, beat, corpus, docs>>

\* The file is gone, nothing loads, or the build raises: before the switch or
\* (retention) after it.
WorkFails(w) ==
    /\ wpc[w] \in {"load", "build"}
    /\ \/ UNCHANGED indexVars
       \/ wpc[w] = "build" /\ SwitchIndex(w, wjob[w])
    /\ wpc' = [wpc EXCEPT ![w] = "failing"]
    /\ UNCHANGED <<req, rowVars, issued, inflight, reqVars, wjob, wtok, lost, beat, corpus, docs>>

\* The execution ends: its heartbeat stops and its local state is gone.
Leave(w) ==
    /\ wpc' = [wpc EXCEPT ![w] = "idle"]
    /\ wjob' = [wjob EXCEPT ![w] = None]
    /\ wtok' = [wtok EXCEPT ![w] = 0]
    /\ lost' = [lost EXCEPT ![w] = FALSE]
    /\ beat' = [beat EXCEPT ![w] = 0]
    /\ docs' = [docs EXCEPT ![w] = None]

\* Mutant: the terminal update only compares the row's identity.
MayFinish_AnyOwner(w) == TRUE

MayFinish(w) == Owns(w)

\* sync_mark_completed / sync_mark_failed: compare-and-set on the lease.
Finish(w, outcome) ==
    /\ MayFinish(w)
    /\ status' = [status EXCEPT ![wjob[w]] = outcome]
    /\ lease' = [lease EXCEPT ![wjob[w]] = 0]
    /\ left' = [left EXCEPT ![wjob[w]] = 0]

MarkCompleted(w) ==
    /\ wpc[w] = "complete"
    /\ Finish(w, "completed")
    /\ bound' = [bound EXCEPT ![wjob[w]] = BindValue(w, wjob[w])]
    /\ Leave(w)
    /\ receipt' = [receipt EXCEPT ![w] = 0]
    /\ UNCHANGED <<req, ready, started, since, issued, inflight, reqVars, corpus, log, active>>

MarkFailed(w) ==
    /\ wpc[w] = "failing"
    /\ Finish(w, "failed")
    /\ Leave(w)
    /\ receipt' = [receipt EXCEPT ![w] = 0]
    /\ UNCHANGED <<req, ready, started, since, bound, issued, inflight, reqVars, corpus, log, active>>

\* The execution ends and the row is not touched: the worker dies, the lease
\* is found lost (JobOwnershipError), or the database fails a probe or a
\* terminal transition.
AbandonWork(w) ==
    /\ Busy(w)
    /\ Leave(w)
    /\ receipt' = [receipt EXCEPT ![w] = 0]
    /\ UNCHANGED <<req, rowVars, issued, inflight, reqVars, corpus, log, active>>

\* JobLeaseHeartbeat: one tick of the background thread.
HeartbeatTick(w) ==
    /\ Busy(w) /\ ~lost[w] /\ beat[w] = 0
    /\ beat' = [beat EXCEPT ![w] = Heartbeat]
    /\ \/ Owns(w) /\ ExtendLease(w) /\ UNCHANGED lost
       \/ lost' = [lost EXCEPT ![w] = TRUE] /\ UNCHANGED left
    /\ UNCHANGED <<req, status, ready, started, since, lease, bound, issued, inflight, reqVars,
                   wpc, wjob, wtok, corpus, docs, indexVars>>

WorkStep(w) ==
    \/ RequireLiveLease(w) \/ LoadDocuments(w) \/ BuildVectorStore(w) \/ WorkFails(w)
    \/ MarkCompleted(w) \/ MarkFailed(w) \/ AbandonWork(w)

----------------------------------------------------------------------------
(* The reaper and the clock.                                               *)

\* Mutant: only rows whose source is ready are swept.
QueuedIsStale_ReadyOnly(j) == status[j] = "queued" /\ Async(j) /\ ready[j] /\ since[j] >= QueuedStale

QueuedIsStale(j) == status[j] = "queued" /\ Async(j) /\ since[j] >= QueuedStale

\* Mutant: off by one at the expiry.
LeaseExpired_Early(j) == status[j] = "running" /\ Async(j) /\ lease[j] # 0 /\ left[j] <= 1

LeaseExpired(j) == status[j] = "running" /\ Async(j) /\ lease[j] # 0 /\ left[j] = 0

LegacyRunning(j) == status[j] = "running" /\ Async(j) /\ lease[j] = 0 /\ since[j] >= LegacyStale

Stale(j) == QueuedIsStale(j) \/ LeaseExpired(j) \/ LegacyRunning(j)

\* One sweep, one transaction: every stale row fails and loses its lease.
ReapStaleJobs ==
    /\ \E j \in Jobs : Stale(j)
    /\ status' = [j \in Jobs |-> IF Stale(j) THEN "failed" ELSE status[j]]
    /\ lease' = [j \in Jobs |-> IF Stale(j) THEN 0 ELSE lease[j]]
    /\ left' = [j \in Jobs |-> IF Stale(j) THEN 0 ELSE left[j]]
    /\ UNCHANGED <<req, ready, started, since, bound, issued, inflight, reqVars, workVars,
                   corpus, docs, indexVars>>

BeatDue(w) == Busy(w) /\ ~lost[w] /\ beat[w] = 0

Less1(n) == IF n = 0 THEN 0 ELSE n - 1

\* Time passes on the reaper's clock and on the workers' timers alike.
Tick ==
    /\ Punctual => \A w \in Workers : ~BeatDue(w)
    /\ since' = [j \in Jobs |-> IF status[j] \in {"queued", "running"} /\ since[j] < StaleCap
                                THEN since[j] + 1 ELSE since[j]]
    /\ left' = [j \in Jobs |-> Less1(left[j])]
    /\ beat' = [w \in Workers |-> Less1(beat[w])]
    /\ UNCHANGED <<req, status, ready, started, lease, bound, issued, inflight, reqVars,
                   wpc, wjob, wtok, lost, corpus, docs, indexVars>>

Next ==
    \/ \E r \in Jobs : Upload(r) \/ RequestDies(r)
    \/ \E w \in Workers : ClaimRunning(w) \/ WorkStep(w) \/ HeartbeatTick(w)
    \/ \E j \in Jobs : DropDelivery(j)
    \/ ReapStaleJobs
    \/ Tick

\* Time passes, the reaper loop sweeps, and an execution that has begun takes
\* its next step or ends.  Nothing is assumed of uploads, of the broker or of
\* the heartbeat thread.
Fairness ==
    /\ WF_vars(Tick)
    /\ WF_vars(ReapStaleJobs)
    /\ \A w \in Workers : WF_vars(WorkStep(w))

Spec == Init /\ [][Next]_vars

FairSpec == Spec /\ Fairness

----------------------------------------------------------------------------
(* Properties.                                                             *)

RowTypeOK ==
    /\ status \in [Jobs -> Statuses]
    /\ ready \in [Jobs -> BOOLEAN]
    /\ started \in [Jobs -> BOOLEAN]
    /\ since \in [Jobs -> 0..StaleCap]
    /\ left \in [Jobs -> Nat]
    /\ bound \in [Jobs -> Nat]

LeaseTypeOK ==
    /\ issued \in Nat
    /\ lease \in [Jobs -> 0..issued]
    /\ wtok \in [Workers -> 0..issued]

RequestTypeOK ==
    /\ req \in [Jobs -> Requests]
    /\ inflight \in [Jobs -> 0..MaxCopies]
    /\ rpc \in [Jobs -> {"idle"} \cup RequestBusy \cup Answers]
    /\ target \in [Jobs -> Jobs]

WorkerTypeOK ==
    /\ wpc \in [Workers -> {"idle"} \cup WorkerBusy]
    /\ wjob \in [Workers -> Jobs \cup {None}]
    /\ lost \in [Workers -> BOOLEAN]
    /\ beat \in [Workers -> 0..Heartbeat]

IndexTypeOK ==
    /\ corpus \in [Tenants -> SUBSET Jobs]
    /\ docs \in [Executors -> (SUBSET Jobs) \cup {None}]
    /\ receipt \in [Executors -> Nat]
    /\ log \in [Tenants -> Seq(Jobs)]
    /\ active \in [Tenants -> SUBSET Jobs]

\* Every variable has its type; a lease token is never one not yet drawn.
TypeOK == RowTypeOK /\ LeaseTypeOK /\ RequestTypeOK /\ WorkerTypeOK /\ IndexTypeOK

\* However often a job's message is published, duplicated or delivered, and
\* whoever races for it, its build switches the index at most once: the claim
\* of ingest_document admits one execution per job, for good.
NoDoublePublish ==
    \A t \in Tenants : \A i, k \in 1..Len(log[t]) : log[t][i] = log[t][k] => i = k

\* A completed job's index_manifest_generation is the generation that this
\* job's own build published, never one of a concurrent build.
CompletedBindsOwnGeneration ==
    \A j \in Jobs : status[j] = "completed" =>
        LET t == req[j].tenant IN bound[j] \in 1..Len(log[t]) /\ log[t][bound[j]] = j

\* No message and no execution exists for a job whose source bytes are not
\* durably placed: a replay never publishes what its creator has not finished.
OnlyReadyJobsAreDelivered ==
    /\ \A j \in Jobs : inflight[j] > 0 => ready[j]
    /\ \A w \in Workers : Busy(w) => ready[wjob[w]]

\* What holds of the rows, whatever is duplicated, lost, raced for or crashes: they keep their
\* types, one build per job, a job's own binding, and nothing delivered without its source.
JobSafety ==
    TypeOK /\ NoDoublePublish /\ CompletedBindsOwnGeneration /\ OnlyReadyJobsAreDelivered

\* Two uploads under one tenant's Idempotency-Key that were both taken name
\* one job and carry one payload.
OneJobPerKey ==
    \A r, s \in Jobs :
        /\ {rpc[r], rpc[s]} \subseteq {"accepted", "replayed", "indexed"}
        /\ req[r].tenant = req[s].tenant
        /\ req[r].key = req[s].key /\ req[r].key # NoKey
        => target[r] = target[s] /\ req[r].payload = req[s].payload

\* A terminal row never changes its outcome or its index binding, although
\* the upload handler's transitions do not look at the status.
TerminalIsFinal ==
    [][\A j \in Jobs : status[j] \in Terminal =>
           status'[j] = status[j] /\ bound'[j] = bound[j]]_vars

\* The lease outlasts the heartbeat interval by more than a worker's clock is ever behind.
ClocksFit == \A o \in Offsets : Heartbeat < Lease + o

\* A worker that beats on time and has not lost its lease is never reaped, as long as the
\* clocks of its host and of the reaper's are not further apart than lease and heartbeat
\* leave room for: the inclusive expiry test has no window.
OwnerIsNotReaped ==
    Punctual /\ ClocksFit => \A w \in Workers : Busy(w) /\ ~lost[w] => Owns(w) /\ left[wjob[w]] > 0

\* Every asynchronous job ends completed or failed, through crashes of its
\* upload and its worker, lost messages and lost leases.
AsyncJobTerminates ==
    \A j \in Jobs : (Exists(j) /\ Async(j)) ~> (status[j] \in Terminal)

\* The rows and the index, seen as the job contract sees them.
Lifecycle == INSTANCE JobLifecycle WITH
    state <- status,
    effect <- [j \in Jobs |-> \E i \in 1..Len(log[req[j].tenant]) : log[req[j].tenant][i] = j]

\* The handlers, workers and reaper together implement the job contract of
\* JobLifecycle: forward status moves, one ending, one switch of the index.
ImplementsLifecycle == Lifecycle!Spec

\* The claim of _require_live_lease and of the comment on pre_index: the
\* index is not switched by a worker whose lease was cleared.
NoZombiePublish ==
    [][\A w \in Workers : wpc[w] = "build" /\ log' # log /\ wpc'[w] # wpc[w] => Owns(w)]_vars

\* The answer "File uploaded and indexed.": when a job becomes completed, its
\* document is in the active index, unless a same-name upload replaced it.
CompletedIsIndexed ==
    [][\A j \in Jobs : status'[j] = "completed" /\ status[j] # "completed"
           /\ j \in corpus[req[j].tenant] => j \in active[req[j].tenant]]_vars
=============================================================================
