------------------------ MODULE IngestionJobs_proofs ------------------------
(***************************************************************************)
(* Theorems about IngestionJobs, for any set of jobs, workers and tenants  *)
(* and any lease, heartbeat and stale intervals.                           *)
(***************************************************************************)
EXTENDS IngestionJobs, TLAPS

\* On the log of one tenant: j occurs in it; j is its entry g; no entry occurs twice.
Occurs(s, j) == \E i \in 1..Len(s) : s[i] = j

Entry(s, g, j) == g \in 1..Len(s) /\ s[g] = j

Distinct(s) == \A i, k \in 1..Len(s) : s[i] = s[k] => i = k

\* Some build of job j has switched the index of its tenant.
InLog(j) == Occurs(log[req[j].tenant], j)

\* Generation g of j's tenant was published by a build of j.
Published(j, g) == Entry(log[req[j].tenant], g, j)

\* A task execution that has claimed a job and not built yet.
NotBuilt == {"pre_load", "load", "pre_index", "build"}

\* What a task execution holds: an asynchronous job that was claimed, and
\* the documents it loaded when it comes to the build.
WorkerHolds ==
    \A w \in Workers :
        /\ Busy(w) => /\ wjob[w] \in Jobs
                      /\ Async(wjob[w])
                      /\ ready[wjob[w]]
                      /\ status[wjob[w]] \in {"running", "completed", "failed"}
        /\ wpc[w] \in {"pre_index", "build"} => docs[w] \in SUBSET Jobs

OneWorkerPerJob ==
    \A v, w \in Workers : Busy(v) /\ Busy(w) /\ v # w => wjob[v] # wjob[w]

\* What the upload handler may rely on, at each of its places.
HandlerControl ==
    \A r \in Jobs :
        /\ rpc[r] = "idle" => status[r] = "absent"
        /\ rpc[r] \in {"place", "save_failed", "mark_ready"} =>
              ~ready[r] /\ (status[r] = "queued" \/ (status[r] = "failed" /\ Async(r)))
        /\ rpc[r] = "load" => ready[r] /\ (Async(r) \/ status[r] = "queued")
        /\ rpc[r] = "publish" => ready[r] /\ Async(r)
        /\ rpc[r] = "republish" => ready[target[r]] /\ Async(target[r])
        /\ rpc[r] = "run" => ~Async(r) /\ status[r] = "queued"
        /\ rpc[r] \in {"build", "complete"} => ~Async(r) /\ status[r] = "running"
        /\ rpc[r] = "fail" => ~Async(r) /\ status[r] \in {"queued", "running"}
        /\ rpc[r] \in {"idle"} \cup (RequestBusy \ {"republish"}) => target[r] = r

\* A message, and a source that is ready, belong to a row that exists.
Delivered ==
    \A j \in Jobs : /\ inflight[j] > 0 => ready[j] /\ Async(j)
                    /\ ready[j] => status[j] # "absent"

\* A build that is still to come has not switched the index before.
PublishOnce ==
    /\ \A j \in Jobs : InLog(j) => status[j] \notin {"absent", "queued"}
    /\ \A w \in Workers : wpc[w] \in NotBuilt => ~InLog(wjob[w])
    /\ \A r \in Jobs : rpc[r] = "build" => ~InLog(r)

\* The receipt an executor is about to record is of its own build.
OwnReceipt ==
    /\ \A w \in Workers : wpc[w] \in {"pre_complete", "complete"} => Published(wjob[w], receipt[w])
    /\ \A r \in Jobs : rpc[r] = "complete" => Published(r, receipt[r])

\* CompletedBindsOwnGeneration, in terms of Published.
OwnBinding == \A j \in Jobs : status[j] = "completed" => Published(j, bound[j])

ControlInv == WorkerHolds /\ OneWorkerPerJob /\ HandlerControl /\ Delivered

LogInv == PublishOnce /\ OwnReceipt /\ NoDoublePublish /\ OwnBinding

IInv == TypeOK /\ ControlInv /\ LogInv

----------------------------------------------------------------------------
(* Types.                                                                  *)

\* A switch of the index keeps the types of what it writes.
LEMMA SwitchIndexType ==
  ASSUME TypeOK, NEW j \in Jobs, NEW e \in Executors, docs[e] \in SUBSET Jobs, SwitchIndex(e, j)
  PROVE  /\ log' \in [Tenants -> Seq(Jobs)]
         /\ active' \in [Tenants -> SUBSET Jobs]
         /\ receipt' \in [Executors -> Nat]
  BY ConstantsAssumption DEF SwitchIndex, TypeOK, RequestTypeOK, IndexTypeOK

\* What is left of a lease that is set now is a time.
LEMMA LeaseForType == \A o \in Offsets : LeaseFor(o) \in Nat
  BY ConstantsAssumption DEF LeaseFor

\* The row part of TypeOK is kept by every step.
LEMMA RowType ==
  ASSUME TypeOK, WorkerHolds, [Next]_vars
  PROVE  RowTypeOK'
  <1>1. ASSUME NEW r \in Jobs, CreateJob(r) PROVE RowTypeOK'
    BY <1>1, ConstantsAssumption
    DEF CreateJob, Goto, workVars, indexVars, TypeOK, RowTypeOK, Statuses, StaleCap
  <1>2. ASSUME NEW r \in Jobs, MarkSourceReady(r) PROVE RowTypeOK'
    BY <1>2, ConstantsAssumption
    DEF MarkSourceReady, Goto, workVars, indexVars, TypeOK, RowTypeOK, Statuses,
        StaleCap
  <1>3. ASSUME NEW r \in Jobs, MarkJobRunning(r) PROVE RowTypeOK'
    BY <1>3, ConstantsAssumption
    DEF MarkJobRunning, Goto, workVars, indexVars, TypeOK, RowTypeOK, Statuses, StaleCap
  <1>4. ASSUME NEW r \in Jobs, MarkJobCompleted(r) PROVE RowTypeOK'
    BY <1>4, ConstantsAssumption
    DEF MarkJobCompleted, Goto, BindValue, workVars, indexVars, TypeOK, RowTypeOK,
        Statuses, StaleCap, IndexTypeOK, Executors
  <1>5. ASSUME NEW r \in Jobs, MarkJobFailed(r) PROVE RowTypeOK'
    BY <1>5, ConstantsAssumption
    DEF MarkJobFailed, Goto, workVars, indexVars, TypeOK, RowTypeOK, Statuses, StaleCap
  <1>6. ASSUME NEW w \in Workers, ClaimRunning(w) PROVE RowTypeOK'
    BY <1>6, LeaseForType, ConstantsAssumption
    DEF ClaimRunning, Claimable, reqVars, indexVars, TypeOK, RowTypeOK, Statuses,
        StaleCap
  <1>7. ASSUME NEW w \in Workers, RequireLiveLease(w) PROVE RowTypeOK'
    <2>1. /\ \E n \in Nat : left' = [left EXCEPT ![wjob[w]] = n]
          /\ UNCHANGED <<status, ready, started, since, bound>>
      BY <1>7, LeaseForType DEF RequireLiveLease, ExtendLease
    <2>2. wjob[w] \in Jobs /\ receipt[w] \in Nat
      BY <1>7
      DEF WorkerHolds, Busy, WorkerBusy, Probing, RequireLiveLease, TypeOK, IndexTypeOK, Executors
    <2>3. QED
      BY <2>1, <2>2, ConstantsAssumption DEF TypeOK, RowTypeOK, Statuses
  <1>8. ASSUME NEW w \in Workers, MarkCompleted(w) PROVE RowTypeOK'
    <2>1. /\ left' = [left EXCEPT ![wjob[w]] = 0]
          /\ status' = [status EXCEPT ![wjob[w]] = "completed"]
          /\ bound' = [bound EXCEPT ![wjob[w]] = receipt[w]]
          /\ UNCHANGED <<ready, started, since>>
      BY <1>8 DEF MarkCompleted, Finish, BindValue
    <2>2. wjob[w] \in Jobs /\ receipt[w] \in Nat
      BY <1>8
      DEF WorkerHolds, Busy, WorkerBusy, Probing, MarkCompleted, TypeOK, IndexTypeOK, Executors
    <2>3. QED
      BY <2>1, <2>2, ConstantsAssumption DEF TypeOK, RowTypeOK, Statuses
  <1>9. ASSUME NEW w \in Workers, MarkFailed(w) PROVE RowTypeOK'
    <2>1. /\ left' = [left EXCEPT ![wjob[w]] = 0]
          /\ status' = [status EXCEPT ![wjob[w]] = "failed"]
          /\ UNCHANGED <<ready, started, since, bound>>
      BY <1>9 DEF MarkFailed, Finish
    <2>2. wjob[w] \in Jobs /\ receipt[w] \in Nat
      BY <1>9
      DEF WorkerHolds, Busy, WorkerBusy, Probing, MarkFailed, TypeOK, IndexTypeOK, Executors
    <2>3. QED
      BY <2>1, <2>2, ConstantsAssumption DEF TypeOK, RowTypeOK, Statuses
  <1>10. ASSUME NEW w \in Workers, HeartbeatTick(w) PROVE RowTypeOK'
    <2>1. /\ (\E n \in Nat : left' = [left EXCEPT ![wjob[w]] = n]) \/ UNCHANGED left
          /\ UNCHANGED <<status, ready, started, since, bound>>
      BY <1>10, LeaseForType DEF HeartbeatTick, ExtendLease
    <2>2. wjob[w] \in Jobs
      BY <1>10 DEF HeartbeatTick, WorkerHolds
    <2>3. QED
      BY <2>1, <2>2, ConstantsAssumption DEF TypeOK, RowTypeOK
  <1>11. CASE ReapStaleJobs
    BY <1>11, ConstantsAssumption
    DEF ReapStaleJobs, reqVars, workVars, indexVars, TypeOK, RowTypeOK, Statuses,
        StaleCap
  <1>12. CASE Tick
    <2>1. since' \in [Jobs -> 0..StaleCap]
      BY <1>12, ConstantsAssumption DEF Tick, TypeOK, RowTypeOK, StaleCap
    <2>2. left' \in [Jobs -> Nat]
      BY <1>12, ConstantsAssumption DEF Tick, Less1, TypeOK, RowTypeOK
    <2>3. UNCHANGED <<status, ready, started, bound>>
      BY <1>12 DEF Tick
    <2>4. QED
      BY <2>1, <2>2, <2>3 DEF TypeOK, RowTypeOK
  <1>13. CASE
         \/ \E r \in Jobs : ReuseJob(r) \/ PlaceFile(r) \/ PlaceFileFails(r) \/
                LoadForCategories(r) \/ PublishTask(r) \/ PublishTaskFails(r) \/
                ReloadDocs(r) \/ RebuildOk(r) \/ RebuildFails(r) \/ RequestDies(r)
         \/ \E w \in Workers : LoadDocuments(w) \/ BuildVectorStore(w) \/ WorkFails(w) \/
                AbandonWork(w)
         \/ \E j \in Jobs : DropDelivery(j)
         \/ UNCHANGED vars
    BY <1>13
    DEF ReuseJob, PlaceFile, PlaceFileFails, LoadForCategories, PublishTask,
        PublishTaskFails, ReloadDocs, RebuildOk, RebuildFails, RequestDies,
        LoadDocuments, BuildVectorStore, WorkFails, AbandonWork, DropDelivery, vars,
        rowVars, reqVars, workVars, indexVars, TypeOK, RowTypeOK
  <1>14. QED
    BY <1>1, <1>2, <1>3, <1>4, <1>5, <1>6, <1>7, <1>8, <1>9, <1>10, <1>11, <1>12, <1>13
    DEF Next, Upload, WorkStep

\* The lease part of TypeOK is kept by every step.
LEMMA LeaseType ==
  ASSUME TypeOK, WorkerHolds, [Next]_vars
  PROVE  LeaseTypeOK'
  <1>1. ASSUME NEW w \in Workers, ClaimRunning(w) PROVE LeaseTypeOK'
    BY <1>1, ConstantsAssumption
    DEF ClaimRunning, Claimable, reqVars, indexVars, TypeOK, LeaseTypeOK
  <1>2. ASSUME NEW w \in Workers, MarkCompleted(w) PROVE LeaseTypeOK'
    <2>1. /\ lease' = [lease EXCEPT ![wjob[w]] = 0]
          /\ wtok' = [wtok EXCEPT ![w] = 0] /\ UNCHANGED issued
      BY <1>2 DEF MarkCompleted, Leave, Finish
    <2>2. wjob[w] \in Jobs /\ receipt[w] \in Nat
      BY <1>2
      DEF WorkerHolds, Busy, WorkerBusy, Probing, MarkCompleted, TypeOK, IndexTypeOK, Executors
    <2>3. QED
      BY <2>1, <2>2, ConstantsAssumption DEF TypeOK, LeaseTypeOK, Statuses
  <1>3. ASSUME NEW w \in Workers, MarkFailed(w) PROVE LeaseTypeOK'
    <2>1. /\ lease' = [lease EXCEPT ![wjob[w]] = 0]
          /\ wtok' = [wtok EXCEPT ![w] = 0] /\ UNCHANGED issued
      BY <1>3 DEF MarkFailed, Leave, Finish
    <2>2. wjob[w] \in Jobs /\ receipt[w] \in Nat
      BY <1>3
      DEF WorkerHolds, Busy, WorkerBusy, Probing, MarkFailed, TypeOK, IndexTypeOK, Executors
    <2>3. QED
      BY <2>1, <2>2, ConstantsAssumption DEF TypeOK, LeaseTypeOK, Statuses
  <1>4. ASSUME NEW w \in Workers, AbandonWork(w) PROVE LeaseTypeOK'
    BY <1>4, ConstantsAssumption
    DEF AbandonWork, Leave, rowVars, reqVars, TypeOK, LeaseTypeOK
  <1>5. CASE ReapStaleJobs
    BY <1>5, ConstantsAssumption
    DEF ReapStaleJobs, reqVars, workVars, indexVars, TypeOK, LeaseTypeOK
  <1>6. CASE
         \/ \E r \in Jobs : CreateJob(r) \/ ReuseJob(r) \/ PlaceFile(r) \/
                PlaceFileFails(r) \/ MarkSourceReady(r) \/ LoadForCategories(r) \/
                PublishTask(r) \/ PublishTaskFails(r) \/ MarkJobRunning(r) \/
                ReloadDocs(r) \/ RebuildOk(r) \/ RebuildFails(r) \/ MarkJobCompleted(r) \/
                MarkJobFailed(r) \/ RequestDies(r)
         \/ \E j \in Jobs : DropDelivery(j)
         \/ Tick \/ UNCHANGED vars
    <2>1. UNCHANGED <<issued, lease, wtok>>
      BY <1>6
      DEF CreateJob, ReuseJob, PlaceFile, PlaceFileFails, MarkSourceReady,
          LoadForCategories, PublishTask, PublishTaskFails, MarkJobRunning, ReloadDocs,
          RebuildOk, RebuildFails, MarkJobCompleted, MarkJobFailed, RequestDies,
          DropDelivery, Tick, vars, rowVars, workVars
    <2>2. QED
      BY <2>1 DEF TypeOK, LeaseTypeOK
  <1>7. CASE
         \E w \in Workers : RequireLiveLease(w) \/ LoadDocuments(w) \/
                BuildVectorStore(w) \/ WorkFails(w) \/ HeartbeatTick(w)
    <2>1. UNCHANGED <<issued, lease, wtok>>
      BY <1>7
      DEF RequireLiveLease, LoadDocuments, BuildVectorStore, WorkFails, HeartbeatTick,
          rowVars, workVars
    <2>2. QED
      BY <2>1 DEF TypeOK, LeaseTypeOK
  <1>8. QED
    BY <1>1, <1>2, <1>3, <1>4, <1>5, <1>6, <1>7
    DEF Next, Upload, WorkStep

\* The request part of TypeOK is kept by every step.
LEMMA RequestType ==
  ASSUME TypeOK, WorkerHolds, [Next]_vars
  PROVE  RequestTypeOK'
  <1>1. ASSUME NEW r \in Jobs, CreateJob(r) PROVE RequestTypeOK'
    BY <1>1, ConstantsAssumption
    DEF CreateJob, Goto, workVars, indexVars, TypeOK, RequestTypeOK, RequestBusy,
        Answers
  <1>2. ASSUME NEW r \in Jobs, ReuseJob(r) PROVE RequestTypeOK'
    <2>1. PICK j \in KeyHolder(r) :
             IF SamePayload(r, j)
             THEN /\ target' = [target EXCEPT ![r] = j]
                  /\ Goto(r, IF Republishable(j) THEN "republish" ELSE "replayed")
             ELSE Goto(r, "conflict") /\ UNCHANGED target
      BY <1>2 DEF ReuseJob
    <2>2. j \in Jobs /\ UNCHANGED <<req, inflight>>
      BY <1>2 DEF ReuseJob, KeyHolder
    <2>3. CASE SamePayload(r, j)
      BY <2>1, <2>2, <2>3 DEF TypeOK, RequestTypeOK, Goto, RequestBusy, Answers
    <2>4. CASE ~SamePayload(r, j)
      BY <2>1, <2>2, <2>4 DEF TypeOK, RequestTypeOK, Goto, RequestBusy, Answers
    <2>5. QED
      BY <2>3, <2>4
  <1>3. ASSUME NEW r \in Jobs, PlaceFile(r) PROVE RequestTypeOK'
    BY <1>3, ConstantsAssumption
    DEF PlaceFile, Goto, rowVars, workVars, indexVars, TypeOK, RequestTypeOK,
        RequestBusy, Answers
  <1>4. ASSUME NEW r \in Jobs, PlaceFileFails(r) PROVE RequestTypeOK'
    BY <1>4, ConstantsAssumption
    DEF PlaceFileFails, Goto, rowVars, workVars, indexVars, TypeOK, RequestTypeOK,
        RequestBusy, Answers
  <1>5. ASSUME NEW r \in Jobs, MarkSourceReady(r) PROVE RequestTypeOK'
    BY <1>5, ConstantsAssumption
    DEF MarkSourceReady, Goto, workVars, indexVars, TypeOK, RequestTypeOK, RequestBusy,
        Answers
  <1>6. ASSUME NEW r \in Jobs, LoadForCategories(r) PROVE RequestTypeOK'
    BY <1>6, ConstantsAssumption
    DEF LoadForCategories, Goto, rowVars, workVars, indexVars, TypeOK, RequestTypeOK,
        RequestBusy, Answers
  <1>7. ASSUME NEW r \in Jobs, PublishTask(r) PROVE RequestTypeOK'
    BY <1>7, ConstantsAssumption
    DEF PublishTask, Goto, rowVars, workVars, indexVars, TypeOK, RequestTypeOK,
        RequestBusy, Answers
  <1>8. ASSUME NEW r \in Jobs, PublishTaskFails(r) PROVE RequestTypeOK'
    BY <1>8, ConstantsAssumption
    DEF PublishTaskFails, Goto, rowVars, workVars, indexVars, TypeOK, RequestTypeOK,
        RequestBusy, Answers
  <1>9. ASSUME NEW r \in Jobs, MarkJobRunning(r) PROVE RequestTypeOK'
    BY <1>9, ConstantsAssumption
    DEF MarkJobRunning, Goto, workVars, indexVars, TypeOK, RequestTypeOK, RequestBusy,
        Answers
  <1>10. ASSUME NEW r \in Jobs, RebuildOk(r) PROVE RequestTypeOK'
    BY <1>10, ConstantsAssumption
    DEF RebuildOk, Goto, SwitchIndex, rowVars, workVars, TypeOK, RequestTypeOK,
        RequestBusy, Answers
  <1>11. ASSUME NEW r \in Jobs, RebuildFails(r) PROVE RequestTypeOK'
    BY <1>11, ConstantsAssumption
    DEF RebuildFails, Goto, SwitchIndex, AfterRebuildFails, rowVars, workVars,
        indexVars, TypeOK, RequestTypeOK, RequestBusy, Answers
  <1>12. ASSUME NEW r \in Jobs, MarkJobCompleted(r) PROVE RequestTypeOK'
    BY <1>12, ConstantsAssumption
    DEF MarkJobCompleted, Goto, BindValue, workVars, indexVars, TypeOK, RequestTypeOK,
        RequestBusy, Answers
  <1>13. ASSUME NEW r \in Jobs, MarkJobFailed(r) PROVE RequestTypeOK'
    BY <1>13, ConstantsAssumption
    DEF MarkJobFailed, Goto, workVars, indexVars, TypeOK, RequestTypeOK, RequestBusy,
        Answers
  <1>14. ASSUME NEW r \in Jobs, RequestDies(r) PROVE RequestTypeOK'
    BY <1>14, ConstantsAssumption
    DEF RequestDies, Goto, rowVars, workVars, indexVars, TypeOK, RequestTypeOK,
        RequestBusy, Answers
  <1>15. ASSUME NEW w \in Workers, ClaimRunning(w) PROVE RequestTypeOK'
    BY <1>15, ConstantsAssumption
    DEF ClaimRunning, Claimable, reqVars, indexVars, TypeOK, RequestTypeOK, RequestBusy,
        Answers
  <1>16. ASSUME NEW j \in Jobs, DropDelivery(j) PROVE RequestTypeOK'
    BY <1>16, ConstantsAssumption
    DEF DropDelivery, rowVars, reqVars, workVars, indexVars, TypeOK, RequestTypeOK,
        RequestBusy, Answers
  <1>17. CASE
         \/ \E r \in Jobs : ReloadDocs(r)
         \/ \E w \in Workers : RequireLiveLease(w) \/ LoadDocuments(w) \/
                BuildVectorStore(w) \/ WorkFails(w) \/ MarkCompleted(w) \/ MarkFailed(w)
                \/ AbandonWork(w) \/ HeartbeatTick(w)
         \/ ReapStaleJobs \/ Tick \/ UNCHANGED vars
    BY <1>17
    DEF ReloadDocs, RequireLiveLease, LoadDocuments, BuildVectorStore, WorkFails,
        MarkCompleted, MarkFailed, AbandonWork, HeartbeatTick, ReapStaleJobs, Tick,
        vars, rowVars, reqVars, workVars, indexVars, TypeOK, RequestTypeOK
  <1>18. QED
    BY <1>1, <1>2, <1>3, <1>4, <1>5, <1>6, <1>7, <1>8, <1>9, <1>10, <1>11, <1>12, <1>13, <1>14, <1>15, <1>16, <1>17
    DEF Next, Upload, WorkStep

\* The worker part of TypeOK is kept by every step.
LEMMA WorkerType ==
  ASSUME TypeOK, WorkerHolds, [Next]_vars
  PROVE  WorkerTypeOK'
  <1>1. ASSUME NEW w \in Workers, ClaimRunning(w) PROVE WorkerTypeOK'
    BY <1>1, ConstantsAssumption
    DEF ClaimRunning, Claimable, reqVars, indexVars, TypeOK, WorkerTypeOK, WorkerBusy,
        Probing
  <1>2. ASSUME NEW w \in Workers, RequireLiveLease(w) PROVE WorkerTypeOK'
    BY <1>2, ConstantsAssumption
    DEF RequireLiveLease, ExtendLease, reqVars, indexVars, Owns, Probing, TypeOK,
        WorkerTypeOK, WorkerBusy
  <1>3. ASSUME NEW w \in Workers, LoadDocuments(w) PROVE WorkerTypeOK'
    BY <1>3, ConstantsAssumption
    DEF LoadDocuments, rowVars, reqVars, indexVars, TypeOK, WorkerTypeOK, WorkerBusy,
        Probing
  <1>4. ASSUME NEW w \in Workers, BuildVectorStore(w) PROVE WorkerTypeOK'
    BY <1>4, ConstantsAssumption
    DEF BuildVectorStore, SwitchIndex, rowVars, reqVars, TypeOK, WorkerTypeOK,
        WorkerBusy, Probing
  <1>5. ASSUME NEW w \in Workers, WorkFails(w) PROVE WorkerTypeOK'
    BY <1>5, ConstantsAssumption
    DEF WorkFails, SwitchIndex, rowVars, reqVars, indexVars, TypeOK, WorkerTypeOK,
        WorkerBusy, Probing
  <1>6. ASSUME NEW w \in Workers, MarkCompleted(w) PROVE WorkerTypeOK'
    BY <1>6, ConstantsAssumption
    DEF MarkCompleted, BindValue, Leave, Finish, reqVars, MayFinish, Owns, TypeOK,
        WorkerTypeOK, WorkerBusy, Probing
  <1>7. ASSUME NEW w \in Workers, MarkFailed(w) PROVE WorkerTypeOK'
    BY <1>7, ConstantsAssumption
    DEF MarkFailed, Leave, Finish, reqVars, MayFinish, Owns, TypeOK, WorkerTypeOK,
        WorkerBusy, Probing
  <1>8. ASSUME NEW w \in Workers, AbandonWork(w) PROVE WorkerTypeOK'
    BY <1>8, ConstantsAssumption
    DEF AbandonWork, Leave, rowVars, reqVars, TypeOK, WorkerTypeOK, WorkerBusy, Probing
  <1>9. ASSUME NEW w \in Workers, HeartbeatTick(w) PROVE WorkerTypeOK'
    <2>1. lost' \in [Workers -> BOOLEAN]
      BY <1>9 DEF HeartbeatTick, TypeOK, WorkerTypeOK
    <2>2. beat' = [beat EXCEPT ![w] = Heartbeat] /\ UNCHANGED <<wpc, wjob>>
      BY <1>9 DEF HeartbeatTick
    <2>3. QED
      BY <2>1, <2>2, ConstantsAssumption DEF TypeOK, WorkerTypeOK
  <1>10. CASE Tick
    BY <1>10, ConstantsAssumption
    DEF Tick, Less1, reqVars, indexVars, TypeOK, WorkerTypeOK, WorkerBusy, Probing
  <1>11. CASE
         \/ \E r \in Jobs : CreateJob(r) \/ ReuseJob(r) \/ PlaceFile(r) \/
                PlaceFileFails(r) \/ MarkSourceReady(r) \/ LoadForCategories(r) \/
                PublishTask(r) \/ PublishTaskFails(r) \/ MarkJobRunning(r) \/
                ReloadDocs(r) \/ RebuildOk(r) \/ RebuildFails(r) \/ MarkJobCompleted(r) \/
                MarkJobFailed(r) \/ RequestDies(r)
         \/ \E j \in Jobs : DropDelivery(j)
         \/ ReapStaleJobs \/ UNCHANGED vars
    BY <1>11
    DEF CreateJob, ReuseJob, PlaceFile, PlaceFileFails, MarkSourceReady,
        LoadForCategories, PublishTask, PublishTaskFails, MarkJobRunning, ReloadDocs,
        RebuildOk, RebuildFails, MarkJobCompleted, MarkJobFailed, RequestDies,
        DropDelivery, ReapStaleJobs, vars, rowVars, reqVars, workVars, indexVars,
        TypeOK, WorkerTypeOK
  <1>12. QED
    BY <1>1, <1>2, <1>3, <1>4, <1>5, <1>6, <1>7, <1>8, <1>9, <1>10, <1>11
    DEF Next, Upload, WorkStep

\* The index part of TypeOK is kept by every step.
LEMMA IndexType ==
  ASSUME TypeOK, WorkerHolds, [Next]_vars
  PROVE  IndexTypeOK'
  <1>1. ASSUME NEW r \in Jobs, PlaceFile(r) PROVE IndexTypeOK'
    BY <1>1, ConstantsAssumption
    DEF PlaceFile, Goto, rowVars, workVars, indexVars, TypeOK, IndexTypeOK, Executors,
        RequestTypeOK, WorkerHolds, Busy, WorkerBusy, Probing, WorkerTypeOK
  <1>2. ASSUME NEW r \in Jobs, LoadForCategories(r) PROVE IndexTypeOK'
    BY <1>2, ConstantsAssumption
    DEF LoadForCategories, Goto, rowVars, workVars, indexVars, TypeOK, IndexTypeOK,
        Executors, RequestTypeOK, WorkerHolds, Busy, WorkerBusy, Probing, WorkerTypeOK
  <1>3. ASSUME NEW r \in Jobs, ReloadDocs(r) PROVE IndexTypeOK'
    BY <1>3, ConstantsAssumption
    DEF ReloadDocs, rowVars, reqVars, workVars, indexVars, TypeOK, IndexTypeOK,
        Executors, RequestTypeOK, WorkerHolds, Busy, WorkerBusy, Probing, WorkerTypeOK
  <1>4. ASSUME NEW r \in Jobs, RebuildOk(r) PROVE IndexTypeOK'
    <2>1. UNCHANGED <<corpus, docs>>
      BY <1>4 DEF RebuildOk
    <2>2. CASE docs[r] \notin {None, {}} /\ SwitchIndex(r, r)
      <3>1. r \in Jobs /\ r \in Executors /\ docs[r] \in SUBSET Jobs
        BY <1>4, <2>2 DEF TypeOK, IndexTypeOK, Executors, WorkerHolds, Busy, WorkerBusy, Probing
      <3>2. QED
        BY <2>1, <2>2, <3>1, SwitchIndexType DEF TypeOK, IndexTypeOK
    <2>3. CASE UNCHANGED indexVars
      BY <2>1, <2>3 DEF TypeOK, IndexTypeOK, indexVars
    <2>4. QED
      BY <1>4, <2>2, <2>3 DEF RebuildOk
  <1>5. ASSUME NEW r \in Jobs, RebuildFails(r) PROVE IndexTypeOK'
    <2>1. UNCHANGED <<corpus, docs>>
      BY <1>5 DEF RebuildFails
    <2>2. CASE docs[r] \notin {None, {}} /\ SwitchIndex(r, r)
      <3>1. r \in Jobs /\ r \in Executors /\ docs[r] \in SUBSET Jobs
        BY <1>5, <2>2 DEF TypeOK, IndexTypeOK, Executors, WorkerHolds, Busy, WorkerBusy, Probing
      <3>2. QED
        BY <2>1, <2>2, <3>1, SwitchIndexType DEF TypeOK, IndexTypeOK
    <2>3. CASE UNCHANGED indexVars
      BY <2>1, <2>3 DEF TypeOK, IndexTypeOK, indexVars
    <2>4. QED
      BY <1>5, <2>2, <2>3 DEF RebuildFails
  <1>6. ASSUME NEW w \in Workers, LoadDocuments(w) PROVE IndexTypeOK'
    BY <1>6, ConstantsAssumption
    DEF LoadDocuments, rowVars, reqVars, indexVars, TypeOK, IndexTypeOK, Executors,
        RequestTypeOK, WorkerHolds, Busy, WorkerBusy, Probing, WorkerTypeOK
  <1>7. ASSUME NEW w \in Workers, BuildVectorStore(w) PROVE IndexTypeOK'
    <2>1. UNCHANGED <<corpus, docs>>
      BY <1>7 DEF BuildVectorStore
    <2>2. CASE wpc[w] = "build" /\ SwitchIndex(w, wjob[w])
      <3>1. wjob[w] \in Jobs /\ w \in Executors /\ docs[w] \in SUBSET Jobs
        BY <1>7, <2>2 DEF TypeOK, IndexTypeOK, Executors, WorkerHolds, Busy, WorkerBusy, Probing
      <3>2. QED
        BY <2>1, <2>2, <3>1, SwitchIndexType DEF TypeOK, IndexTypeOK
    <2>3. CASE UNCHANGED indexVars
      BY <2>1, <2>3 DEF TypeOK, IndexTypeOK, indexVars
    <2>4. QED
      BY <1>7, <2>2, <2>3 DEF BuildVectorStore
  <1>8. ASSUME NEW w \in Workers, WorkFails(w) PROVE IndexTypeOK'
    <2>1. UNCHANGED <<corpus, docs>>
      BY <1>8 DEF WorkFails
    <2>2. CASE wpc[w] = "build" /\ SwitchIndex(w, wjob[w])
      <3>1. wjob[w] \in Jobs /\ w \in Executors /\ docs[w] \in SUBSET Jobs
        BY <1>8, <2>2 DEF TypeOK, IndexTypeOK, Executors, WorkerHolds, Busy, WorkerBusy, Probing
      <3>2. QED
        BY <2>1, <2>2, <3>1, SwitchIndexType DEF TypeOK, IndexTypeOK
    <2>3. CASE UNCHANGED indexVars
      BY <2>1, <2>3 DEF TypeOK, IndexTypeOK, indexVars
    <2>4. QED
      BY <1>8, <2>2, <2>3 DEF WorkFails
  <1>9. ASSUME NEW w \in Workers, MarkCompleted(w) PROVE IndexTypeOK'
    BY <1>9, ConstantsAssumption
    DEF MarkCompleted, BindValue, Leave, Finish, reqVars, MayFinish, Owns, TypeOK,
        IndexTypeOK, Executors, RequestTypeOK, WorkerHolds, Busy, WorkerBusy, Probing,
        WorkerTypeOK
  <1>10. ASSUME NEW w \in Workers, MarkFailed(w) PROVE IndexTypeOK'
    BY <1>10, ConstantsAssumption
    DEF MarkFailed, Leave, Finish, reqVars, MayFinish, Owns, TypeOK, IndexTypeOK,
        Executors, RequestTypeOK, WorkerHolds, Busy, WorkerBusy, Probing, WorkerTypeOK
  <1>11. ASSUME NEW w \in Workers, AbandonWork(w) PROVE IndexTypeOK'
    BY <1>11, ConstantsAssumption
    DEF AbandonWork, Leave, rowVars, reqVars, TypeOK, IndexTypeOK, Executors,
        RequestTypeOK, WorkerHolds, Busy, WorkerBusy, Probing, WorkerTypeOK
  <1>12. CASE
         \/ \E r \in Jobs : CreateJob(r) \/ ReuseJob(r) \/ PlaceFileFails(r) \/
                MarkSourceReady(r) \/ PublishTask(r) \/ PublishTaskFails(r) \/
                MarkJobRunning(r) \/ MarkJobCompleted(r) \/ MarkJobFailed(r) \/
                RequestDies(r)
         \/ \E w \in Workers : ClaimRunning(w) \/ RequireLiveLease(w) \/ HeartbeatTick(w)
         \/ \E j \in Jobs : DropDelivery(j)
         \/ ReapStaleJobs \/ Tick \/ UNCHANGED vars
    BY <1>12
    DEF CreateJob, ReuseJob, PlaceFileFails, MarkSourceReady, PublishTask,
        PublishTaskFails, MarkJobRunning, MarkJobCompleted, MarkJobFailed, RequestDies,
        ClaimRunning, RequireLiveLease, HeartbeatTick, DropDelivery, ReapStaleJobs,
        Tick, vars, rowVars, reqVars, workVars, indexVars, TypeOK, IndexTypeOK
  <1>13. QED
    BY <1>1, <1>2, <1>3, <1>4, <1>5, <1>6, <1>7, <1>8, <1>9, <1>10, <1>11, <1>12
    DEF Next, Upload, WorkStep

----------------------------------------------------------------------------
(* Control.                                                                *)

\* What a task execution holds is kept by every step.
LEMMA WorkerHoldsStep ==
  ASSUME TypeOK, ControlInv, [Next]_vars
  PROVE  WorkerHolds'
  <1>1. ASSUME NEW r \in Jobs, CreateJob(r) PROVE WorkerHolds'
    BY <1>1
    DEF CreateJob, Goto, workVars, indexVars, TypeOK, RowTypeOK, RequestTypeOK,
        WorkerTypeOK, Statuses, Async, ControlInv, WorkerHolds, Busy, WorkerBusy,
        Probing, IndexTypeOK, Executors, HandlerControl, RequestBusy, Delivered
  <1>2. ASSUME NEW r \in Jobs, MarkSourceReady(r) PROVE WorkerHolds'
    <2>1. /\ \A j \in Jobs : ready[j] => ready'[j]
          /\ UNCHANGED <<req, status, wpc, wjob, docs>>
      BY <1>2 DEF MarkSourceReady, workVars, TypeOK, RowTypeOK
    <2>2. QED
      BY <2>1 DEF ControlInv, WorkerHolds, Busy, Async
  <1>3. ASSUME NEW r \in Jobs, LoadForCategories(r) PROVE WorkerHolds'
    BY SMTT(60), <1>3, ConstantsAssumption
    DEF LoadForCategories, Goto, rowVars, workVars, indexVars, TypeOK, RowTypeOK,
        RequestTypeOK, WorkerTypeOK, Statuses, Async, ControlInv, WorkerHolds, Busy,
        WorkerBusy, Probing, IndexTypeOK, Executors, HandlerControl, RequestBusy,
        Delivered
  <1>4. ASSUME NEW r \in Jobs, MarkJobRunning(r) PROVE WorkerHolds'
    BY <1>4
    DEF MarkJobRunning, Goto, workVars, indexVars, TypeOK, RowTypeOK, RequestTypeOK,
        WorkerTypeOK, Statuses, Async, ControlInv, WorkerHolds, Busy, WorkerBusy,
        Probing, IndexTypeOK, Executors, HandlerControl, RequestBusy, Delivered
  <1>5. ASSUME NEW r \in Jobs, ReloadDocs(r) PROVE WorkerHolds'
    BY SMTT(60), <1>5, ConstantsAssumption
    DEF ReloadDocs, rowVars, reqVars, workVars, indexVars, TypeOK, RowTypeOK,
        RequestTypeOK, WorkerTypeOK, Statuses, Async, ControlInv, WorkerHolds, Busy,
        WorkerBusy, Probing, IndexTypeOK, Executors, HandlerControl, RequestBusy,
        Delivered
  <1>6. ASSUME NEW r \in Jobs, MarkJobCompleted(r) PROVE WorkerHolds'
    BY <1>6
    DEF MarkJobCompleted, Goto, BindValue, workVars, indexVars, TypeOK, RowTypeOK,
        RequestTypeOK, WorkerTypeOK, Statuses, Async, ControlInv, WorkerHolds, Busy,
        WorkerBusy, Probing, IndexTypeOK, Executors, HandlerControl, RequestBusy,
        Delivered
  <1>7. ASSUME NEW r \in Jobs, MarkJobFailed(r) PROVE WorkerHolds'
    BY <1>7
    DEF MarkJobFailed, Goto, workVars, indexVars, TypeOK, RowTypeOK, RequestTypeOK,
        WorkerTypeOK, Statuses, Async, ControlInv, WorkerHolds, Busy, WorkerBusy,
        Probing, IndexTypeOK, Executors, HandlerControl, RequestBusy, Delivered
  <1>8. ASSUME NEW w \in Workers, ClaimRunning(w) PROVE WorkerHolds'
    BY <1>8
    DEF ClaimRunning, Claimable, reqVars, indexVars, TypeOK, RowTypeOK, RequestTypeOK,
        WorkerTypeOK, Statuses, Async, ControlInv, WorkerHolds, Busy, WorkerBusy,
        Probing, IndexTypeOK, Executors, HandlerControl, RequestBusy, Delivered
  <1>9. ASSUME NEW w \in Workers, RequireLiveLease(w) PROVE WorkerHolds'
    BY <1>9
    DEF RequireLiveLease, ExtendLease, reqVars, indexVars, Owns, Probing, TypeOK,
        RowTypeOK, RequestTypeOK, WorkerTypeOK, Statuses, Async, ControlInv,
        WorkerHolds, Busy, WorkerBusy, IndexTypeOK, Executors, HandlerControl,
        RequestBusy, Delivered
  <1>10. ASSUME NEW w \in Workers, LoadDocuments(w) PROVE WorkerHolds'
    BY SMTT(60), <1>10, ConstantsAssumption
    DEF LoadDocuments, rowVars, reqVars, indexVars, TypeOK, RowTypeOK, RequestTypeOK,
        WorkerTypeOK, Statuses, Async, ControlInv, WorkerHolds, Busy, WorkerBusy,
        Probing, IndexTypeOK, Executors, HandlerControl, RequestBusy, Delivered
  <1>11. ASSUME NEW w \in Workers, BuildVectorStore(w) PROVE WorkerHolds'
    BY <1>11
    DEF BuildVectorStore, SwitchIndex, rowVars, reqVars, TypeOK, RowTypeOK,
        RequestTypeOK, WorkerTypeOK, Statuses, Async, ControlInv, WorkerHolds, Busy,
        WorkerBusy, Probing, IndexTypeOK, Executors, HandlerControl, RequestBusy,
        Delivered
  <1>12. ASSUME NEW w \in Workers, WorkFails(w) PROVE WorkerHolds'
    <2>1. /\ UNCHANGED <<req, status, ready, wjob, docs>>
          /\ wpc[w] \in {"load", "build"} /\ wpc' = [wpc EXCEPT ![w] = "failing"]
      BY <1>12 DEF WorkFails, rowVars
    <2>2. \A v \in Workers : wpc'[v] = IF v = w THEN "failing" ELSE wpc[v]
      BY <2>1 DEF TypeOK, WorkerTypeOK
    <2>3. \A v \in Workers : /\ Busy(v)' => Busy(v)
                             /\ wpc'[v] \in {"pre_index", "build"} => wpc[v] \in {"pre_index", "build"}
      BY <2>1, <2>2 DEF Busy, WorkerBusy
    <2>4. QED
      BY <2>1, <2>3 DEF ControlInv, WorkerHolds, Async
  <1>13. ASSUME NEW w \in Workers, MarkCompleted(w) PROVE WorkerHolds'
    BY <1>13
    DEF MarkCompleted, BindValue, Leave, Finish, reqVars, MayFinish, Owns, TypeOK,
        RowTypeOK, RequestTypeOK, WorkerTypeOK, Statuses, Async, ControlInv,
        WorkerHolds, Busy, WorkerBusy, Probing, IndexTypeOK, Executors, HandlerControl,
        RequestBusy, Delivered
  <1>14. ASSUME NEW w \in Workers, MarkFailed(w) PROVE WorkerHolds'
    BY <1>14
    DEF MarkFailed, Leave, Finish, reqVars, MayFinish, Owns, TypeOK, RowTypeOK,
        RequestTypeOK, WorkerTypeOK, Statuses, Async, ControlInv, WorkerHolds, Busy,
        WorkerBusy, Probing, IndexTypeOK, Executors, HandlerControl, RequestBusy,
        Delivered
  <1>15. ASSUME NEW w \in Workers, AbandonWork(w) PROVE WorkerHolds'
    BY <1>15
    DEF AbandonWork, Leave, rowVars, reqVars, TypeOK, RowTypeOK, RequestTypeOK,
        WorkerTypeOK, Statuses, Async, ControlInv, WorkerHolds, Busy, WorkerBusy,
        Probing, IndexTypeOK, Executors, HandlerControl, RequestBusy, Delivered
  <1>16. CASE ReapStaleJobs
    BY <1>16
    DEF ReapStaleJobs, reqVars, workVars, indexVars, Stale, QueuedIsStale, LeaseExpired,
        LegacyRunning, TypeOK, RowTypeOK, RequestTypeOK, WorkerTypeOK, Statuses, Async,
        ControlInv, WorkerHolds, Busy, WorkerBusy, Probing, IndexTypeOK, Executors,
        HandlerControl, RequestBusy, Delivered
  <1>17. CASE
         \/ \E r \in Jobs : ReuseJob(r) \/ PlaceFile(r) \/ PlaceFileFails(r) \/
                PublishTask(r) \/ PublishTaskFails(r) \/ RebuildOk(r) \/ RebuildFails(r)
                \/ RequestDies(r)
         \/ \E w \in Workers : HeartbeatTick(w)
         \/ \E j \in Jobs : DropDelivery(j)
         \/ Tick \/ UNCHANGED vars
    BY <1>17
    DEF ReuseJob, PlaceFile, PlaceFileFails, PublishTask, PublishTaskFails, RebuildOk,
        RebuildFails, RequestDies, HeartbeatTick, DropDelivery, Tick, vars, rowVars,
        reqVars, workVars, indexVars, ControlInv, WorkerHolds, Busy, Async
  <1>18. QED
    BY <1>1, <1>2, <1>3, <1>4, <1>5, <1>6, <1>7, <1>8, <1>9, <1>10, <1>11, <1>12, <1>13, <1>14, <1>15, <1>16, <1>17
    DEF Next, Upload, WorkStep

\* Two executions never come to hold one job: a claim takes a queued row.
LEMMA OneWorkerPerJobStep ==
  ASSUME TypeOK, ControlInv, [Next]_vars
  PROVE  OneWorkerPerJob'
  <1>1. ASSUME NEW w \in Workers, ClaimRunning(w) PROVE OneWorkerPerJob'
    BY <1>1
    DEF ClaimRunning, Claimable, reqVars, indexVars, TypeOK, RowTypeOK, RequestTypeOK,
        WorkerTypeOK, Statuses, Async, ControlInv, OneWorkerPerJob, WorkerHolds, Busy,
        WorkerBusy, Probing
  <1>2. ASSUME NEW w \in Workers, RequireLiveLease(w) PROVE OneWorkerPerJob'
    BY <1>2
    DEF RequireLiveLease, ExtendLease, reqVars, indexVars, Owns, Probing, TypeOK,
        RowTypeOK, RequestTypeOK, WorkerTypeOK, Statuses, Async, ControlInv,
        OneWorkerPerJob, WorkerHolds, Busy, WorkerBusy
  <1>3. ASSUME NEW w \in Workers, LoadDocuments(w) PROVE OneWorkerPerJob'
    BY <1>3
    DEF LoadDocuments, rowVars, reqVars, indexVars, TypeOK, RowTypeOK, RequestTypeOK,
        WorkerTypeOK, Statuses, Async, ControlInv, OneWorkerPerJob, WorkerHolds, Busy,
        WorkerBusy, Probing
  <1>4. ASSUME NEW w \in Workers, BuildVectorStore(w) PROVE OneWorkerPerJob'
    BY <1>4
    DEF BuildVectorStore, SwitchIndex, rowVars, reqVars, TypeOK, RowTypeOK,
        RequestTypeOK, WorkerTypeOK, Statuses, Async, ControlInv, OneWorkerPerJob,
        WorkerHolds, Busy, WorkerBusy, Probing
  <1>5. ASSUME NEW w \in Workers, WorkFails(w) PROVE OneWorkerPerJob'
    BY <1>5
    DEF WorkFails, SwitchIndex, rowVars, reqVars, indexVars, TypeOK, RowTypeOK,
        RequestTypeOK, WorkerTypeOK, Statuses, Async, ControlInv, OneWorkerPerJob,
        WorkerHolds, Busy, WorkerBusy, Probing
  <1>6. ASSUME NEW w \in Workers, MarkCompleted(w) PROVE OneWorkerPerJob'
    BY <1>6
    DEF MarkCompleted, BindValue, Leave, Finish, reqVars, MayFinish, Owns, TypeOK,
        RowTypeOK, RequestTypeOK, WorkerTypeOK, Statuses, Async, ControlInv,
        OneWorkerPerJob, WorkerHolds, Busy, WorkerBusy, Probing
  <1>7. ASSUME NEW w \in Workers, MarkFailed(w) PROVE OneWorkerPerJob'
    BY <1>7
    DEF MarkFailed, Leave, Finish, reqVars, MayFinish, Owns, TypeOK, RowTypeOK,
        RequestTypeOK, WorkerTypeOK, Statuses, Async, ControlInv, OneWorkerPerJob,
        WorkerHolds, Busy, WorkerBusy, Probing
  <1>8. ASSUME NEW w \in Workers, AbandonWork(w) PROVE OneWorkerPerJob'
    BY <1>8
    DEF AbandonWork, Leave, rowVars, reqVars, TypeOK, RowTypeOK, RequestTypeOK,
        WorkerTypeOK, Statuses, Async, ControlInv, OneWorkerPerJob, WorkerHolds, Busy,
        WorkerBusy, Probing
  <1>9. CASE
         \/ \E r \in Jobs : CreateJob(r) \/ ReuseJob(r) \/ PlaceFile(r) \/
                PlaceFileFails(r) \/ MarkSourceReady(r) \/ LoadForCategories(r) \/
                PublishTask(r) \/ PublishTaskFails(r) \/ MarkJobRunning(r) \/
                ReloadDocs(r) \/ RebuildOk(r) \/ RebuildFails(r) \/ MarkJobCompleted(r) \/
                MarkJobFailed(r) \/ RequestDies(r)
         \/ \E w \in Workers : HeartbeatTick(w)
         \/ \E j \in Jobs : DropDelivery(j)
         \/ ReapStaleJobs \/ Tick \/ UNCHANGED vars
    <2>1. UNCHANGED <<wpc, wjob>>
      BY <1>9
      DEF CreateJob, ReuseJob, PlaceFile, PlaceFileFails, MarkSourceReady,
          LoadForCategories, PublishTask, PublishTaskFails, MarkJobRunning, ReloadDocs,
          RebuildOk, RebuildFails, MarkJobCompleted, MarkJobFailed, RequestDies,
          HeartbeatTick, DropDelivery, ReapStaleJobs, Tick, vars, workVars
    <2>2. QED
      BY <2>1 DEF ControlInv, OneWorkerPerJob, Busy
  <1>10. QED
    BY <1>1, <1>2, <1>3, <1>4, <1>5, <1>6, <1>7, <1>8, <1>9
    DEF Next, Upload, WorkStep

\* What the upload handler relies on is kept by every step.
LEMMA HandlerControlStep ==
  ASSUME TypeOK, ControlInv, [Next]_vars
  PROVE  HandlerControl'
  <1>1. ASSUME NEW r \in Jobs, CreateJob(r) PROVE HandlerControl'
    BY <1>1
    DEF CreateJob, Goto, workVars, indexVars, TypeOK, RowTypeOK, RequestTypeOK,
        WorkerTypeOK, Statuses, Async, ControlInv, HandlerControl, Delivered,
        WorkerHolds, Busy, WorkerBusy, Probing, RequestBusy
  <1>2. ASSUME NEW r \in Jobs, ReuseJob(r) PROVE HandlerControl'
    BY <1>2
    DEF ReuseJob, Goto, rowVars, workVars, indexVars, KeyHolder, SamePayload,
        Republishable, Exists, TypeOK, RowTypeOK, RequestTypeOK, WorkerTypeOK, Statuses,
        Async, ControlInv, HandlerControl, Delivered, WorkerHolds, Busy, WorkerBusy,
        Probing, RequestBusy
  <1>3. ASSUME NEW r \in Jobs, PlaceFile(r) PROVE HandlerControl'
    BY <1>3
    DEF PlaceFile, Goto, rowVars, workVars, indexVars, TypeOK, RowTypeOK, RequestTypeOK,
        WorkerTypeOK, Statuses, Async, ControlInv, HandlerControl, Delivered,
        WorkerHolds, Busy, WorkerBusy, Probing, RequestBusy
  <1>4. ASSUME NEW r \in Jobs, PlaceFileFails(r) PROVE HandlerControl'
    BY <1>4
    DEF PlaceFileFails, Goto, rowVars, workVars, indexVars, TypeOK, RowTypeOK,
        RequestTypeOK, WorkerTypeOK, Statuses, Async, ControlInv, HandlerControl,
        Delivered, WorkerHolds, Busy, WorkerBusy, Probing, RequestBusy
  <1>5. ASSUME NEW r \in Jobs, MarkSourceReady(r) PROVE HandlerControl'
    BY <1>5
    DEF MarkSourceReady, Goto, workVars, indexVars, TypeOK, RowTypeOK, RequestTypeOK,
        WorkerTypeOK, Statuses, Async, ControlInv, HandlerControl, Delivered,
        WorkerHolds, Busy, WorkerBusy, Probing, RequestBusy
  <1>6. ASSUME NEW r \in Jobs, LoadForCategories(r) PROVE HandlerControl'
    BY <1>6
    DEF LoadForCategories, Goto, rowVars, workVars, indexVars, TypeOK, RowTypeOK,
        RequestTypeOK, WorkerTypeOK, Statuses, Async, ControlInv, HandlerControl,
        Delivered, WorkerHolds, Busy, WorkerBusy, Probing, RequestBusy
  <1>7. ASSUME NEW r \in Jobs, PublishTask(r) PROVE HandlerControl'
    BY <1>7
    DEF PublishTask, Goto, rowVars, workVars, indexVars, TypeOK, RowTypeOK,
        RequestTypeOK, WorkerTypeOK, Statuses, Async, ControlInv, HandlerControl,
        Delivered, WorkerHolds, Busy, WorkerBusy, Probing, RequestBusy
  <1>8. ASSUME NEW r \in Jobs, PublishTaskFails(r) PROVE HandlerControl'
    BY <1>8
    DEF PublishTaskFails, Goto, rowVars, workVars, indexVars, TypeOK, RowTypeOK,
        RequestTypeOK, WorkerTypeOK, Statuses, Async, ControlInv, HandlerControl,
        Delivered, WorkerHolds, Busy, WorkerBusy, Probing, RequestBusy
  <1>9. ASSUME NEW r \in Jobs, MarkJobRunning(r) PROVE HandlerControl'
    BY <1>9
    DEF MarkJobRunning, Goto, workVars, indexVars, TypeOK, RowTypeOK, RequestTypeOK,
        WorkerTypeOK, Statuses, Async, ControlInv, HandlerControl, Delivered,
        WorkerHolds, Busy, WorkerBusy, Probing, RequestBusy
  <1>10. ASSUME NEW r \in Jobs, RebuildOk(r) PROVE HandlerControl'
    BY <1>10
    DEF RebuildOk, Goto, SwitchIndex, rowVars, workVars, TypeOK, RowTypeOK,
        RequestTypeOK, WorkerTypeOK, Statuses, Async, ControlInv, HandlerControl,
        Delivered, WorkerHolds, Busy, WorkerBusy, Probing, RequestBusy
  <1>11. ASSUME NEW r \in Jobs, RebuildFails(r) PROVE HandlerControl'
    BY <1>11
    DEF RebuildFails, Goto, SwitchIndex, AfterRebuildFails, rowVars, workVars,
        indexVars, TypeOK, RowTypeOK, RequestTypeOK, WorkerTypeOK, Statuses, Async,
        ControlInv, HandlerControl, Delivered, WorkerHolds, Busy, WorkerBusy, Probing,
        RequestBusy
  <1>12. ASSUME NEW r \in Jobs, MarkJobCompleted(r) PROVE HandlerControl'
    BY <1>12
    DEF MarkJobCompleted, Goto, BindValue, workVars, indexVars, TypeOK, RowTypeOK,
        RequestTypeOK, WorkerTypeOK, Statuses, Async, ControlInv, HandlerControl,
        Delivered, WorkerHolds, Busy, WorkerBusy, Probing, RequestBusy
  <1>13. ASSUME NEW r \in Jobs, MarkJobFailed(r) PROVE HandlerControl'
    BY <1>13
    DEF MarkJobFailed, Goto, workVars, indexVars, TypeOK, RowTypeOK, RequestTypeOK,
        WorkerTypeOK, Statuses, Async, ControlInv, HandlerControl, Delivered,
        WorkerHolds, Busy, WorkerBusy, Probing, RequestBusy
  <1>14. ASSUME NEW r \in Jobs, RequestDies(r) PROVE HandlerControl'
    BY <1>14
    DEF RequestDies, Goto, rowVars, workVars, indexVars, TypeOK, RowTypeOK,
        RequestTypeOK, WorkerTypeOK, Statuses, Async, ControlInv, HandlerControl,
        Delivered, WorkerHolds, Busy, WorkerBusy, Probing, RequestBusy
  <1>15. ASSUME NEW w \in Workers, ClaimRunning(w) PROVE HandlerControl'
    BY <1>15
    DEF ClaimRunning, Claimable, reqVars, indexVars, TypeOK, RowTypeOK, RequestTypeOK,
        WorkerTypeOK, Statuses, Async, ControlInv, HandlerControl, Delivered,
        WorkerHolds, Busy, WorkerBusy, Probing, RequestBusy
  <1>16. ASSUME NEW w \in Workers, MarkCompleted(w) PROVE HandlerControl'
    BY <1>16
    DEF MarkCompleted, BindValue, Leave, Finish, reqVars, MayFinish, Owns, TypeOK,
        RowTypeOK, RequestTypeOK, WorkerTypeOK, Statuses, Async, ControlInv,
        HandlerControl, Delivered, WorkerHolds, Busy, WorkerBusy, Probing, RequestBusy
  <1>17. ASSUME NEW w \in Workers, MarkFailed(w) PROVE HandlerControl'
    BY <1>17
    DEF MarkFailed, Leave, Finish, reqVars, MayFinish, Owns, TypeOK, RowTypeOK,
        RequestTypeOK, WorkerTypeOK, Statuses, Async, ControlInv, HandlerControl,
        Delivered, WorkerHolds, Busy, WorkerBusy, Probing, RequestBusy
  <1>18. CASE ReapStaleJobs
    BY <1>18
    DEF ReapStaleJobs, reqVars, workVars, indexVars, Stale, QueuedIsStale, LeaseExpired,
        LegacyRunning, TypeOK, RowTypeOK, RequestTypeOK, WorkerTypeOK, Statuses, Async,
        ControlInv, HandlerControl, Delivered, WorkerHolds, Busy, WorkerBusy, Probing,
        RequestBusy
  <1>19. CASE
         \/ \E r \in Jobs : ReloadDocs(r)
         \/ \E w \in Workers : RequireLiveLease(w) \/ LoadDocuments(w) \/
                BuildVectorStore(w) \/ WorkFails(w) \/ AbandonWork(w) \/ HeartbeatTick(w)
         \/ \E j \in Jobs : DropDelivery(j)
         \/ Tick \/ UNCHANGED vars
    BY <1>19
    DEF ReloadDocs, RequireLiveLease, LoadDocuments, BuildVectorStore, WorkFails,
        AbandonWork, HeartbeatTick, DropDelivery, Tick, vars, rowVars, reqVars,
        workVars, indexVars, ControlInv, HandlerControl, Busy, Async
  <1>20. QED
    BY <1>1, <1>2, <1>3, <1>4, <1>5, <1>6, <1>7, <1>8, <1>9, <1>10, <1>11, <1>12, <1>13, <1>14, <1>15, <1>16, <1>17, <1>18, <1>19
    DEF Next, Upload, WorkStep

\* Messages stay with ready, asynchronous rows.
LEMMA DeliveredStep ==
  ASSUME TypeOK, ControlInv, [Next]_vars
  PROVE  Delivered'
  <1>1. ASSUME NEW r \in Jobs, CreateJob(r) PROVE Delivered'
    BY <1>1
    DEF CreateJob, Goto, workVars, indexVars, TypeOK, RowTypeOK, RequestTypeOK,
        WorkerTypeOK, Statuses, Async, ControlInv, Delivered, HandlerControl,
        RequestBusy
  <1>2. ASSUME NEW r \in Jobs, MarkSourceReady(r) PROVE Delivered'
    BY <1>2
    DEF MarkSourceReady, Goto, workVars, indexVars, TypeOK, RowTypeOK, RequestTypeOK,
        WorkerTypeOK, Statuses, Async, ControlInv, Delivered, HandlerControl,
        RequestBusy
  <1>3. ASSUME NEW r \in Jobs, PublishTask(r) PROVE Delivered'
    BY <1>3
    DEF PublishTask, Goto, rowVars, workVars, indexVars, TypeOK, RowTypeOK,
        RequestTypeOK, WorkerTypeOK, Statuses, Async, ControlInv, Delivered,
        HandlerControl, RequestBusy
  <1>4. ASSUME NEW r \in Jobs, PublishTaskFails(r) PROVE Delivered'
    BY <1>4
    DEF PublishTaskFails, Goto, rowVars, workVars, indexVars, TypeOK, RowTypeOK,
        RequestTypeOK, WorkerTypeOK, Statuses, Async, ControlInv, Delivered,
        HandlerControl, RequestBusy
  <1>5. ASSUME NEW r \in Jobs, MarkJobRunning(r) PROVE Delivered'
    BY <1>5
    DEF MarkJobRunning, Goto, workVars, indexVars, TypeOK, RowTypeOK, RequestTypeOK,
        WorkerTypeOK, Statuses, Async, ControlInv, Delivered, HandlerControl,
        RequestBusy
  <1>6. ASSUME NEW r \in Jobs, MarkJobCompleted(r) PROVE Delivered'
    BY <1>6
    DEF MarkJobCompleted, Goto, BindValue, workVars, indexVars, TypeOK, RowTypeOK,
        RequestTypeOK, WorkerTypeOK, Statuses, Async, ControlInv, Delivered,
        HandlerControl, RequestBusy
  <1>7. ASSUME NEW r \in Jobs, MarkJobFailed(r) PROVE Delivered'
    BY <1>7
    DEF MarkJobFailed, Goto, workVars, indexVars, TypeOK, RowTypeOK, RequestTypeOK,
        WorkerTypeOK, Statuses, Async, ControlInv, Delivered, HandlerControl,
        RequestBusy
  <1>8. ASSUME NEW w \in Workers, ClaimRunning(w) PROVE Delivered'
    BY <1>8
    DEF ClaimRunning, Claimable, reqVars, indexVars, TypeOK, RowTypeOK, RequestTypeOK,
        WorkerTypeOK, Statuses, Async, ControlInv, Delivered, HandlerControl,
        RequestBusy
  <1>9. ASSUME NEW w \in Workers, MarkCompleted(w) PROVE Delivered'
    BY <1>9
    DEF MarkCompleted, BindValue, Leave, Finish, reqVars, MayFinish, Owns, TypeOK,
        RowTypeOK, RequestTypeOK, WorkerTypeOK, Statuses, Async, ControlInv, Delivered,
        HandlerControl, RequestBusy
  <1>10. ASSUME NEW w \in Workers, MarkFailed(w) PROVE Delivered'
    BY <1>10
    DEF MarkFailed, Leave, Finish, reqVars, MayFinish, Owns, TypeOK, RowTypeOK,
        RequestTypeOK, WorkerTypeOK, Statuses, Async, ControlInv, Delivered,
        HandlerControl, RequestBusy
  <1>11. ASSUME NEW j \in Jobs, DropDelivery(j) PROVE Delivered'
    BY <1>11
    DEF DropDelivery, rowVars, reqVars, workVars, indexVars, TypeOK, RowTypeOK,
        RequestTypeOK, WorkerTypeOK, Statuses, Async, ControlInv, Delivered,
        HandlerControl, RequestBusy
  <1>12. CASE ReapStaleJobs
    BY <1>12
    DEF ReapStaleJobs, reqVars, workVars, indexVars, Stale, QueuedIsStale, LeaseExpired,
        LegacyRunning, TypeOK, RowTypeOK, RequestTypeOK, WorkerTypeOK, Statuses, Async,
        ControlInv, Delivered, HandlerControl, RequestBusy
  <1>13. CASE
         \/ \E r \in Jobs : ReuseJob(r) \/ PlaceFile(r) \/ PlaceFileFails(r) \/
                LoadForCategories(r) \/ ReloadDocs(r) \/ RebuildOk(r) \/ RebuildFails(r)
                \/ RequestDies(r)
         \/ \E w \in Workers : RequireLiveLease(w) \/ LoadDocuments(w) \/
                BuildVectorStore(w) \/ WorkFails(w) \/ AbandonWork(w) \/ HeartbeatTick(w)
         \/ Tick \/ UNCHANGED vars
    BY <1>13
    DEF ReuseJob, PlaceFile, PlaceFileFails, LoadForCategories, ReloadDocs, RebuildOk,
        RebuildFails, RequestDies, RequireLiveLease, LoadDocuments, BuildVectorStore,
        WorkFails, AbandonWork, HeartbeatTick, Tick, vars, rowVars, reqVars, workVars,
        indexVars, ControlInv, Delivered, Busy, Async
  <1>14. QED
    BY <1>1, <1>2, <1>3, <1>4, <1>5, <1>6, <1>7, <1>8, <1>9, <1>10, <1>11, <1>12, <1>13
    DEF Next, Upload, WorkStep

----------------------------------------------------------------------------
(* The log of published generations.                                       *)

\* What occurs in a log after an append is what did and what was appended.
LEMMA AppendOccurs ==
  ASSUME NEW S, NEW s \in Seq(S), NEW j \in S, NEW k
  PROVE  Occurs(Append(s, j), k) <=> Occurs(s, k) \/ k = j
  BY DEF Occurs

\* Appending keeps the entries a log has, and adds one at its end.
LEMMA AppendEntry ==
  ASSUME NEW S, NEW s \in Seq(S), NEW j \in S
  PROVE  /\ \A g, k : Entry(s, g, k) => Entry(Append(s, j), g, k)
         /\ Entry(Append(s, j), Len(s) + 1, j)
  BY DEF Entry

\* A log without repetitions stays so when what is appended is not in it.
LEMMA AppendDistinct ==
  ASSUME NEW S, NEW s \in Seq(S), NEW j \in S, Distinct(s), ~Occurs(s, j)
  PROVE  Distinct(Append(s, j))
  BY DEF Distinct, Occurs

\* A switch of the index by executor e of job j, seen in the log.
LEMMA SwitchLog ==
  ASSUME TypeOK, NEW j \in Jobs, NEW e \in Executors, SwitchIndex(e, j), UNCHANGED req
  PROVE  /\ \A k \in Jobs : InLog(k)' <=> InLog(k) \/ k = j
         /\ \A k \in Jobs, g \in Nat : Published(k, g) => Entry(log'[req[k].tenant], g, k)
         /\ Entry(log'[req[j].tenant], receipt'[e], j)
         /\ ~InLog(j) /\ NoDoublePublish => NoDoublePublish'
  <1> DEFINE t == req[j].tenant
  <1>1. t \in Tenants /\ \A k \in Jobs : req[k].tenant \in Tenants
    BY ConstantsAssumption DEF TypeOK, RequestTypeOK
  <1>2. /\ log[t] \in Seq(Jobs)
        /\ log' = [log EXCEPT ![t] = Append(log[t], j)]
        /\ receipt'[e] = Len(log[t]) + 1
        /\ log \in [Tenants -> Seq(Jobs)]
    BY <1>1 DEF TypeOK, IndexTypeOK, SwitchIndex
  <1>3. \A k \in Jobs : InLog(k)' <=> InLog(k) \/ k = j
    <2>1. TAKE k \in Jobs
    <2>2. InLog(k)' <=> Occurs(log'[req[k].tenant], k)
      BY DEF InLog
    <2>3. CASE req[k].tenant = t
      BY <1>1, <1>2, <2>2, <2>3, AppendOccurs DEF InLog
    <2>4. CASE req[k].tenant # t
      BY <1>1, <1>2, <2>2, <2>4 DEF InLog
    <2>5. QED
      BY <2>3, <2>4
  <1>4. \A k \in Jobs, g \in Nat : Published(k, g) => Entry(log'[req[k].tenant], g, k)
    <2>1. TAKE k \in Jobs, g \in Nat
    <2>3. CASE req[k].tenant = t
      BY <1>1, <1>2,  <2>3, AppendEntry DEF Published
    <2>4. CASE req[k].tenant # t
      BY <1>1, <1>2,  <2>4 DEF Published
    <2>5. QED
      BY <2>3, <2>4
  <1>5. Entry(log'[t], receipt'[e], j)
    BY <1>1, <1>2, AppendEntry
  <1>6. ASSUME ~InLog(j), NoDoublePublish PROVE NoDoublePublish'
    <2>1. \A u \in Tenants : Distinct(log[u])
      BY <1>6 DEF NoDoublePublish, Distinct
    <2>2. Distinct(Append(log[t], j))
      BY <1>1, <1>2, <1>6, <2>1, AppendDistinct DEF InLog
    <2>3. \A u \in Tenants : Distinct(log'[u])
      BY <1>1, <1>2, <2>1, <2>2
    <2>4. QED
      BY <2>3 DEF NoDoublePublish, Distinct
  <1>7. QED
    BY <1>3, <1>4, <1>5, <1>6

\* A worker's build switches the index of a job that was never built before.
LEMMA WorkerSwitch ==
  ASSUME IInv, NEW w \in Workers, NEW next \in {"pre_complete", "failing"},
         wpc[w] = "build", SwitchIndex(w, wjob[w]), wpc' = [wpc EXCEPT ![w] = next],
         UNCHANGED <<req, status, bound, rpc, wjob>>
  PROVE  LogInv'
  <1> DEFINE j == wjob[w]
  <1>1. /\ j \in Jobs /\ w \in Executors /\ Async(j) /\ ~InLog(j)
        /\ status[j] \in {"running", "completed", "failed"}
    BY DEF IInv, ControlInv, WorkerHolds, Busy, WorkerBusy, Probing, Executors, LogInv,
           PublishOnce, NotBuilt
  <1>2. /\ \A k \in Jobs : InLog(k)' <=> InLog(k) \/ k = j
        /\ \A k \in Jobs, g \in Nat : Published(k, g) => Entry(log'[req[k].tenant], g, k)
        /\ Entry(log'[req[j].tenant], receipt'[w], j)
        /\ NoDoublePublish'
    BY <1>1, SwitchLog DEF IInv, LogInv
  <1>3. /\ \A v \in Workers : v # w => wpc'[v] = wpc[v] /\ receipt'[v] = receipt[v]
        /\ \A r \in Jobs : receipt'[r] = receipt[r]
        /\ wpc'[w] = next
        /\ receipt \in [Executors -> Nat]
    BY ConstantsAssumption
    DEF IInv, TypeOK, WorkerTypeOK, IndexTypeOK, Executors, SwitchIndex
  <1>4. PublishOnce'
    <2>1. \A k \in Jobs : InLog(k)' => status'[k] \notin {"absent", "queued"}
      BY <1>1, <1>2 DEF IInv, LogInv, PublishOnce
    <2>2. ASSUME NEW v \in Workers, wpc'[v] \in NotBuilt PROVE ~InLog(wjob[v])'
      <3>1. v # w /\ Busy(v) /\ Busy(w) /\ wpc[v] \in NotBuilt
        BY <1>3, <2>2 DEF NotBuilt, Busy, WorkerBusy, Probing
      <3>2. wjob[v] \in Jobs /\ wjob[v] # j /\ ~InLog(wjob[v])
        BY <3>1 DEF IInv, ControlInv, WorkerHolds, OneWorkerPerJob, LogInv, PublishOnce
      <3>3. ~Occurs(log'[req[wjob[v]].tenant], wjob[v])
        BY <1>2, <3>2 DEF InLog
      <3>4. QED
        BY <3>3 DEF InLog
    <2>3. ASSUME NEW r \in Jobs, rpc'[r] = "build" PROVE ~InLog(r)'
      BY <1>1, <1>2, <2>3 DEF IInv, ControlInv, HandlerControl, LogInv, PublishOnce, Async
    <2>4. QED
      BY <2>1, <2>2, <2>3 DEF PublishOnce, NotBuilt, InLog
  <1>5. OwnReceipt'
    <2>1. ASSUME NEW v \in Workers, wpc'[v] \in {"pre_complete", "complete"}
          PROVE  Entry(log'[req[wjob[v]].tenant], receipt'[v], wjob[v])
      <3>1. CASE v = w
        BY <1>2, <3>1
      <3>2. CASE v # w
        <4>1. wjob[v] \in Jobs /\ receipt[v] \in Nat /\ Published(wjob[v], receipt[v])
          BY <1>3, <2>1, <3>2
          DEF IInv, ControlInv, WorkerHolds, Busy, WorkerBusy, Probing, LogInv, OwnReceipt, Executors
        <4>2. QED
          BY <1>2, <1>3, <3>2, <4>1
      <3>3. QED
        BY <3>1, <3>2
    <2>2. ASSUME NEW r \in Jobs, rpc[r] = "complete"
          PROVE  Entry(log'[req[r].tenant], receipt'[r], r)
      <3>1. receipt[r] \in Nat /\ Published(r, receipt[r])
        BY <1>3, <2>2 DEF IInv, LogInv, OwnReceipt, Executors
      <3>2. QED
        BY <1>2, <1>3, <3>1
    <2>3. QED
      BY <2>1, <2>2 DEF OwnReceipt, Published
  <1>6. OwnBinding'
    <2>1. \A k \in Jobs : bound[k] \in Nat
      BY DEF IInv, TypeOK, RowTypeOK
    <2>2. QED
      BY <1>2, <2>1 DEF IInv, LogInv, OwnBinding, Published
  <1>7. QED
    BY <1>2, <1>4, <1>5, <1>6 DEF LogInv

\* So does the rebuild that an upload of a synchronous tenant runs itself.
LEMMA RequestSwitch ==
  ASSUME IInv, NEW r \in Jobs, NEW next \in {"complete", "fail"},
         rpc[r] = "build", SwitchIndex(r, r), rpc' = [rpc EXCEPT ![r] = next],
         UNCHANGED <<req, status, bound, wpc, wjob>>
  PROVE  LogInv'
  <1>1. r \in Executors /\ ~Async(r) /\ ~InLog(r) /\ status[r] = "running"
    BY DEF IInv, ControlInv, HandlerControl, Executors, LogInv, PublishOnce
  <1>2. /\ \A k \in Jobs : InLog(k)' <=> InLog(k) \/ k = r
        /\ \A k \in Jobs, g \in Nat : Published(k, g) => Entry(log'[req[k].tenant], g, k)
        /\ Entry(log'[req[r].tenant], receipt'[r], r)
        /\ NoDoublePublish'
    BY <1>1, SwitchLog DEF IInv, LogInv
  <1>3. /\ \A q \in Jobs : q # r => rpc'[q] = rpc[q] /\ receipt'[q] = receipt[q]
        /\ \A w \in Workers : receipt'[w] = receipt[w]
        /\ rpc'[r] = next
        /\ receipt \in [Executors -> Nat]
    BY ConstantsAssumption
    DEF IInv, TypeOK, RequestTypeOK, IndexTypeOK, Executors, SwitchIndex
  <1>4. PublishOnce'
    <2>1. \A k \in Jobs : InLog(k)' => status'[k] \notin {"absent", "queued"}
      BY <1>1, <1>2 DEF IInv, LogInv, PublishOnce
    <2>2. ASSUME NEW w \in Workers, wpc[w] \in NotBuilt PROVE ~InLog(wjob[w])'
      <3>1. wjob[w] \in Jobs /\ wjob[w] # r /\ ~InLog(wjob[w])
        BY <1>1, <2>2
        DEF IInv, ControlInv, WorkerHolds, NotBuilt, Busy, WorkerBusy, Probing, LogInv, PublishOnce
      <3>2. ~Occurs(log'[req[wjob[w]].tenant], wjob[w])
        BY <1>2, <3>1 DEF InLog
      <3>3. QED
        BY <3>2 DEF InLog
    <2>3. ASSUME NEW q \in Jobs, rpc'[q] = "build" PROVE ~InLog(q)'
      BY <1>2, <1>3, <2>3 DEF IInv, LogInv, PublishOnce
    <2>4. QED
      BY <2>1, <2>2, <2>3 DEF PublishOnce, NotBuilt, InLog
  <1>5. OwnReceipt'
    <2>1. ASSUME NEW w \in Workers, wpc[w] \in {"pre_complete", "complete"}
          PROVE  Entry(log'[req[wjob[w]].tenant], receipt'[w], wjob[w])
      <3>1. wjob[w] \in Jobs /\ receipt[w] \in Nat /\ Published(wjob[w], receipt[w])
        BY <1>3, <2>1
        DEF IInv, ControlInv, WorkerHolds, Busy, WorkerBusy, Probing, LogInv, OwnReceipt, Executors
      <3>2. QED
        BY <1>2, <1>3, <3>1
    <2>2. ASSUME NEW q \in Jobs, rpc'[q] = "complete"
          PROVE  Entry(log'[req[q].tenant], receipt'[q], q)
      <3>1. CASE q = r
        BY <1>2, <3>1
      <3>2. CASE q # r
        <4>1. receipt[q] \in Nat /\ Published(q, receipt[q])
          BY <1>3, <2>2, <3>2 DEF IInv, LogInv, OwnReceipt, Executors
        <4>2. QED
          BY <1>2, <1>3, <3>2, <4>1
      <3>3. QED
        BY <3>1, <3>2
    <2>3. QED
      BY <2>1, <2>2 DEF OwnReceipt, Published
  <1>6. OwnBinding'
    <2>1. \A k \in Jobs : bound[k] \in Nat
      BY DEF IInv, TypeOK, RowTypeOK
    <2>2. QED
      BY <1>2, <2>1 DEF IInv, LogInv, OwnBinding, Published
  <1>7. QED
    BY <1>2, <1>4, <1>5, <1>6 DEF LogInv

\* The four steps that may switch the index, with or without an error after it.
LEMMA SwitchSteps ==
  ASSUME IInv
  PROVE  /\ \A r \in Jobs : RebuildOk(r) \/ RebuildFails(r) => LogInv'
         /\ \A w \in Workers : BuildVectorStore(w) \/ WorkFails(w) => LogInv'
  <1>1. ASSUME NEW r \in Jobs, RebuildOk(r) PROVE LogInv'
    BY <1>1, RequestSwitch DEF RebuildOk, Goto, rowVars, workVars
  <1>2. ASSUME NEW r \in Jobs, RebuildFails(r) PROVE LogInv'
    <2>1. CASE SwitchIndex(r, r)
      BY <1>2, <2>1, RequestSwitch DEF RebuildFails, AfterRebuildFails, Goto, rowVars, workVars
    <2>2. CASE UNCHANGED indexVars
      BY <1>2, <2>2
      DEF RebuildFails, AfterRebuildFails, Goto, rowVars, workVars, indexVars, IInv, LogInv,
          PublishOnce, OwnReceipt, NoDoublePublish, OwnBinding, InLog, Published, NotBuilt,
          TypeOK, RequestTypeOK
    <2>3. QED
      BY <1>2, <2>1, <2>2 DEF RebuildFails
  <1>3. ASSUME NEW w \in Workers, BuildVectorStore(w) PROVE LogInv'
    BY <1>3, WorkerSwitch DEF BuildVectorStore, rowVars, reqVars
  <1>4. ASSUME NEW w \in Workers, WorkFails(w) PROVE LogInv'
    <2>1. CASE wpc[w] = "build" /\ SwitchIndex(w, wjob[w])
      BY <1>4, <2>1, WorkerSwitch DEF WorkFails, rowVars, reqVars
    <2>2. CASE UNCHANGED indexVars
      BY <1>4, <2>2
      DEF WorkFails, rowVars, reqVars, indexVars, IInv, LogInv, PublishOnce, OwnReceipt,
          NoDoublePublish, OwnBinding, InLog, Published, NotBuilt, TypeOK, WorkerTypeOK
    <2>3. QED
      BY <1>4, <2>1, <2>2 DEF WorkFails
  <1>5. QED
    BY <1>1, <1>2, <1>3, <1>4

\* Only those four steps write the log.
LEMMA NoDoublePublishStep ==
  ASSUME IInv, [Next]_vars
  PROVE  NoDoublePublish'
  <1>1. CASE
         \/ \E r \in Jobs : CreateJob(r) \/ ReuseJob(r) \/ PlaceFile(r) \/
                PlaceFileFails(r) \/ MarkSourceReady(r) \/ LoadForCategories(r) \/
                PublishTask(r) \/ PublishTaskFails(r) \/ MarkJobRunning(r) \/
                ReloadDocs(r) \/ MarkJobCompleted(r) \/ MarkJobFailed(r) \/ RequestDies(r)
         \/ \E w \in Workers : ClaimRunning(w) \/ RequireLiveLease(w) \/ LoadDocuments(w)
                \/ MarkCompleted(w) \/ MarkFailed(w) \/ AbandonWork(w) \/ HeartbeatTick(w)
         \/ \E j \in Jobs : DropDelivery(j)
         \/ ReapStaleJobs \/ Tick \/ UNCHANGED vars
    <2>1. UNCHANGED log
      BY <1>1
      DEF CreateJob, ReuseJob, PlaceFile, PlaceFileFails, MarkSourceReady,
          LoadForCategories, PublishTask, PublishTaskFails, MarkJobRunning, ReloadDocs,
          MarkJobCompleted, MarkJobFailed, RequestDies, ClaimRunning, RequireLiveLease,
          LoadDocuments, MarkCompleted, MarkFailed, AbandonWork, HeartbeatTick,
          DropDelivery, ReapStaleJobs, Tick, vars, indexVars
    <2>2. QED
      BY <2>1 DEF IInv, LogInv, NoDoublePublish
  <1>2. CASE \/ \E r \in Jobs : RebuildOk(r) \/ RebuildFails(r)
             \/ \E w \in Workers : BuildVectorStore(w) \/ WorkFails(w)
    BY <1>2, SwitchSteps DEF LogInv
  <1>3. QED
    BY <1>1, <1>2 DEF Next, Upload, WorkStep

\* What is still to be built has not been built: kept by every step.
LEMMA PublishOnceStep ==
  ASSUME IInv, [Next]_vars
  PROVE  PublishOnce'
  <1>1. ASSUME NEW r \in Jobs, CreateJob(r) PROVE PublishOnce'
    BY <1>1, ConstantsAssumption
    DEF IInv, CreateJob, Goto, workVars, indexVars, TypeOK, RowTypeOK, RequestTypeOK,
        WorkerTypeOK, Statuses, ControlInv, WorkerHolds, HandlerControl, Busy,
        WorkerBusy, Probing, NotBuilt, LogInv, PublishOnce, InLog
  <1>2. ASSUME NEW r \in Jobs, ReuseJob(r) PROVE PublishOnce'
    BY <1>2, ConstantsAssumption
    DEF IInv, ReuseJob, Goto, rowVars, workVars, indexVars, TypeOK, RowTypeOK,
        RequestTypeOK, WorkerTypeOK, Statuses, ControlInv, WorkerHolds, HandlerControl,
        Busy, WorkerBusy, Probing, NotBuilt, LogInv, PublishOnce, InLog
  <1>3. ASSUME NEW r \in Jobs, PlaceFile(r) PROVE PublishOnce'
    BY <1>3, ConstantsAssumption
    DEF IInv, PlaceFile, Goto, rowVars, workVars, indexVars, TypeOK, RowTypeOK,
        RequestTypeOK, WorkerTypeOK, Statuses, ControlInv, WorkerHolds, HandlerControl,
        Busy, WorkerBusy, Probing, NotBuilt, LogInv, PublishOnce, InLog
  <1>4. ASSUME NEW r \in Jobs, PlaceFileFails(r) PROVE PublishOnce'
    BY <1>4, ConstantsAssumption
    DEF IInv, PlaceFileFails, Goto, rowVars, workVars, indexVars, TypeOK, RowTypeOK,
        RequestTypeOK, WorkerTypeOK, Statuses, ControlInv, WorkerHolds, HandlerControl,
        Busy, WorkerBusy, Probing, NotBuilt, LogInv, PublishOnce, InLog
  <1>5. ASSUME NEW r \in Jobs, MarkSourceReady(r) PROVE PublishOnce'
    BY <1>5, ConstantsAssumption
    DEF IInv, MarkSourceReady, Goto, workVars, indexVars, TypeOK, RowTypeOK,
        RequestTypeOK, WorkerTypeOK, Statuses, ControlInv, WorkerHolds, HandlerControl,
        Busy, WorkerBusy, Probing, NotBuilt, LogInv, PublishOnce, InLog
  <1>6. ASSUME NEW r \in Jobs, LoadForCategories(r) PROVE PublishOnce'
    BY <1>6, ConstantsAssumption
    DEF IInv, LoadForCategories, Goto, rowVars, workVars, indexVars, TypeOK, RowTypeOK,
        RequestTypeOK, WorkerTypeOK, Statuses, ControlInv, WorkerHolds, HandlerControl,
        Busy, WorkerBusy, Probing, NotBuilt, LogInv, PublishOnce, InLog
  <1>7. ASSUME NEW r \in Jobs, PublishTask(r) PROVE PublishOnce'
    BY <1>7, ConstantsAssumption
    DEF IInv, PublishTask, Goto, rowVars, workVars, indexVars, TypeOK, RowTypeOK,
        RequestTypeOK, WorkerTypeOK, Statuses, ControlInv, WorkerHolds, HandlerControl,
        Busy, WorkerBusy, Probing, NotBuilt, LogInv, PublishOnce, InLog
  <1>8. ASSUME NEW r \in Jobs, PublishTaskFails(r) PROVE PublishOnce'
    BY <1>8, ConstantsAssumption
    DEF IInv, PublishTaskFails, Goto, rowVars, workVars, indexVars, TypeOK, RowTypeOK,
        RequestTypeOK, WorkerTypeOK, Statuses, ControlInv, WorkerHolds, HandlerControl,
        Busy, WorkerBusy, Probing, NotBuilt, LogInv, PublishOnce, InLog
  <1>9. ASSUME NEW r \in Jobs, MarkJobRunning(r) PROVE PublishOnce'
    BY <1>9, ConstantsAssumption
    DEF IInv, MarkJobRunning, Goto, workVars, indexVars, TypeOK, RowTypeOK,
        RequestTypeOK, WorkerTypeOK, Statuses, ControlInv, WorkerHolds, HandlerControl,
        Busy, WorkerBusy, Probing, NotBuilt, LogInv, PublishOnce, InLog
  <1>10. ASSUME NEW r \in Jobs, RebuildOk(r) PROVE PublishOnce'
    BY <1>10, SwitchSteps DEF LogInv
  <1>11. ASSUME NEW r \in Jobs, RebuildFails(r) PROVE PublishOnce'
    BY <1>11, SwitchSteps DEF LogInv
  <1>12. ASSUME NEW r \in Jobs, MarkJobCompleted(r) PROVE PublishOnce'
    BY <1>12, ConstantsAssumption
    DEF IInv, MarkJobCompleted, Goto, BindValue, workVars, indexVars, TypeOK, RowTypeOK,
        RequestTypeOK, WorkerTypeOK, Statuses, ControlInv, WorkerHolds, HandlerControl,
        Busy, WorkerBusy, Probing, NotBuilt, LogInv, PublishOnce, InLog
  <1>13. ASSUME NEW r \in Jobs, MarkJobFailed(r) PROVE PublishOnce'
    BY <1>13, ConstantsAssumption
    DEF IInv, MarkJobFailed, Goto, workVars, indexVars, TypeOK, RowTypeOK,
        RequestTypeOK, WorkerTypeOK, Statuses, ControlInv, WorkerHolds, HandlerControl,
        Busy, WorkerBusy, Probing, NotBuilt, LogInv, PublishOnce, InLog
  <1>14. ASSUME NEW r \in Jobs, RequestDies(r) PROVE PublishOnce'
    BY <1>14, ConstantsAssumption
    DEF IInv, RequestDies, Goto, rowVars, workVars, indexVars, TypeOK, RowTypeOK,
        RequestTypeOK, WorkerTypeOK, Statuses, ControlInv, WorkerHolds, HandlerControl,
        Busy, WorkerBusy, Probing, NotBuilt, LogInv, PublishOnce, InLog
  <1>15. ASSUME NEW w \in Workers, ClaimRunning(w) PROVE PublishOnce'
    BY <1>15, ConstantsAssumption
    DEF IInv, ClaimRunning, Claimable, reqVars, indexVars, TypeOK, RowTypeOK,
        RequestTypeOK, WorkerTypeOK, Statuses, ControlInv, WorkerHolds, HandlerControl,
        Busy, WorkerBusy, Probing, NotBuilt, LogInv, PublishOnce, InLog
  <1>16. ASSUME NEW w \in Workers, RequireLiveLease(w) PROVE PublishOnce'
    BY <1>16, ConstantsAssumption
    DEF IInv, RequireLiveLease, ExtendLease, reqVars, indexVars, Owns, Probing, TypeOK,
        RowTypeOK, RequestTypeOK, WorkerTypeOK, Statuses, ControlInv, WorkerHolds,
        HandlerControl, Busy, WorkerBusy, NotBuilt, LogInv, PublishOnce, InLog
  <1>17. ASSUME NEW w \in Workers, LoadDocuments(w) PROVE PublishOnce'
    BY <1>17, ConstantsAssumption
    DEF IInv, LoadDocuments, rowVars, reqVars, indexVars, TypeOK, RowTypeOK,
        RequestTypeOK, WorkerTypeOK, Statuses, ControlInv, WorkerHolds, HandlerControl,
        Busy, WorkerBusy, Probing, NotBuilt, LogInv, PublishOnce, InLog
  <1>18. ASSUME NEW w \in Workers, BuildVectorStore(w) PROVE PublishOnce'
    BY <1>18, SwitchSteps DEF LogInv
  <1>19. ASSUME NEW w \in Workers, WorkFails(w) PROVE PublishOnce'
    BY <1>19, SwitchSteps DEF LogInv
  <1>20. ASSUME NEW w \in Workers, MarkCompleted(w) PROVE PublishOnce'
    BY <1>20, ConstantsAssumption
    DEF IInv, MarkCompleted, BindValue, Leave, Finish, reqVars, MayFinish, Owns, TypeOK,
        RowTypeOK, RequestTypeOK, WorkerTypeOK, Statuses, ControlInv, WorkerHolds,
        HandlerControl, Busy, WorkerBusy, Probing, NotBuilt, LogInv, PublishOnce, InLog
  <1>21. ASSUME NEW w \in Workers, MarkFailed(w) PROVE PublishOnce'
    BY <1>21, ConstantsAssumption
    DEF IInv, MarkFailed, Leave, Finish, reqVars, MayFinish, Owns, TypeOK, RowTypeOK,
        RequestTypeOK, WorkerTypeOK, Statuses, ControlInv, WorkerHolds, HandlerControl,
        Busy, WorkerBusy, Probing, NotBuilt, LogInv, PublishOnce, InLog
  <1>22. ASSUME NEW w \in Workers, AbandonWork(w) PROVE PublishOnce'
    BY <1>22, ConstantsAssumption
    DEF IInv, AbandonWork, Leave, rowVars, reqVars, TypeOK, RowTypeOK, RequestTypeOK,
        WorkerTypeOK, Statuses, ControlInv, WorkerHolds, HandlerControl, Busy,
        WorkerBusy, Probing, NotBuilt, LogInv, PublishOnce, InLog
  <1>23. CASE ReapStaleJobs
    BY <1>23, ConstantsAssumption
    DEF IInv, ReapStaleJobs, reqVars, workVars, indexVars, Stale, QueuedIsStale,
        LeaseExpired, LegacyRunning, TypeOK, RowTypeOK, RequestTypeOK, WorkerTypeOK,
        Statuses, ControlInv, WorkerHolds, HandlerControl, Busy, WorkerBusy, Probing,
        NotBuilt, LogInv, PublishOnce, InLog
  <1>24. CASE
         \/ \E r \in Jobs : ReloadDocs(r)
         \/ \E w \in Workers : HeartbeatTick(w)
         \/ \E j \in Jobs : DropDelivery(j)
         \/ Tick \/ UNCHANGED vars
    BY <1>24
    DEF ReloadDocs, HeartbeatTick, DropDelivery, Tick, vars, rowVars, reqVars, workVars,
        indexVars, IInv, LogInv, PublishOnce, InLog, Published, NotBuilt
  <1>25. QED
    BY <1>1, <1>2, <1>3, <1>4, <1>5, <1>6, <1>7, <1>8, <1>9, <1>10, <1>11, <1>12, <1>13, <1>14, <1>15, <1>16, <1>17, <1>18, <1>19, <1>20, <1>21, <1>22, <1>23, <1>24
    DEF Next, Upload, WorkStep

\* Receipts stay those of the executor's own build.
LEMMA OwnReceiptStep ==
  ASSUME IInv, [Next]_vars
  PROVE  OwnReceipt'
  <1>1. ASSUME NEW r \in Jobs, CreateJob(r) PROVE OwnReceipt'
    BY <1>1, ConstantsAssumption
    DEF IInv, CreateJob, Goto, workVars, indexVars, TypeOK, RowTypeOK, RequestTypeOK,
        WorkerTypeOK, Statuses, IndexTypeOK, Executors, ControlInv, WorkerHolds,
        HandlerControl, Busy, WorkerBusy, Probing, NotBuilt, LogInv, OwnReceipt,
        Published
  <1>2. ASSUME NEW r \in Jobs, ReuseJob(r) PROVE OwnReceipt'
    BY <1>2, ConstantsAssumption
    DEF IInv, ReuseJob, Goto, rowVars, workVars, indexVars, TypeOK, RowTypeOK,
        RequestTypeOK, WorkerTypeOK, Statuses, IndexTypeOK, Executors, ControlInv,
        WorkerHolds, HandlerControl, Busy, WorkerBusy, Probing, NotBuilt, LogInv,
        OwnReceipt, Published
  <1>3. ASSUME NEW r \in Jobs, PlaceFile(r) PROVE OwnReceipt'
    BY <1>3, ConstantsAssumption
    DEF IInv, PlaceFile, Goto, rowVars, workVars, indexVars, TypeOK, RowTypeOK,
        RequestTypeOK, WorkerTypeOK, Statuses, IndexTypeOK, Executors, ControlInv,
        WorkerHolds, HandlerControl, Busy, WorkerBusy, Probing, NotBuilt, LogInv,
        OwnReceipt, Published
  <1>4. ASSUME NEW r \in Jobs, PlaceFileFails(r) PROVE OwnReceipt'
    BY <1>4, ConstantsAssumption
    DEF IInv, PlaceFileFails, Goto, rowVars, workVars, indexVars, TypeOK, RowTypeOK,
        RequestTypeOK, WorkerTypeOK, Statuses, IndexTypeOK, Executors, ControlInv,
        WorkerHolds, HandlerControl, Busy, WorkerBusy, Probing, NotBuilt, LogInv,
        OwnReceipt, Published
  <1>5. ASSUME NEW r \in Jobs, MarkSourceReady(r) PROVE OwnReceipt'
    BY <1>5, ConstantsAssumption
    DEF IInv, MarkSourceReady, Goto, workVars, indexVars, TypeOK, RowTypeOK,
        RequestTypeOK, WorkerTypeOK, Statuses, IndexTypeOK, Executors, ControlInv,
        WorkerHolds, HandlerControl, Busy, WorkerBusy, Probing, NotBuilt, LogInv,
        OwnReceipt, Published
  <1>6. ASSUME NEW r \in Jobs, LoadForCategories(r) PROVE OwnReceipt'
    BY <1>6, ConstantsAssumption
    DEF IInv, LoadForCategories, Goto, rowVars, workVars, indexVars, TypeOK, RowTypeOK,
        RequestTypeOK, WorkerTypeOK, Statuses, IndexTypeOK, Executors, ControlInv,
        WorkerHolds, HandlerControl, Busy, WorkerBusy, Probing, NotBuilt, LogInv,
        OwnReceipt, Published
  <1>7. ASSUME NEW r \in Jobs, PublishTask(r) PROVE OwnReceipt'
    BY <1>7, ConstantsAssumption
    DEF IInv, PublishTask, Goto, rowVars, workVars, indexVars, TypeOK, RowTypeOK,
        RequestTypeOK, WorkerTypeOK, Statuses, IndexTypeOK, Executors, ControlInv,
        WorkerHolds, HandlerControl, Busy, WorkerBusy, Probing, NotBuilt, LogInv,
        OwnReceipt, Published
  <1>8. ASSUME NEW r \in Jobs, PublishTaskFails(r) PROVE OwnReceipt'
    BY <1>8, ConstantsAssumption
    DEF IInv, PublishTaskFails, Goto, rowVars, workVars, indexVars, TypeOK, RowTypeOK,
        RequestTypeOK, WorkerTypeOK, Statuses, IndexTypeOK, Executors, ControlInv,
        WorkerHolds, HandlerControl, Busy, WorkerBusy, Probing, NotBuilt, LogInv,
        OwnReceipt, Published
  <1>9. ASSUME NEW r \in Jobs, MarkJobRunning(r) PROVE OwnReceipt'
    BY <1>9, ConstantsAssumption
    DEF IInv, MarkJobRunning, Goto, workVars, indexVars, TypeOK, RowTypeOK,
        RequestTypeOK, WorkerTypeOK, Statuses, IndexTypeOK, Executors, ControlInv,
        WorkerHolds, HandlerControl, Busy, WorkerBusy, Probing, NotBuilt, LogInv,
        OwnReceipt, Published
  <1>10. ASSUME NEW r \in Jobs, RebuildOk(r) PROVE OwnReceipt'
    BY <1>10, SwitchSteps DEF LogInv
  <1>11. ASSUME NEW r \in Jobs, RebuildFails(r) PROVE OwnReceipt'
    BY <1>11, SwitchSteps DEF LogInv
  <1>12. ASSUME NEW r \in Jobs, MarkJobCompleted(r) PROVE OwnReceipt'
    BY <1>12, ConstantsAssumption
    DEF IInv, MarkJobCompleted, Goto, BindValue, workVars, indexVars, TypeOK, RowTypeOK,
        RequestTypeOK, WorkerTypeOK, Statuses, IndexTypeOK, Executors, ControlInv,
        WorkerHolds, HandlerControl, Busy, WorkerBusy, Probing, NotBuilt, LogInv,
        OwnReceipt, Published
  <1>13. ASSUME NEW r \in Jobs, MarkJobFailed(r) PROVE OwnReceipt'
    BY <1>13, ConstantsAssumption
    DEF IInv, MarkJobFailed, Goto, workVars, indexVars, TypeOK, RowTypeOK,
        RequestTypeOK, WorkerTypeOK, Statuses, IndexTypeOK, Executors, ControlInv,
        WorkerHolds, HandlerControl, Busy, WorkerBusy, Probing, NotBuilt, LogInv,
        OwnReceipt, Published
  <1>14. ASSUME NEW r \in Jobs, RequestDies(r) PROVE OwnReceipt'
    BY <1>14, ConstantsAssumption
    DEF IInv, RequestDies, Goto, rowVars, workVars, indexVars, TypeOK, RowTypeOK,
        RequestTypeOK, WorkerTypeOK, Statuses, IndexTypeOK, Executors, ControlInv,
        WorkerHolds, HandlerControl, Busy, WorkerBusy, Probing, NotBuilt, LogInv,
        OwnReceipt, Published
  <1>15. ASSUME NEW w \in Workers, ClaimRunning(w) PROVE OwnReceipt'
    <2>1. /\ UNCHANGED <<req, log, rpc>>
          /\ wpc' = [wpc EXCEPT ![w] = "pre_load"]
          /\ \A v \in Workers : v # w => wjob'[v] = wjob[v] /\ receipt'[v] = receipt[v]
          /\ \A r \in Jobs : receipt'[r] = receipt[r]
      BY <1>15, ConstantsAssumption
      DEF ClaimRunning, reqVars, indexVars, IInv, TypeOK, WorkerTypeOK, IndexTypeOK, Executors
    <2>2. QED
      BY <2>1 DEF IInv, TypeOK, WorkerTypeOK, LogInv, OwnReceipt, Published
  <1>16. ASSUME NEW w \in Workers, RequireLiveLease(w) PROVE OwnReceipt'
    BY <1>16, ConstantsAssumption
    DEF IInv, RequireLiveLease, ExtendLease, reqVars, indexVars, Owns, Probing, TypeOK,
        RowTypeOK, RequestTypeOK, WorkerTypeOK, Statuses, IndexTypeOK, Executors,
        ControlInv, WorkerHolds, HandlerControl, Busy, WorkerBusy, NotBuilt, LogInv,
        OwnReceipt, Published
  <1>17. ASSUME NEW w \in Workers, LoadDocuments(w) PROVE OwnReceipt'
    BY <1>17, ConstantsAssumption
    DEF IInv, LoadDocuments, rowVars, reqVars, indexVars, TypeOK, RowTypeOK,
        RequestTypeOK, WorkerTypeOK, Statuses, IndexTypeOK, Executors, ControlInv,
        WorkerHolds, HandlerControl, Busy, WorkerBusy, Probing, NotBuilt, LogInv,
        OwnReceipt, Published
  <1>18. ASSUME NEW w \in Workers, BuildVectorStore(w) PROVE OwnReceipt'
    BY <1>18, SwitchSteps DEF LogInv
  <1>19. ASSUME NEW w \in Workers, WorkFails(w) PROVE OwnReceipt'
    BY <1>19, SwitchSteps DEF LogInv
  <1>20. ASSUME NEW w \in Workers, MarkCompleted(w) PROVE OwnReceipt'
    BY SMTT(60), <1>20, ConstantsAssumption
    DEF IInv, MarkCompleted, BindValue, Leave, Finish, reqVars, MayFinish, Owns, TypeOK,
        RowTypeOK, RequestTypeOK, WorkerTypeOK, Statuses, IndexTypeOK, Executors,
        ControlInv, WorkerHolds, HandlerControl, Busy, WorkerBusy, Probing, NotBuilt,
        LogInv, OwnReceipt, Published
  <1>21. ASSUME NEW w \in Workers, MarkFailed(w) PROVE OwnReceipt'
    BY SMTT(60), <1>21, ConstantsAssumption
    DEF IInv, MarkFailed, Leave, Finish, reqVars, MayFinish, Owns, TypeOK, RowTypeOK,
        RequestTypeOK, WorkerTypeOK, Statuses, IndexTypeOK, Executors, ControlInv,
        WorkerHolds, HandlerControl, Busy, WorkerBusy, Probing, NotBuilt, LogInv,
        OwnReceipt, Published
  <1>22. ASSUME NEW w \in Workers, AbandonWork(w) PROVE OwnReceipt'
    <2>1. /\ UNCHANGED <<req, log, rpc>>
          /\ wpc' = [wpc EXCEPT ![w] = "idle"]
          /\ \A v \in Workers : v # w => wjob'[v] = wjob[v] /\ receipt'[v] = receipt[v]
          /\ \A r \in Jobs : receipt'[r] = receipt[r]
      BY <1>22, ConstantsAssumption
      DEF AbandonWork, Leave, reqVars, IInv, TypeOK, WorkerTypeOK, IndexTypeOK, Executors
    <2>2. QED
      BY <2>1 DEF IInv, TypeOK, WorkerTypeOK, LogInv, OwnReceipt, Published
  <1>23. CASE
         \/ \E r \in Jobs : ReloadDocs(r)
         \/ \E w \in Workers : HeartbeatTick(w)
         \/ \E j \in Jobs : DropDelivery(j)
         \/ ReapStaleJobs \/ Tick \/ UNCHANGED vars
    BY <1>23
    DEF ReloadDocs, HeartbeatTick, DropDelivery, ReapStaleJobs, Tick, vars, rowVars,
        reqVars, workVars, indexVars, IInv, LogInv, OwnReceipt, InLog, Published,
        NotBuilt
  <1>24. QED
    BY <1>1, <1>2, <1>3, <1>4, <1>5, <1>6, <1>7, <1>8, <1>9, <1>10, <1>11, <1>12, <1>13, <1>14, <1>15, <1>16, <1>17, <1>18, <1>19, <1>20, <1>21, <1>22, <1>23
    DEF Next, Upload, WorkStep

\* Completed rows stay bound to their own generation.
LEMMA OwnBindingStep ==
  ASSUME IInv, [Next]_vars
  PROVE  OwnBinding'
  <1>1. ASSUME NEW r \in Jobs, CreateJob(r) PROVE OwnBinding'
    BY <1>1, ConstantsAssumption
    DEF IInv, CreateJob, Goto, workVars, indexVars, TypeOK, RowTypeOK, RequestTypeOK,
        WorkerTypeOK, Statuses, ControlInv, WorkerHolds, HandlerControl, Busy,
        WorkerBusy, Probing, NotBuilt, LogInv, OwnBinding, OwnReceipt, Published
  <1>2. ASSUME NEW r \in Jobs, MarkJobRunning(r) PROVE OwnBinding'
    BY <1>2, ConstantsAssumption
    DEF IInv, MarkJobRunning, Goto, workVars, indexVars, TypeOK, RowTypeOK,
        RequestTypeOK, WorkerTypeOK, Statuses, ControlInv, WorkerHolds, HandlerControl,
        Busy, WorkerBusy, Probing, NotBuilt, LogInv, OwnBinding, OwnReceipt, Published
  <1>3. ASSUME NEW r \in Jobs, RebuildOk(r) PROVE OwnBinding'
    BY <1>3, SwitchSteps DEF LogInv
  <1>4. ASSUME NEW r \in Jobs, RebuildFails(r) PROVE OwnBinding'
    BY <1>4, SwitchSteps DEF LogInv
  <1>5. ASSUME NEW r \in Jobs, MarkJobCompleted(r) PROVE OwnBinding'
    BY <1>5, ConstantsAssumption
    DEF IInv, MarkJobCompleted, Goto, BindValue, workVars, indexVars, TypeOK, RowTypeOK,
        RequestTypeOK, WorkerTypeOK, Statuses, ControlInv, WorkerHolds, HandlerControl,
        Busy, WorkerBusy, Probing, NotBuilt, LogInv, OwnBinding, OwnReceipt, Published
  <1>6. ASSUME NEW r \in Jobs, MarkJobFailed(r) PROVE OwnBinding'
    BY <1>6, ConstantsAssumption
    DEF IInv, MarkJobFailed, Goto, workVars, indexVars, TypeOK, RowTypeOK,
        RequestTypeOK, WorkerTypeOK, Statuses, ControlInv, WorkerHolds, HandlerControl,
        Busy, WorkerBusy, Probing, NotBuilt, LogInv, OwnBinding, OwnReceipt, Published
  <1>7. ASSUME NEW w \in Workers, ClaimRunning(w) PROVE OwnBinding'
    BY <1>7, ConstantsAssumption
    DEF IInv, ClaimRunning, Claimable, reqVars, indexVars, TypeOK, RowTypeOK,
        RequestTypeOK, WorkerTypeOK, Statuses, ControlInv, WorkerHolds, HandlerControl,
        Busy, WorkerBusy, Probing, NotBuilt, LogInv, OwnBinding, OwnReceipt, Published
  <1>8. ASSUME NEW w \in Workers, BuildVectorStore(w) PROVE OwnBinding'
    BY <1>8, SwitchSteps DEF LogInv
  <1>9. ASSUME NEW w \in Workers, WorkFails(w) PROVE OwnBinding'
    BY <1>9, SwitchSteps DEF LogInv
  <1>10. ASSUME NEW w \in Workers, MarkCompleted(w) PROVE OwnBinding'
    BY <1>10, ConstantsAssumption
    DEF IInv, MarkCompleted, BindValue, Leave, Finish, reqVars, MayFinish, Owns, TypeOK,
        RowTypeOK, RequestTypeOK, WorkerTypeOK, Statuses, ControlInv, WorkerHolds,
        HandlerControl, Busy, WorkerBusy, Probing, NotBuilt, LogInv, OwnBinding,
        OwnReceipt, Published
  <1>11. ASSUME NEW w \in Workers, MarkFailed(w) PROVE OwnBinding'
    BY <1>11, ConstantsAssumption
    DEF IInv, MarkFailed, Leave, Finish, reqVars, MayFinish, Owns, TypeOK, RowTypeOK,
        RequestTypeOK, WorkerTypeOK, Statuses, ControlInv, WorkerHolds, HandlerControl,
        Busy, WorkerBusy, Probing, NotBuilt, LogInv, OwnBinding, OwnReceipt, Published
  <1>12. CASE ReapStaleJobs
    BY <1>12, ConstantsAssumption
    DEF IInv, ReapStaleJobs, reqVars, workVars, indexVars, Stale, QueuedIsStale,
        LeaseExpired, LegacyRunning, TypeOK, RowTypeOK, RequestTypeOK, WorkerTypeOK,
        Statuses, ControlInv, WorkerHolds, HandlerControl, Busy, WorkerBusy, Probing,
        NotBuilt, LogInv, OwnBinding, OwnReceipt, Published
  <1>13. CASE
         \/ \E r \in Jobs : ReuseJob(r) \/ PlaceFile(r) \/ PlaceFileFails(r) \/
                MarkSourceReady(r) \/ LoadForCategories(r) \/ PublishTask(r) \/
                PublishTaskFails(r) \/ ReloadDocs(r) \/ RequestDies(r)
         \/ \E w \in Workers : RequireLiveLease(w) \/ LoadDocuments(w) \/ AbandonWork(w)
                \/ HeartbeatTick(w)
         \/ \E j \in Jobs : DropDelivery(j)
         \/ Tick \/ UNCHANGED vars
    BY <1>13
    DEF ReuseJob, PlaceFile, PlaceFileFails, MarkSourceReady, LoadForCategories,
        PublishTask, PublishTaskFails, ReloadDocs, RequestDies, RequireLiveLease,
        LoadDocuments, AbandonWork, HeartbeatTick, DropDelivery, Tick, vars, rowVars,
        reqVars, workVars, indexVars, IInv, LogInv, OwnBinding, InLog, Published,
        NotBuilt
  <1>14. QED
    BY <1>1, <1>2, <1>3, <1>4, <1>5, <1>6, <1>7, <1>8, <1>9, <1>10, <1>11, <1>12, <1>13
    DEF Next, Upload, WorkStep

\* A row that is completed or failed keeps its outcome and its binding.
LEMMA TerminalStep ==
  ASSUME IInv, [Next]_vars, NEW j \in Jobs, status[j] \in Terminal
  PROVE  status'[j] = status[j] /\ bound'[j] = bound[j]
  <1>1. ASSUME NEW r \in Jobs, CreateJob(r) PROVE status'[j] = status[j] /\ bound'[j] = bound[j]
    BY <1>1
    DEF IInv, CreateJob, Goto, workVars, indexVars, TypeOK, RowTypeOK, RequestTypeOK,
        ControlInv, HandlerControl, WorkerHolds, Busy, WorkerBusy, Async, Terminal
  <1>2. ASSUME NEW r \in Jobs, MarkJobRunning(r) PROVE status'[j] = status[j] /\ bound'[j] = bound[j]
    BY <1>2
    DEF IInv, MarkJobRunning, Goto, workVars, indexVars, TypeOK, RowTypeOK,
        RequestTypeOK, ControlInv, HandlerControl, WorkerHolds, Busy, WorkerBusy, Async,
        Terminal
  <1>3. ASSUME NEW r \in Jobs, MarkJobCompleted(r) PROVE status'[j] = status[j] /\ bound'[j] = bound[j]
    BY <1>3
    DEF IInv, MarkJobCompleted, Goto, BindValue, workVars, indexVars, TypeOK, RowTypeOK,
        RequestTypeOK, ControlInv, HandlerControl, WorkerHolds, Busy, WorkerBusy, Async,
        Terminal
  <1>4. ASSUME NEW r \in Jobs, MarkJobFailed(r) PROVE status'[j] = status[j] /\ bound'[j] = bound[j]
    BY <1>4
    DEF IInv, MarkJobFailed, Goto, workVars, indexVars, TypeOK, RowTypeOK,
        RequestTypeOK, ControlInv, HandlerControl, WorkerHolds, Busy, WorkerBusy, Async,
        Terminal
  <1>5. ASSUME NEW w \in Workers, ClaimRunning(w) PROVE status'[j] = status[j] /\ bound'[j] = bound[j]
    BY <1>5
    DEF IInv, ClaimRunning, Claimable, reqVars, indexVars, TypeOK, RowTypeOK,
        RequestTypeOK, ControlInv, HandlerControl, WorkerHolds, Busy, WorkerBusy, Async,
        Terminal
  <1>6. ASSUME NEW w \in Workers, MarkCompleted(w) PROVE status'[j] = status[j] /\ bound'[j] = bound[j]
    BY <1>6
    DEF IInv, MarkCompleted, BindValue, Leave, Finish, reqVars, MayFinish, Owns, TypeOK,
        RowTypeOK, RequestTypeOK, ControlInv, HandlerControl, WorkerHolds, Busy,
        WorkerBusy, Async, Terminal
  <1>7. ASSUME NEW w \in Workers, MarkFailed(w) PROVE status'[j] = status[j] /\ bound'[j] = bound[j]
    BY <1>7
    DEF IInv, MarkFailed, Leave, Finish, reqVars, MayFinish, Owns, TypeOK, RowTypeOK,
        RequestTypeOK, ControlInv, HandlerControl, WorkerHolds, Busy, WorkerBusy, Async,
        Terminal
  <1>8. CASE ReapStaleJobs
    BY <1>8
    DEF IInv, ReapStaleJobs, reqVars, workVars, indexVars, Stale, QueuedIsStale,
        LeaseExpired, LegacyRunning, TypeOK, RowTypeOK, RequestTypeOK, ControlInv,
        HandlerControl, WorkerHolds, Busy, WorkerBusy, Async, Terminal
  <1>9. CASE
         \/ \E r \in Jobs : ReuseJob(r) \/ PlaceFile(r) \/ PlaceFileFails(r) \/
                MarkSourceReady(r) \/ LoadForCategories(r) \/ PublishTask(r) \/
                PublishTaskFails(r) \/ ReloadDocs(r) \/ RebuildOk(r) \/ RebuildFails(r) \/
                RequestDies(r)
         \/ \E w \in Workers : RequireLiveLease(w) \/ LoadDocuments(w) \/
                BuildVectorStore(w) \/ WorkFails(w) \/ AbandonWork(w) \/ HeartbeatTick(w)
         \/ \E k \in Jobs : DropDelivery(k)
         \/ Tick \/ UNCHANGED vars
    BY <1>9
    DEF ReuseJob, PlaceFile, PlaceFileFails, MarkSourceReady, LoadForCategories,
        PublishTask, PublishTaskFails, ReloadDocs, RebuildOk, RebuildFails, RequestDies,
        RequireLiveLease, LoadDocuments, BuildVectorStore, WorkFails, AbandonWork,
        HeartbeatTick, DropDelivery, Tick, vars, rowVars
  <1>10. QED
    BY <1>1, <1>2, <1>3, <1>4, <1>5, <1>6, <1>7, <1>8, <1>9
    DEF Next, Upload, WorkStep

----------------------------------------------------------------------------
(* The theorems.                                                           *)

\* The initial states satisfy the inductive invariant.
LEMMA InitIInv == Init => IInv
  <1> SUFFICES ASSUME Init PROVE IInv
    OBVIOUS
  <1>1. TypeOK
    BY ConstantsAssumption
    DEF Init, TypeOK, RowTypeOK, LeaseTypeOK, RequestTypeOK, WorkerTypeOK, IndexTypeOK,
        Statuses, StaleCap, RequestBusy, Answers, Executors
  <1>2. ControlInv
    <2>1. WorkerHolds /\ OneWorkerPerJob
      BY DEF Init, WorkerHolds, OneWorkerPerJob, Busy, WorkerBusy, Probing
    <2>2. HandlerControl
      BY DEF Init, HandlerControl, RequestBusy
    <2>3. Delivered
      <3> SUFFICES ASSUME NEW j \in Jobs
                   PROVE  (inflight[j] > 0 => ready[j] /\ Async(j)) /\ (ready[j] => status[j] # "absent")
        BY DEF Delivered
      <3>1. inflight[j] = 0
        BY DEF Init
      <3>2. ready[j] <=> j \in LegacyJobs
        BY Zenon DEF Init
      <3>3. j \in LegacyJobs => status[j] # "absent"
        BY DEF Init
      <3>4. ~(inflight[j] > 0)
        BY <3>1
      <3>5. QED
        BY <3>2, <3>3, <3>4, Zenon
    <2>4. QED
      BY <2>1, <2>2, <2>3 DEF ControlInv
  <1>3. \A t \in Tenants : log[t] = <<>> /\ Len(log[t]) = 0
    BY DEF Init
  <1>4. \A j \in Jobs : ~InLog(j)
    BY <1>1, <1>3, ConstantsAssumption DEF InLog, Occurs, TypeOK, RequestTypeOK
  <1>5. PublishOnce /\ OwnReceipt /\ OwnBinding
    BY <1>4 DEF Init, PublishOnce, OwnReceipt, OwnBinding, NotBuilt
  <1>6. NoDoublePublish
    BY <1>3 DEF NoDoublePublish
  <1>7. QED
    BY <1>1, <1>2, <1>5, <1>6 DEF IInv, LogInv

\* Every action of a handler, a worker, the reaper, the broker or the clock preserves it.
LEMMA StepIInv ==
  ASSUME IInv, [Next]_vars
  PROVE  IInv'
  <1>1. TypeOK /\ WorkerHolds /\ ControlInv
    BY DEF IInv, ControlInv
  <1>2. TypeOK'
    BY <1>1, RowType, LeaseType, RequestType, WorkerType, IndexType DEF TypeOK
  <1>3. ControlInv'
    BY <1>1, WorkerHoldsStep, OneWorkerPerJobStep, HandlerControlStep, DeliveredStep DEF ControlInv
  <1>4. LogInv'
    BY PublishOnceStep, OwnReceiptStep, NoDoublePublishStep, OwnBindingStep DEF LogInv
  <1>5. QED
    BY <1>2, <1>3, <1>4 DEF IInv

\* The inductive invariant holds in every behaviour.
THEOREM Invariance == Spec => []IInv
  <1>1. Init => IInv
    BY InitIInv
  <1>2. IInv /\ [Next]_vars => IInv'
    BY StepIInv
  <1>3. QED
    BY <1>1, <1>2, PTL DEF Spec

\* Type correctness of the rows, the handlers, the workers and the index.
THEOREM TypeCorrectness == Spec => []TypeOK
  <1>1. IInv => TypeOK
    BY DEF IInv
  <1>2. QED
    BY <1>1, Invariance, PTL

\* However messages are duplicated, lost or raced for, and whatever crashes,
\* a job's build switches its tenant's index at most once.
THEOREM OnePublishPerJob == Spec => []NoDoublePublish
  <1>1. IInv => NoDoublePublish
    BY DEF IInv, LogInv
  <1>2. QED
    BY <1>1, Invariance, PTL

\* A completed job names the generation its own build published.
THEOREM CompletedBinding == Spec => []CompletedBindsOwnGeneration
  <1>1. IInv => CompletedBindsOwnGeneration
    BY DEF IInv, LogInv, OwnBinding, Published, Entry, CompletedBindsOwnGeneration
  <1>2. QED
    BY <1>1, Invariance, PTL

\* Messages and executions exist only for jobs whose source is ready.
THEOREM DeliveryAfterSource == Spec => []OnlyReadyJobsAreDelivered
  <1>1. IInv => OnlyReadyJobsAreDelivered
    BY DEF IInv, ControlInv, Delivered, WorkerHolds, OnlyReadyJobsAreDelivered
  <1>2. QED
    BY <1>1, Invariance, PTL

\* Terminal rows are final, although the handler's updates are unconditional.
THEOREM TerminalFinality == Spec => TerminalIsFinal
  <1> DEFINE Final == \A j \in Jobs : status[j] \in Terminal =>
                          status'[j] = status[j] /\ bound'[j] = bound[j]
  <1>1. IInv /\ [Next]_vars => [Final]_vars
    BY TerminalStep
  <1>2. QED
    BY <1>1, Invariance, PTL DEF Spec, TerminalIsFinal

\* Together: the safety of the job rows that the runs check.
THEOREM JobsAreSafe == Spec => []JobSafety
  <1>1. TypeOK /\ NoDoublePublish /\ CompletedBindsOwnGeneration /\ OnlyReadyJobsAreDelivered
            => JobSafety
    BY DEF JobSafety
  <1>2. QED
    BY <1>1, TypeCorrectness, OnePublishPerJob, CompletedBinding, DeliveryAfterSource, PTL
----------------------------------------------------------------------------
(* Idempotency keys.                                                       *)

\* Two requests under one tenant's key.
SameKey(i, j) == req[i].tenant = req[j].tenant /\ req[i].key = req[j].key /\ req[i].key # NoKey

\* A handler that has not given up has a row to work on or to answer with.
HasRow == {"accepted", "replayed", "indexed"} \cup RequestBusy

\* The unique constraint: rows differ by their keys.
KeysUnique == \A i, j \in Jobs : Exists(i) /\ Exists(j) /\ SameKey(i, j) => i = j

\* What a request answers with is its own row, or one under its key with its payload.
TargetFits ==
    \A r \in Jobs :
        /\ rpc[r] \in HasRow => Exists(target[r])
        /\ \/ target[r] = r
           \/ SameKey(target[r], r) /\ req[target[r]].payload = req[r].payload

KeyInv == KeysUnique /\ TargetFits

\* Rows come into being by CreateJob only and are never removed, and nobody
\* else than a new request chooses a row or turns to one.
LEMMA RowsStay ==
  ASSUME IInv, [Next]_vars
  PROVE  \/ \E r \in Jobs : CreateJob(r) \/ ReuseJob(r)
         \/ /\ UNCHANGED <<req, target>>
            /\ \A j \in Jobs : Exists(j)' <=> Exists(j)
            /\ \A r \in Jobs : rpc'[r] \in HasRow => rpc[r] \in HasRow
  <1> DEFINE Kept == /\ UNCHANGED <<req, target>>
                     /\ \A j \in Jobs : Exists(j)' <=> Exists(j)
                     /\ \A r \in Jobs : rpc'[r] \in HasRow => rpc[r] \in HasRow
  <1> USE DEF IInv, TypeOK, RowTypeOK, RequestTypeOK
  <1>1. ASSUME NEW r \in Jobs,
               \/ PlaceFile(r) \/ PlaceFileFails(r) \/ LoadForCategories(r) \/ PublishTask(r)
               \/ PublishTaskFails(r) \/ ReloadDocs(r) \/ RebuildOk(r) \/ RebuildFails(r)
               \/ RequestDies(r) \/ MarkSourceReady(r)
        PROVE  Kept
    <2>1. UNCHANGED <<req, target, status>>
      BY <1>1 DEF PlaceFile, PlaceFileFails, LoadForCategories, PublishTask, PublishTaskFails,
                  ReloadDocs, RebuildOk, RebuildFails, RequestDies, MarkSourceReady, rowVars, reqVars
    <2>2. \/ rpc' = rpc
          \/ /\ \E place \in {"idle"} \cup RequestBusy \cup Answers : rpc' = [rpc EXCEPT ![r] = place]
             /\ rpc[r] \in RequestBusy \/ (rpc[r] = "idle" /\ rpc'[r] = "error")
      <3>1. CASE PlaceFile(r) \/ PlaceFileFails(r) \/ MarkSourceReady(r)
        BY <3>1 DEF PlaceFile, PlaceFileFails, MarkSourceReady, Goto, RequestBusy, Answers
      <3>2. CASE LoadForCategories(r) \/ PublishTask(r) \/ PublishTaskFails(r)
        BY <3>2 DEF LoadForCategories, PublishTask, PublishTaskFails, Goto, RequestBusy, Answers
      <3>3. CASE ReloadDocs(r) \/ RebuildOk(r) \/ RebuildFails(r) \/ RequestDies(r)
        BY <3>3 DEF ReloadDocs, RebuildOk, RebuildFails, RequestDies, AfterRebuildFails, Goto,
                    RequestBusy, Answers, reqVars
      <3>4. QED
        BY <1>1, <3>1, <3>2, <3>3
    <2>3. QED
      BY <2>1, <2>2 DEF Exists, HasRow, RequestBusy
  <1>2. ASSUME NEW r \in Jobs, MarkJobRunning(r) \/ MarkJobCompleted(r) \/ MarkJobFailed(r)
        PROVE  Kept
    <2>1. /\ UNCHANGED <<req, target>> /\ rpc[r] \in RequestBusy
          /\ \E place \in RequestBusy \cup Answers : rpc' = [rpc EXCEPT ![r] = place]
          /\ \E s \in {"running", "completed", "failed"} : status' = [status EXCEPT ![r] = s]
      BY <1>2 DEF MarkJobRunning, MarkJobCompleted, MarkJobFailed, Goto, RequestBusy, Answers
    <2>2. status[r] # "absent"
      BY <1>2 DEF MarkJobRunning, MarkJobCompleted, MarkJobFailed, ControlInv, HandlerControl
    <2>3. QED
      BY <2>1, <2>2 DEF Exists, HasRow
  <1>3. ASSUME NEW w \in Workers, ClaimRunning(w) PROVE Kept
    <2>1. PICK j \in Jobs : Claimable(j) /\ status' = [status EXCEPT ![j] = "running"]
      BY <1>3 DEF ClaimRunning
    <2>2. UNCHANGED <<req, target, rpc>>
      BY <1>3 DEF ClaimRunning, reqVars
    <2>3. QED
      BY <2>1, <2>2 DEF Claimable, Exists
  <1>4. ASSUME NEW w \in Workers, MarkCompleted(w) \/ MarkFailed(w) PROVE Kept
    <2>1. /\ UNCHANGED <<req, target, rpc>>
          /\ \E s \in {"completed", "failed"} : status' = [status EXCEPT ![wjob[w]] = s]
      BY <1>4 DEF MarkCompleted, MarkFailed, Finish, reqVars
    <2>2. Owns(w)
      BY <1>4 DEF MarkCompleted, MarkFailed, Finish, MayFinish
    <2>3. QED
      BY <2>1, <2>2 DEF Owns, Exists
  <1>5. CASE ReapStaleJobs
    <2>1. /\ UNCHANGED <<req, target, rpc>>
          /\ \A j \in Jobs : status'[j] = IF Stale(j) THEN "failed" ELSE status[j]
      BY <1>5 DEF ReapStaleJobs, reqVars
    <2>2. \A j \in Jobs : Stale(j) => status[j] # "absent"
      BY DEF Stale, QueuedIsStale, LeaseExpired, LegacyRunning
    <2>3. QED
      BY <2>1, <2>2 DEF Exists
  <1>6. CASE \/ \E w \in Workers : \/ RequireLiveLease(w) \/ LoadDocuments(w) \/ BuildVectorStore(w)
                                  \/ WorkFails(w) \/ AbandonWork(w) \/ HeartbeatTick(w)
             \/ \E j \in Jobs : DropDelivery(j)
             \/ Tick \/ UNCHANGED vars
    <2>1. UNCHANGED <<req, target, rpc, status>>
      BY <1>6 DEF RequireLiveLease, LoadDocuments, BuildVectorStore, WorkFails, AbandonWork,
                  HeartbeatTick, DropDelivery, Tick, vars, rowVars, reqVars
    <2>2. QED
      BY <2>1 DEF Exists
  <1>7. QED
    BY <1>1, <1>2, <1>3, <1>4, <1>5, <1>6 DEF Next, Upload, WorkStep

\* A new row is under a key that no other row has; a replay takes the one row there is.
LEMMA KeyStep ==
  ASSUME IInv, KeyInv, [Next]_vars
  PROVE  KeyInv'
  <1> USE DEF IInv, TypeOK, RowTypeOK, RequestTypeOK
  <1>1. ASSUME NEW r \in Jobs, CreateJob(r) PROVE KeyInv'
    <2>1. /\ UNCHANGED <<req, target>> /\ KeyHolder(r) = {} /\ rpc[r] = "idle"
          /\ status' = [status EXCEPT ![r] = "queued"] /\ rpc' = [rpc EXCEPT ![r] = "place"]
      BY <1>1 DEF CreateJob, Goto
    <2>2. \A j \in Jobs : Exists(j)' <=> Exists(j) \/ j = r
      BY <2>1 DEF Exists
    <2>3. \A j \in Jobs : Exists(j) => ~SameKey(j, r) /\ ~SameKey(r, j)
      BY <2>1 DEF KeyHolder, SameKey
    <2>4. KeysUnique'
      BY <2>1, <2>2, <2>3 DEF KeyInv, KeysUnique, SameKey
    <2>5. target[r] = r
      BY <2>1 DEF ControlInv, HandlerControl
    <2>6. TargetFits'
      BY <2>1, <2>2, <2>5 DEF KeyInv, TargetFits, SameKey
    <2>7. QED
      BY <2>4, <2>6 DEF KeyInv
  <1>2. ASSUME NEW r \in Jobs, ReuseJob(r) PROVE KeyInv'
    <2>1. PICK j \in KeyHolder(r) :
             IF SamePayload(r, j)
             THEN /\ target' = [target EXCEPT ![r] = j]
                  /\ Goto(r, IF Republishable(j) THEN "republish" ELSE "replayed")
             ELSE Goto(r, "conflict") /\ UNCHANGED target
      BY <1>2 DEF ReuseJob
    <2>2. /\ UNCHANGED <<req, status>> /\ j \in Jobs /\ Exists(j) /\ SameKey(j, r)
      BY <1>2 DEF ReuseJob, KeyHolder, SameKey, rowVars
    <2>3. KeysUnique'
      BY <2>2 DEF KeyInv, KeysUnique, SameKey, Exists
    <2>4. CASE SamePayload(r, j)
      <3>1. /\ target'[r] = j /\ req[j].payload = req[r].payload
            /\ \A q \in Jobs \ {r} : target'[q] = target[q] /\ rpc'[q] = rpc[q]
        BY <2>1, <2>4 DEF SamePayload, Goto
      <3>2. TargetFits'
        BY <2>2, <3>1 DEF KeyInv, TargetFits, SameKey, Exists
      <3>3. QED
        BY <2>3, <3>2 DEF KeyInv
    <2>5. CASE ~SamePayload(r, j)
      <3>1. UNCHANGED target /\ rpc' = [rpc EXCEPT ![r] = "conflict"]
        BY <2>1, <2>5 DEF Goto
      <3>2. TargetFits'
        BY <2>2, <3>1 DEF KeyInv, TargetFits, SameKey, Exists, HasRow, RequestBusy
      <3>3. QED
        BY <2>3, <3>2 DEF KeyInv
    <2>6. QED
      BY <2>4, <2>5
  <1>3. ASSUME UNCHANGED <<req, target>>,
               \A j \in Jobs : Exists(j)' <=> Exists(j),
               \A r \in Jobs : rpc'[r] \in HasRow => rpc[r] \in HasRow
        PROVE  KeyInv'
    <2>1. KeysUnique'
      BY <1>3 DEF KeyInv, KeysUnique, SameKey
    <2>2. TargetFits'
      BY <1>3 DEF KeyInv, TargetFits, SameKey
    <2>3. QED
      BY <2>1, <2>2 DEF KeyInv
  <1>4. QED
    BY <1>1, <1>2, <1>3, RowsStay

\* Two uploads under one key of one tenant that were both taken are one job
\* and carry one payload, whatever dies, is replayed or raced for.
THEOREM KeysNameOneJob == Spec => []OneJobPerKey
  <1>1. Init => KeyInv
    <2> SUFFICES ASSUME Init PROVE KeyInv
      OBVIOUS
    <2>1. \A j \in Jobs : (Exists(j) <=> j \in LegacyJobs) /\ target[j] = j
      BY DEF Init, Exists
    <2>2. KeysUnique
      BY <2>1 DEF Init, KeysUnique, SameKey
    <2>3. \A r \in Jobs : rpc[r] \in HasRow => r \in LegacyJobs
      BY DEF Init, HasRow, RequestBusy
    <2>4. QED
      BY <2>1, <2>2, <2>3 DEF KeyInv, TargetFits
  <1>2. IInv /\ KeyInv /\ [Next]_vars => KeyInv'
    BY KeyStep
  <1>3. IInv /\ KeyInv => OneJobPerKey
    <2> SUFFICES ASSUME IInv, KeyInv, NEW r \in Jobs, NEW s \in Jobs,
                        {rpc[r], rpc[s]} \subseteq {"accepted", "replayed", "indexed"},
                        SameKey(r, s)
                 PROVE  target[r] = target[s] /\ req[r].payload = req[s].payload
      BY DEF OneJobPerKey, SameKey
    <2>1. target[r] \in Jobs /\ target[s] \in Jobs /\ Exists(target[r]) /\ Exists(target[s])
      BY DEF IInv, TypeOK, RequestTypeOK, KeyInv, TargetFits, HasRow
    <2>2. SameKey(target[r], r) /\ req[target[r]].payload = req[r].payload
      BY DEF KeyInv, TargetFits, SameKey
    <2>3. SameKey(target[s], s) /\ req[target[s]].payload = req[s].payload
      BY DEF KeyInv, TargetFits, SameKey
    <2>4. SameKey(target[r], target[s])
      BY <2>2, <2>3 DEF SameKey
    <2>5. target[r] = target[s]
      BY <2>1, <2>4 DEF KeyInv, KeysUnique
    <2>6. QED
      BY <2>2, <2>3, <2>5
  <1>4. QED
    BY <1>1, <1>2, <1>3, Invariance, PTL DEF Spec

----------------------------------------------------------------------------
(* The lease of a worker that beats on time.                               *)

\* As long as no heartbeat failed, a running execution holds the lease of its job, and
\* the lease outlives the next heartbeat.
LeaseOutlivesBeat ==
    \A w \in Workers : Busy(w) /\ ~lost[w] => /\ wtok[w] # 0
                                              /\ Owns(w)
                                              /\ beat[w] < left[wjob[w]]

\* What a lease that is set now has left, and that it outlasts a heartbeat.
LEMMA LeaseLasts ==
  ASSUME ClocksFit, NEW o \in Offsets
  PROVE  LeaseFor(o) \in Nat /\ Heartbeat < LeaseFor(o)
  BY ConstantsAssumption DEF ClocksFit, LeaseFor

\* Only the clock and the reaper could take a lease away: the clock waits for a heartbeat
\* that is due, and the reaper finds no lease with time left expired.
LEMMA LeaseStep ==
  ASSUME IInv, LeaseOutlivesBeat, Punctual, ClocksFit, [Next]_vars
  PROVE  LeaseOutlivesBeat'
  <1> USE DEF IInv, TypeOK, RowTypeOK, LeaseTypeOK, WorkerTypeOK
  <1> DEFINE Holds(w) == wtok[w] # 0 /\ Owns(w) /\ beat[w] < left[wjob[w]]
  <1>0. \A w \in Workers : Busy(w) => wjob[w] \in Jobs /\ Async(wjob[w])
    BY DEF ControlInv, WorkerHolds
  <1>1. ASSUME NEW w \in Workers, ClaimRunning(w) PROVE LeaseOutlivesBeat'
    <2>1. PICK j \in Jobs, o \in Offsets :
             /\ Claimable(j)
             /\ status' = [status EXCEPT ![j] = "running"]
             /\ lease' = [lease EXCEPT ![j] = issued + 1]
             /\ left' = [left EXCEPT ![j] = LeaseFor(o)]
             /\ wjob' = [wjob EXCEPT ![w] = j]
             /\ wtok' = [wtok EXCEPT ![w] = issued + 1]
      BY <1>1 DEF ClaimRunning
    <2>2. /\ wpc' = [wpc EXCEPT ![w] = "pre_load"]
          /\ lost' = [lost EXCEPT ![w] = FALSE]
          /\ beat' = [beat EXCEPT ![w] = Heartbeat]
      BY <1>1 DEF ClaimRunning
    <2>3. Holds(w)'
      BY <2>1, <2>2, LeaseLasts, ConstantsAssumption DEF Owns
    <2>4. ASSUME NEW v \in Workers \ {w}, Busy(v), ~lost[v] PROVE Holds(v)'
      <3>1. wjob[v] # j /\ wjob[v] \in Jobs /\ Holds(v)
        BY <1>0, <2>1, <2>4 DEF Claimable, LeaseOutlivesBeat, Owns
      <3>2. QED
        BY <2>1, <2>2, <3>1 DEF Owns
    <2>5. QED
      BY <2>2, <2>3, <2>4 DEF LeaseOutlivesBeat, Busy
  <1>2. ASSUME NEW w \in Workers, RequireLiveLease(w) \/ HeartbeatTick(w) PROVE LeaseOutlivesBeat'
    <2>1. /\ UNCHANGED <<status, lease, wjob, wtok>>
          /\ Busy(w) /\ wjob[w] \in Jobs
          /\ \A v \in Workers : Busy(v)' => Busy(v)
          /\ \A v \in Workers \ {w} : UNCHANGED <<lost[v], beat[v]>>
      BY <1>0, <1>2 DEF RequireLiveLease, HeartbeatTick, Busy, WorkerBusy, Probing
    <2>2. \/ lost'[w]
          \/ /\ \E o \in Offsets : left' = [left EXCEPT ![wjob[w]] = LeaseFor(o)]
             /\ beat'[w] \in 0..Heartbeat /\ ~lost[w]
      BY <1>2, ConstantsAssumption DEF RequireLiveLease, HeartbeatTick, ExtendLease
    <2>3. (\E o \in Offsets : left' = [left EXCEPT ![wjob[w]] = LeaseFor(o)]) \/ UNCHANGED left
      BY <1>2 DEF RequireLiveLease, HeartbeatTick, ExtendLease
    <2>4. ~lost'[w] => Holds(w)'
      <3> SUFFICES ASSUME ~lost'[w] PROVE Holds(w)'
        OBVIOUS
      <3>1. PICK o \in Offsets : left' = [left EXCEPT ![wjob[w]] = LeaseFor(o)]
        BY <2>2
      <3>2. left'[wjob[w]] = LeaseFor(o) /\ beat'[w] \in 0..Heartbeat /\ ~lost[w]
        BY <2>1, <2>2, <3>1
      <3>3. beat'[w] < left'[wjob[w]]
        BY <3>2, LeaseLasts, ConstantsAssumption
      <3> QED
        BY <2>1, <3>2, <3>3 DEF Owns, LeaseOutlivesBeat
    <2>5. ASSUME NEW v \in Workers \ {w}, Busy(v), ~lost[v] PROVE Holds(v)'
      <3>1. wjob[v] # wjob[w] /\ wjob[v] \in Jobs /\ Holds(v)
        BY <1>0, <2>1, <2>5 DEF ControlInv, OneWorkerPerJob, LeaseOutlivesBeat
      <3>2. QED
        BY <2>1, <2>3, <3>1 DEF Owns
    <2>6. QED
      BY <2>1, <2>4, <2>5 DEF LeaseOutlivesBeat
  <1>3. ASSUME NEW w \in Workers, MarkCompleted(w) \/ MarkFailed(w) PROVE LeaseOutlivesBeat'
    <2>1. /\ \E s \in {"completed", "failed"} : status' = [status EXCEPT ![wjob[w]] = s]
          /\ lease' = [lease EXCEPT ![wjob[w]] = 0]
          /\ left' = [left EXCEPT ![wjob[w]] = 0]
          /\ wpc' = [wpc EXCEPT ![w] = "idle"]
          /\ \A v \in Workers \ {w} : UNCHANGED <<wjob[v], wtok[v], lost[v], beat[v]>>
          /\ Busy(w)
      BY <1>3 DEF MarkCompleted, MarkFailed, Finish, Leave, Busy, WorkerBusy
    <2>2. ASSUME NEW v \in Workers \ {w}, Busy(v), ~lost[v] PROVE Holds(v)'
      <3>1. wjob[v] # wjob[w] /\ wjob[v] \in Jobs /\ wjob[w] \in Jobs /\ Holds(v)
        BY <1>0, <2>1, <2>2 DEF ControlInv, OneWorkerPerJob, LeaseOutlivesBeat
      <3>2. QED
        BY <2>1, <3>1 DEF Owns
    <2>3. QED
      BY <2>1, <2>2 DEF LeaseOutlivesBeat, Busy, WorkerBusy, Probing
  <1>4. ASSUME NEW w \in Workers, AbandonWork(w) PROVE LeaseOutlivesBeat'
    <2>1. /\ UNCHANGED <<status, lease, left>>
          /\ wpc' = [wpc EXCEPT ![w] = "idle"]
          /\ \A v \in Workers \ {w} : UNCHANGED <<wjob[v], wtok[v], lost[v], beat[v]>>
      BY <1>4 DEF AbandonWork, Leave, rowVars
    <2>2. QED
      BY <2>1 DEF LeaseOutlivesBeat, Busy, WorkerBusy, Probing, Owns
  <1>5. ASSUME NEW w \in Workers, LoadDocuments(w) \/ BuildVectorStore(w) \/ WorkFails(w)
        PROVE  LeaseOutlivesBeat'
    <2>1. /\ UNCHANGED <<status, lease, left, wjob, wtok, lost, beat>>
          /\ \A v \in Workers : Busy(v)' => Busy(v)
      BY <1>5 DEF LoadDocuments, BuildVectorStore, WorkFails, rowVars, Busy, WorkerBusy, Probing
    <2>2. QED
      BY <2>1 DEF LeaseOutlivesBeat, Owns
  <1>6. CASE ReapStaleJobs
    <2>1. /\ UNCHANGED <<wpc, wjob, wtok, lost, beat>>
          /\ \A j \in Jobs : ~Stale(j) => UNCHANGED <<status[j], lease[j], left[j]>>
      BY <1>6 DEF ReapStaleJobs, workVars
    <2>2. ASSUME NEW v \in Workers, Busy(v), ~lost[v] PROVE Holds(v)'
      <3>1. wjob[v] \in Jobs /\ Holds(v) /\ beat[v] \in Nat /\ left[wjob[v]] \in Nat
        BY <1>0, <2>2, ConstantsAssumption DEF LeaseOutlivesBeat
      <3>2. ~Stale(wjob[v])
        BY <3>1 DEF Stale, QueuedIsStale, LeaseExpired, LegacyRunning, Owns
      <3>3. QED
        BY <2>1, <3>1, <3>2 DEF Owns
    <2>3. QED
      BY <2>1, <2>2 DEF LeaseOutlivesBeat, Busy
  <1>7. CASE Tick
    <2>1. /\ UNCHANGED <<status, lease, wpc, wjob, wtok, lost>>
          /\ \A v \in Workers : beat'[v] = Less1(beat[v]) /\ ~BeatDue(v)
          /\ \A j \in Jobs : left'[j] = Less1(left[j])
      BY <1>7 DEF Tick
    <2>2. ASSUME NEW v \in Workers, Busy(v), ~lost[v] PROVE Holds(v)'
      <3>1. /\ wjob[v] \in Jobs /\ Holds(v) /\ beat[v] \in Nat /\ left[wjob[v]] \in Nat
            /\ beat[v] # 0
        BY <1>0, <2>1, <2>2, ConstantsAssumption DEF LeaseOutlivesBeat, BeatDue
      <3>2. beat'[v] < left'[wjob[v]]
        BY <2>1, <3>1 DEF Less1
      <3>3. QED
        BY <2>1, <3>1, <3>2 DEF Owns
    <2>3. QED
      BY <2>1, <2>2 DEF LeaseOutlivesBeat, Busy
  <1>8. ASSUME NEW r \in Jobs,
               CreateJob(r) \/ MarkJobRunning(r) \/ MarkJobCompleted(r) \/ MarkJobFailed(r)
        PROVE  LeaseOutlivesBeat'
    <2>1. /\ UNCHANGED <<lease, left, wpc, wjob, wtok, lost, beat>>
          /\ \A j \in Jobs \ {r} : UNCHANGED status[j]
      BY <1>8 DEF CreateJob, MarkJobRunning, MarkJobCompleted, MarkJobFailed, workVars
    <2>2. status[r] # "running" \/ ~Async(r)
      BY <1>8 DEF CreateJob, MarkJobRunning, MarkJobCompleted, MarkJobFailed, ControlInv, HandlerControl
    <2>3. \A v \in Workers : Busy(v) /\ ~lost[v] => wjob[v] \in Jobs \ {r} /\ Holds(v)
      BY <1>0, <2>2 DEF LeaseOutlivesBeat, Owns
    <2>4. QED
      BY <2>1, <2>3 DEF LeaseOutlivesBeat, Owns, Busy
  <1>9. CASE
         \/ \E r \in Jobs : ReuseJob(r) \/ PlaceFile(r) \/ PlaceFileFails(r) \/
                MarkSourceReady(r) \/ LoadForCategories(r) \/ PublishTask(r) \/
                PublishTaskFails(r) \/ ReloadDocs(r) \/ RebuildOk(r) \/ RebuildFails(r) \/
                RequestDies(r)
         \/ \E j \in Jobs : DropDelivery(j)
         \/ UNCHANGED vars
    <2>1. UNCHANGED <<status, lease, left, wpc, wjob, wtok, lost, beat>>
      BY <1>9 DEF ReuseJob, PlaceFile, PlaceFileFails, MarkSourceReady, LoadForCategories,
                  PublishTask, PublishTaskFails, ReloadDocs, RebuildOk, RebuildFails, RequestDies,
                  DropDelivery, vars, rowVars, workVars
    <2>2. QED
      BY <2>1 DEF LeaseOutlivesBeat, Busy, Owns
  <1>10. QED
    BY <1>1, <1>2, <1>3, <1>4, <1>5, <1>6, <1>7, <1>8, <1>9 DEF Next, Upload, WorkStep

\* A worker that beats on time and has not lost its lease is never reaped, for any number
\* of workers and any clocks that a heartbeat and the worst offset leave within the lease.
THEOREM PunctualOwnerKeepsLease == Spec => []OwnerIsNotReaped
  <1>1. Init => (Punctual /\ ClocksFit => LeaseOutlivesBeat)
    BY DEF Init, LeaseOutlivesBeat, Busy, WorkerBusy, Probing
  <1>2. IInv /\ (Punctual /\ ClocksFit => LeaseOutlivesBeat) /\ [Next]_vars
          => (Punctual /\ ClocksFit => LeaseOutlivesBeat)'
    BY LeaseStep DEF ClocksFit
  <1>3. IInv /\ (Punctual /\ ClocksFit => LeaseOutlivesBeat) => OwnerIsNotReaped
    <2> SUFFICES ASSUME IInv, Punctual, ClocksFit, LeaseOutlivesBeat, NEW w \in Workers, Busy(w), ~lost[w]
                 PROVE  Owns(w) /\ left[wjob[w]] > 0
      BY DEF OwnerIsNotReaped
    <2>1. /\ wjob[w] \in Jobs /\ beat[w] \in Nat /\ left[wjob[w]] \in Nat
          /\ Owns(w) /\ beat[w] < left[wjob[w]]
      BY ConstantsAssumption
      DEF IInv, TypeOK, RowTypeOK, WorkerTypeOK, ControlInv, WorkerHolds, LeaseOutlivesBeat
    <2>2. QED
      BY <2>1
  <1>4. QED
    BY <1>1, <1>2, <1>3, Invariance, PTL DEF Spec

----------------------------------------------------------------------------
(* The job contract of JobLifecycle.                                       *)

\* A switch of the index by one job, seen from the contract.
LEMMA SwitchIsAllowed ==
  ASSUME IInv, NEW e \in Executors, NEW j \in Jobs, SwitchIndex(e, j), UNCHANGED <<req, status>>,
         ~InLog(j), status[j] \in {"running", "failed"}
  PROVE  Lifecycle!SwitchIndex(j)
  <1> DEFINE Built(k) == \E i \in 1..Len(log[req[k].tenant]) : log[req[k].tenant][i] = k
  <1>1. \A k \in Jobs : InLog(k)' <=> InLog(k) \/ k = j
    BY SwitchLog DEF IInv
  <1>2. \A k \in Jobs : (Built(k) <=> InLog(k)) /\ (Built(k)' <=> InLog(k)')
    BY DEF InLog, Occurs
  <1>3. Built(j)' = TRUE /\ \A k \in Jobs : k # j => Built(k)' = Built(k)
    BY <1>1, <1>2, Zenon
  <1> HIDE DEF Built
  <1>4. [k \in Jobs |-> Built(k)'] = [[k \in Jobs |-> Built(k)] EXCEPT ![j] = TRUE]
    BY <1>3
  <1>5. ~[k \in Jobs |-> Built(k)][j]
    BY <1>2
  <1>6. QED
    BY <1>4, <1>5 DEF Built, Lifecycle!SwitchIndex

\* Every step of a handler, a worker or the reaper is a step of the contract, or none.
LEMMA LifecycleStep ==
  ASSUME IInv, [Next]_vars
  PROVE  [Lifecycle!Next]_Lifecycle!lifecycleVars
  <1> USE DEF IInv, TypeOK, RowTypeOK
  <1>0. ASSUME UNCHANGED <<req, status, log>> PROVE UNCHANGED Lifecycle!lifecycleVars
    BY <1>0 DEF Lifecycle!lifecycleVars
  <1>1. ASSUME NEW r \in Jobs, CreateJob(r) PROVE Lifecycle!Submit(r)
    <2>1. /\ status[r] = "absent" /\ status' = [status EXCEPT ![r] = "queued"]
          /\ UNCHANGED <<req, log>>
      BY <1>1 DEF CreateJob, indexVars, ControlInv, HandlerControl
    <2>2. QED
      BY <2>1 DEF Lifecycle!Submit, Lifecycle!Move
  <1>2. ASSUME NEW r \in Jobs, MarkJobRunning(r) PROVE Lifecycle!Start(r)
    <2>1. /\ status[r] = "queued" /\ status' = [status EXCEPT ![r] = "running"]
          /\ UNCHANGED <<req, log>>
      BY <1>2 DEF MarkJobRunning, indexVars, ControlInv, HandlerControl
    <2>2. QED
      BY <2>1 DEF Lifecycle!Start, Lifecycle!Move
  <1>3. ASSUME NEW w \in Workers, ClaimRunning(w) PROVE \E j \in Jobs : Lifecycle!Start(j)
    <2>1. PICK j \in Jobs : status[j] = "queued" /\ status' = [status EXCEPT ![j] = "running"]
      BY <1>3 DEF ClaimRunning, Claimable
    <2>2. UNCHANGED <<req, log>>
      BY <1>3 DEF ClaimRunning, indexVars
    <2>3. Lifecycle!Start(j)
      BY <2>1, <2>2 DEF Lifecycle!Start, Lifecycle!Move
    <2>4. QED
      BY <2>3
  <1>4. ASSUME NEW j \in Jobs, InLog(j), status[j] = "running",
               status' = [status EXCEPT ![j] = "completed"], UNCHANGED <<req, log>>
        PROVE  Lifecycle!Complete(j)
    BY <1>4 DEF InLog, Occurs, Lifecycle!Complete, Lifecycle!Move
  <1>5. ASSUME NEW r \in Jobs, MarkJobCompleted(r) PROVE Lifecycle!Complete(r)
    <2>1. /\ status[r] = "running" /\ status' = [status EXCEPT ![r] = "completed"]
          /\ UNCHANGED <<req, log>>
      BY <1>5 DEF MarkJobCompleted, indexVars, ControlInv, HandlerControl
    <2>2. InLog(r)
      BY <1>5 DEF MarkJobCompleted, LogInv, OwnReceipt, Published, Entry, InLog, Occurs
    <2>3. QED
      BY <1>4, <2>1, <2>2
  <1>6. ASSUME NEW w \in Workers, MarkCompleted(w) PROVE \E j \in Jobs : Lifecycle!Complete(j)
    <2>1. /\ status[wjob[w]] = "running" /\ status' = [status EXCEPT ![wjob[w]] = "completed"]
          /\ UNCHANGED <<req, log>> /\ wpc[w] = "complete"
      BY <1>6 DEF MarkCompleted, Finish, MayFinish, Owns
    <2>2. wjob[w] \in Jobs
      BY <2>1 DEF ControlInv, WorkerHolds, Busy, WorkerBusy
    <2>3. PICK j \in Jobs : j = wjob[w]
      BY <2>2
    <2>4. InLog(j)
      BY <2>1, <2>3 DEF LogInv, OwnReceipt, Published, Entry, InLog, Occurs
    <2>5. Lifecycle!Complete(j)
      BY <1>4, <2>1, <2>3, <2>4
    <2>6. QED
      BY <2>5
  <1>7. ASSUME NEW J \in SUBSET Jobs, \A j \in J : status[j] \in {"queued", "running"},
               status' = [j \in Jobs |-> IF j \in J THEN "failed" ELSE status[j]],
               UNCHANGED <<req, log>>
        PROVE  Lifecycle!Fail(J)
    BY <1>7 DEF Lifecycle!Fail
  <1>8. ASSUME NEW r \in Jobs, MarkJobFailed(r)
        PROVE  Lifecycle!Fail({r}) \/ UNCHANGED Lifecycle!lifecycleVars
    <2>1. /\ status[r] \in {"queued", "running", "failed"}
          /\ status' = [status EXCEPT ![r] = "failed"]
          /\ UNCHANGED <<req, log>>
      BY <1>8 DEF MarkJobFailed, indexVars, ControlInv, HandlerControl
    <2>2. CASE status[r] = "failed"
      BY <1>0, <2>1, <2>2
    <2>3. CASE status[r] # "failed"
      <3>1. status' = [j \in Jobs |-> IF j \in {r} THEN "failed" ELSE status[j]]
        BY <2>1
      <3>2. QED
        BY <1>7, <2>1, <2>3, <3>1
    <2>4. QED
      BY <2>2, <2>3
  <1>9. ASSUME NEW w \in Workers, MarkFailed(w) PROVE \E J \in SUBSET Jobs : Lifecycle!Fail(J)
    <2>1. /\ status[wjob[w]] = "running" /\ status' = [status EXCEPT ![wjob[w]] = "failed"]
          /\ UNCHANGED <<req, log>> /\ wpc[w] = "failing"
      BY <1>9 DEF MarkFailed, Finish, MayFinish, Owns
    <2>2. wjob[w] \in Jobs
      BY <2>1 DEF ControlInv, WorkerHolds, Busy, WorkerBusy
    <2>3. PICK j \in Jobs : j = wjob[w]
      BY <2>2
    <2>4. status' = [k \in Jobs |-> IF k \in {j} THEN "failed" ELSE status[k]]
      BY <2>1, <2>3
    <2>5. Lifecycle!Fail({j})
      BY <1>7, <2>1, <2>3, <2>4
    <2>6. QED
      BY <2>5
  <1>10. ASSUME ReapStaleJobs PROVE \E J \in SUBSET Jobs : Lifecycle!Fail(J)
    <2> DEFINE J == {j \in Jobs : Stale(j)}
    <2>1. status' = [j \in Jobs |-> IF j \in J THEN "failed" ELSE status[j]]
      BY <1>10 DEF ReapStaleJobs
    <2>2. \A j \in J : status[j] \in {"queued", "running"}
      BY DEF Stale, QueuedIsStale, LeaseExpired, LegacyRunning
    <2>3. UNCHANGED <<req, log>>
      BY <1>10 DEF ReapStaleJobs, indexVars
    <2>4. Lifecycle!Fail(J)
      BY <1>7, <2>1, <2>2, <2>3
    <2>5. QED
      BY <2>4
  <1>11. ASSUME NEW r \in Jobs, RebuildOk(r) \/ RebuildFails(r)
         PROVE  Lifecycle!SwitchIndex(r) \/ UNCHANGED <<req, status, log>>
    <2>1. /\ UNCHANGED <<req, status>> /\ rpc[r] = "build"
          /\ SwitchIndex(r, r) \/ UNCHANGED log
      BY <1>11 DEF RebuildOk, RebuildFails, rowVars, indexVars
    <2>2. status[r] = "running" /\ ~InLog(r) /\ r \in Executors
      BY <2>1 DEF ControlInv, HandlerControl, LogInv, PublishOnce, Executors
    <2>3. QED
      BY <2>1, <2>2, SwitchIsAllowed
  <1>12. ASSUME NEW w \in Workers, BuildVectorStore(w) \/ WorkFails(w)
         PROVE  (\E j \in Jobs : Lifecycle!SwitchIndex(j)) \/ UNCHANGED <<req, status, log>>
    <2>1. /\ UNCHANGED <<req, status>>
          /\ (wpc[w] = "build" /\ SwitchIndex(w, wjob[w])) \/ UNCHANGED log
      BY <1>12 DEF BuildVectorStore, WorkFails, rowVars, indexVars
    <2>2. ASSUME wpc[w] = "build"
          PROVE  /\ wjob[w] \in Jobs /\ w \in Executors /\ ~InLog(wjob[w])
                 /\ status[wjob[w]] \in {"running", "failed"}
      <3>1. /\ wjob[w] \in Jobs /\ w \in Executors /\ ~InLog(wjob[w])
            /\ status[wjob[w]] \in {"running", "completed", "failed"}
        BY <2>2 DEF ControlInv, WorkerHolds, Busy, WorkerBusy, LogInv, PublishOnce, NotBuilt, Executors
      <3>2. status[wjob[w]] # "completed"
        BY <3>1 DEF LogInv, OwnBinding, Published, Entry, InLog, Occurs
      <3>3. QED
        BY <3>1, <3>2
    <2>3. CASE wpc[w] = "build" /\ SwitchIndex(w, wjob[w])
      <3>1. PICK j \in Jobs : j = wjob[w]
        BY <2>2, <2>3
      <3>2. SwitchIndex(w, j) /\ ~InLog(j)
        BY <2>2, <2>3, <3>1 DEF SwitchIndex, InLog, Occurs
      <3>3. Lifecycle!SwitchIndex(j)
        BY <2>1, <2>2, <2>3, <3>1, <3>2, SwitchIsAllowed
      <3>4. QED
        BY <3>3
    <2>4. QED
      BY <2>1, <2>3
  <1>13. CASE
         \/ \E r \in Jobs : ReuseJob(r) \/ PlaceFile(r) \/ PlaceFileFails(r) \/
                MarkSourceReady(r) \/ LoadForCategories(r) \/ PublishTask(r) \/
                PublishTaskFails(r) \/ ReloadDocs(r) \/ RequestDies(r)
         \/ \E w \in Workers : RequireLiveLease(w) \/ LoadDocuments(w) \/ AbandonWork(w) \/
                HeartbeatTick(w)
         \/ \E k \in Jobs : DropDelivery(k)
         \/ Tick \/ UNCHANGED vars
    <2>1. UNCHANGED <<req, status, log>>
      BY <1>13 DEF ReuseJob, PlaceFile, PlaceFileFails, MarkSourceReady, LoadForCategories,
                   PublishTask, PublishTaskFails, ReloadDocs, RequestDies, RequireLiveLease,
                   LoadDocuments, AbandonWork, HeartbeatTick, DropDelivery, Tick, vars, rowVars,
                   indexVars
    <2>2. QED
      BY <1>0, <2>1
  <1>14. \A j \in Jobs : Lifecycle!Submit(j) \/ Lifecycle!Start(j) \/ Lifecycle!SwitchIndex(j)
                             \/ Lifecycle!Complete(j) => Lifecycle!Next
    BY DEF Lifecycle!Next
  <1>15. \A J \in SUBSET Jobs : Lifecycle!Fail(J) => Lifecycle!Next
    BY DEF Lifecycle!Next
  <1>16. QED
    <2>1. ASSUME NEW r \in Jobs, Upload(r) \/ RequestDies(r)
          PROVE  Lifecycle!Next \/ UNCHANGED Lifecycle!lifecycleVars
      BY <1>0, <1>1, <1>2, <1>5, <1>8, <1>11, <1>13, <1>14, <1>15, <2>1 DEF Upload
    <2>2. ASSUME NEW w \in Workers, ClaimRunning(w) \/ WorkStep(w) \/ HeartbeatTick(w)
          PROVE  Lifecycle!Next \/ UNCHANGED Lifecycle!lifecycleVars
      <3>1. CASE MarkCompleted(w) \/ MarkFailed(w)
        BY <1>6, <1>9, <1>14, <1>15, <3>1
      <3>2. CASE BuildVectorStore(w) \/ WorkFails(w)
        BY <1>0, <1>12, <1>14, <3>2
      <3>3. CASE ClaimRunning(w)
        BY <1>3, <1>14, <3>3
      <3>4. CASE RequireLiveLease(w) \/ LoadDocuments(w) \/ AbandonWork(w) \/ HeartbeatTick(w)
        BY <1>13, <3>4
      <3>5. QED
        BY <2>2, <3>1, <3>2, <3>3, <3>4 DEF WorkStep
    <2>3. QED
      BY <1>10, <1>13, <1>15, <2>1, <2>2 DEF Next

\* The handlers, the workers and the reaper together implement the job contract: a job moves
\* forward, ends once, and its build switches the index once, before it is reported completed.
THEOREM JobsImplementLifecycle == Spec => ImplementsLifecycle
  <1>1. Init => Lifecycle!Init
    <2> SUFFICES ASSUME Init PROVE Lifecycle!Init
      OBVIOUS
    <2>1. status \in [Jobs -> {"absent", "running"}]
      BY DEF Init
    <2>2. \A j \in Jobs : ~\E i \in 1..Len(log[req[j].tenant]) : log[req[j].tenant][i] = j
      BY InitIInv, ConstantsAssumption DEF Init, IInv, TypeOK, RequestTypeOK
    <2>3. QED
      BY <2>1, <2>2 DEF Lifecycle!Init
  <1>2. IInv /\ [Next]_vars => [Lifecycle!Next]_Lifecycle!lifecycleVars
    BY LifecycleStep
  <1>3. QED
    BY <1>1, <1>2, Invariance, PTL DEF Spec, ImplementsLifecycle, Lifecycle!Spec
=============================================================================
