# TLA+ models of RAG Support Assistant

A verification project for the parts of RAG Support Assistant whose correctness
depends on the order in which things happen: durable ingestion jobs, the
versioned vector index, conversations and the corrective-RAG graph, and what
lies around them: sessions, caches, model calls, capacity, escalations,
channels, experiments and the files operators look after. Each part has a
module translated from its source and runs of TLC on small instances; for the
parts where a mistake costs most, TLAPS proves the properties for every value
of the constants. Paths below are relative to the repository; `PROJECT.json`
maps every definition to the lines it models.

## 1. Inventory

The program is a FastAPI service with Celery workers. A client uploads
documents, which become the collections of a vector index, and asks questions
in a session; an answer goes out by itself ("auto") or to a human.

```
 upload ──> ingestion_jobs row ──> broker ──> worker ──┐
   │  (other tenants: in the request itself) ──────────┤ tenant lock
   │                               reaper sweeps rows  ▼
   │                                     staged build ─> manifest ─> retention
   │                                                       │
 ask ──> cache? ─> capacity ─> session (turn) ─> graph / tool loop ─> retriever
 mail, chat ┘                     │                └─> models (budget, breaker, failover)
                                  └─> pending action ─> ticket ─> outbox
 traces ─> review queue ─> curated cases ─> regression runs ─> rollout ─> watcher
```

| Component | State | Operations | What is hard | What makes it correct |
|---|---|---|---|---|
| Ingestion jobs (`ingestion/jobs.py`, `liveness.py`, `tasks/ingest_task.py`, `api/routers/upload.py`) | row: status, lease, `source_ready_at`, binding; broker; worker's phase and heartbeat | accept, replay, place, publish, claim, extend, build, complete, fail, reap | duplicated and lost messages, crashes at every step, an expiring lease against a late heartbeat, unconditional updates | one build per job, one job per key, one ending, the binding is the job's own, asynchronous jobs end |
| Vector index (`vectordb/`) | lock, manifest, retention inventory, collections | build, publish, discard, prune, preview, roll back, read | read-then-replace of two files, cleanup that fails, lost lock session, retried operator commands | the served collection is whole; commands do exactly what their keys say; bounded storage |
| Retriever cache and hybrid retrieval (`vectordb/manager.py`, `_base_manager.py`) | caches of store, chunks, retriever; index key; one query's rankings | lookup, open, restore, fill, reset; fuse, rerank, expand | reads outside the lock combined later; overlapping neighbours and a shared budget | a call searches the index it resolved; agreement is respected, no text twice |
| Conversation session (`agent/graph.py`, class `ConversationSession`; streams in `api/routers/conversation.py`) | busy, epoch, turn, history, pending action | ask, confirm, refuse, clear, stream | orphan workers after a wall budget, stale versions, half-failed tickets, appends from the event loop | ordered history, fresh versions, one ticket per action, asks return |
| Support graph (`agent/graph.py`, nodes; `agent/grounding.py`, `doc_grade.py`, `judge_policy.py`, `response_safety.py`) | `GraphState` of one request | thirteen nodes and their edges | state that survives a retry, outages in any node and round, errors that cross unconditional edges | nothing goes out as auto that was not earned in the last round |
| Agentic answers (`agent/graph.py`, `tools.py`, `agentic_measure.py`, `agentic_evaluate.py`) | documents found, tool calls, the reply's citations and score | tool loop, measure, judge, demote | citations looked up in a filtered list, a judge that is the writer | an automatic reply is cited, judged and safe |
| LLM gateway (`llm/`, `utils/circuit_breaker.py`, `retry.py`, `request_deadline.py`) | breaker, budget, deadline, failover cache, money spent | admit, probe, retry, charge, fall back | results that come after the breaker opened; a budget shared by threads; refusals that are swallowed | one probe at a time, recovery, bounded overrun |
| Request capacity (`services/pipeline.py`, `utils/request_executor.py`) | semaphore, pool, turn, event loop | admit, time out, hand over, release, clear | outer timeout against inner budget, disconnects, a loop and a thread that wait for each other | a slot is held as long as its worker runs, and released once |
| API sessions (`api/app.py`, `session_auth.py`, `_shared.py`) | objects in memory, rows and messages, cooldown | look up, restore, evict, persist, read, delete | awaits between look-ups, ids used again, a database that fails | sessions stay with their tenant; what is erased stays erased |
| Answer cache (`cache/`) | entries by generation, in Redis or in the process | look up, store, invalidate, fall back | a key chosen before the turn and the capacity | an entry is of its generation and has no history |
| Escalation and outbox (`services/escalation.py`, `tasks/outbox_retry_task.py`, `integrations/`) | ticket rows with delivery state, inbox | create, deliver, retry, resolve | crash between commit and delivery, passes side by side | one ticket per key; delivered means in the inbox |
| Job objects (`ingestion/job_object_*.py`) | originals, recovery objects, flat file | place, preserve, replace, preview | uploads of one name that overlap or die | no bytes are lost |
| Channels (`channels/`) | mailbox flags, deliveries, the bot's sessions | poll, answer, redeliver, open a chat | a flag set before the answer, redelivery | answered once, and every mail is taken |
| Tracing (`tracing/`) | traces, steps with usage, feedback | log, finish, purge | usage read from a shared object and carried on | charged once, to its caller; purged whole |
| Experiments (`api/routers/admin_experiments.py`, `evaluation/`, `agent/prompt_registry.py`, `scripts/regression_eval.py`, `scripts/review_*.py`) | deployments, runtime file, assignment cache, process-wide overrides, review queue, curated cases | deploy, roll back, watch, measure, decide, import, rebuild | writes after the commit, runs that share one process, stale batches | files follow tables, runs measure their own targets, decisions stay |
| Calibration and thresholds (`agent/calibration.py`, `scripts/recalibrate_routing.py`, `analyze_thresholds.py`) | artifact, cached graphs with their floors | reissue, resolve, compile, suggest | torn files, agreement by chance, ties | claims are earned; the best threshold is found |
| Knowledge base (`scripts/kb_builder.py`, `kb_gap_detector.py`, `api/routers/admin_kb.py`) | drafts, articles in the collection | write, edit, reject, publish, group | index before commit | published was indexed; gaps are components |
| Backups (`scripts/backup_*.py`, `restore_verify.py`) | copies, encryption, manifest | snapshot, audit, drill | stores copied one after another | a valid snapshot restores and is consistent |
| Authentication, monitoring, loaders, single-query endpoints, HTTP limits, configuration, benchmarks | | | no protocol of their own | not modelled, section 7 |

The components meet in a few places. A job's build is one locked build of the
vector index: `IngestionJobs` sees it as a single switch (`SwitchIndex`),
which is what `VectorIndex` is shown to implement. The session calls the graph
or the tool loop while it holds the turn; `AskCapacity`, `AnswerStream` and
`AnswerCache` contain the turn as who holds it, `ConversationSession` what it
protects. The graph calls the retriever, which reads the manifest;
`RetrieverCache` has the manifest as the register that `VectorIndex`
implements. Tickets of a session and of a failed mail are made by `Escalation`.
The hazards this creates, each at its line and with the properties that would
catch it, are listed in `PROJECT.json`.

## 2. Modules

| Module | Models | Checked in | Proofs |
|---|---|---|---|
| `IngestionJobs` | rows, uploads, broker, workers, reaper | `MCIngestionJobs`, `MCOperations`, `MCLiveness` | `IngestionJobs_proofs` |
| `JobLifecycle` | abstract: what a client that polls a job may see | instantiated by `IngestionJobs` | `IngestionJobs_proofs` |
| `VectorIndex` | lock, files, collections, commands, readers of one tenant | `MCVectorIndex`, `MCLiveness` | `VectorIndex_proofs` |
| `IndexRegister` | abstract: the register a reader relies on | instantiated by `VectorIndex` | `VectorIndex_proofs` |
| `ConversationSession` | turns, versions, history, pending action | `MCConversationSession`, `MCLiveness` | `ConversationSession_proofs` |
| `SupportGraph` | one request through all nodes | `MCReleases` | `SupportGraph_proofs` |
| `SessionStore` | sessions in memory and database, owners, what a client is shown | `MCServing` | `SessionStore_proofs` |
| `AnswerCache` | cached answers by generation | `MCServing` | `Answers_proofs` |
| `AnswerStream` | streams, cached and failed asks, one history | `MCServing`, itself | `SessionStore_proofs` |
| `ProviderCalls` | budgets, deadline, failover, daily limit | `MCServing` | `Limits_proofs` |
| `TraceLedger` | steps, usage, feedback, purge | `MCServing` | `Limits_proofs` |
| `RetrieverCache` | `get_retriever` in one process of several | `MCServing` | `Answers_proofs` |
| `HybridRetrieval` | one query: fusion, reranking, expansion | `MCServing` | `Answers_proofs` |
| `AgenticAnswer` | one question through the tool loop | `MCServing` | `Answers_proofs` |
| `NumberOrder` | places and rows in order, for `AgenticAnswer` and `KnowledgeBase` | with them | `Answers_proofs` |
| `ExperimentRollout` | deployments, watcher, assignments | `MCReleases` | `Operations_proofs` |
| `Escalation` | tickets, inbox, passes | `MCOperations` | `Operations_proofs` |
| `RegressionRuns` | overrides and settings of a process, measurements, verdict | `MCReleases` | `Operations_proofs` |
| `ReviewQueue` | scan, decisions, batches, rebuilds | `MCOperations` | `Operations_proofs` |
| `JobObjects` | originals, recovery objects, previews | `MCOperations` | `Operations_proofs` |
| `Backup` | snapshot, audit, drill | `MCReleases` | `Operations_proofs` |
| `KnowledgeBase` | drafts, publication, grouping of gaps | `MCOperations` | `Answers_proofs` |
| `RoutingCalibration` | labels, artifact, floors of cached graphs | `MCOperations` | `Limits_proofs` |
| `ThresholdTuning` | search for the best threshold | `MCOperations` | `Limits_proofs` |
| `AskCapacity` | slots, threads, event loop | `MCLiveness` | `Limits_proofs` |
| `OllamaBreaker` | the circuit breaker and its retries | `MCLiveness` | `Limits_proofs` |
| `Channels` | mail poller, webhook, bot | `MCLiveness` | `Operations_proofs` |

An operator whose comment begins with "Mutant:" is a plausible bug. It stands
before the definition it would replace, and no specification uses it: it
documents which mistake the corresponding property catches.

### IngestionJobs

A job and the upload request that proposes its UUID have one name. The tenant
`Default` goes through the broker; every other tenant is indexed by the request
(`upload.py` decides so). Each database transaction, each broker operation and
each phase of the task is one action; the handler that dies between two of
them is `RequestDies`, the worker `AbandonWork`. `since` and `left` are ages and
remaining times relative to now, so `Tick` moves all clocks at once and no
absolute time is needed. Clocks of different hosts need not agree: the lease is
written by the worker's clock (`_utc_now`, `ingestion/jobs.py:817,855`) and
compared with that of the process that reaps (`ingestion/liveness.py:41,315`).
`left` is measured by the reaper's clock; `Offsets` are the differences a
worker's clock may have from it, and one of them enters, through `LeaseFor`,
whenever a worker writes `lease_expires_at`. `Lease`, `Heartbeat` and the two
staleness limits are the settings, with `Heartbeat < Lease` as the code demands;
that the clocks are close enough for the heartbeat (`ClocksFit`) is demanded
nowhere and is a premise where it is needed. The age of a row that no lease protects
is measured without offsets, and no property rests on it. The message of a
job is a counter: `inflight` grows on publication and on redelivery and may
shrink without delivery (`DropDelivery`). `log[t]` is the sequence of jobs
whose builds switched tenant t's index, so the manifest generation is its
length, and `corpus`/`docs`/`active` follow a document from the directory into
the snapshot a build has loaded and into the index.

### VectorIndex

A collection is a number, 0 the unversioned one. The manifest and the
inventory are each read in one step and replaced in a later one; only the lock
keeps others out in between. Every step may raise; `BuildFails` and `StageFails`
lead to the discard that may fail as well (`AfterCleanupFails`), and a process
may die anywhere (`Crash`), which ends its database session and frees the lock.
Commands carry what the operator's idempotency key fixes: expected generation
and target (`cmd`), or the previewed candidates (`plan`). `HostileNext` adds to
`Next` the two events the code does not defend against: the database drops the
session of a lock that is held (`LoseSession`), and a `KeyboardInterrupt`
arrives between `os.replace` and the return from `publish_active_collection`
(`InterruptPublication`).

### ConversationSession

A caller and its worker have one name. Each critical section of the session's
lock is one step. A budgeted ask hands its work to the executor and may give up
(`OverrunBudget`); its worker goes on as an orphan. Any other ask runs the
flow on its own thread, and so does an ask that is already on an executor
thread. Telegram calls asks from another executor
(`channels/telegram_bot.py:87`), which is why orphans are real. A client
replies to a result (`replyTo`) with or without the version it was returned
with. A history entry is the ask it belongs to; an action has the name of the
ask that proposed it.

### SupportGraph

`s` is `GraphState` reduced to what later nodes and edges read; `node` is the
node that runs next, `Edge` the compiled edges. A model reply is any outcome its
node handles, chosen by `\E`; a provider outage is an action of its own where
the code has a fail-closed path for it, and `NodeFails` is every other
exception. Documents are a set, poisoned ones carry injection markers. Scores
are percentages. `trail` is a history variable that no node reads: it remembers
in which round, and from which documents, the answer was generated, verified
and judged.


### SessionStore, AnswerCache, AnswerStream

Requests of the API process interleave at every `await`, so a step is what the
event loop runs between two of them.

`SessionStore`: an ask (`visit`) looks the session up
(`_get_or_create_session`), commits a row or reads the messages, attaches an
object, runs in it and persists. Any query may fail, which starts the cooldown
(`cooling`), during which memory alone decides. A client that reads its history
is shown the messages of an id whose row is its tenant's, and the turns of an
object its tenant may use (`ReadHistory`, `Shown`). A deletion (`removal`)
checks the owner, empties memory, then the database. Eviction and reuse of an id
by another tenant come at any time, eviction also while a turn runs in the
object: `_cleanup_sessions` looks at the last access only (`api/app.py:1499`),
which is the start of a request. What the pipeline does is one step here: a turn
in `turns`.

`AnswerCache`: a key stands for its generation, as everything else in
`build_llm_response_cache_key` is fixed. `ask` reads the manifest for its
retriever, then again for its key, looks up, waits, and stores (`made`,
`straddled`, `raced` and `context` remember how the answer came about). `link`
is the client's view of Redis, with the retry after an outage; the fallback
dictionary keeps what it was given meanwhile.

`AnswerStream`: the generator of a stream, the thread of its graph, and the
appends of the event loop, which consist of two steps for question and answer
(`writing`), as does the append of the thread. Tokens are whose they are, not
what they say. The turn is who holds it.

### AskCapacity, OllamaBreaker, ProviderCalls

`AskCapacity`: the handler (`phase`) and the thread (`job`) of a request are two
actors; `slot` says who owes the release. Timeouts, disconnects and the callback
of the future are actions of their own. While `loop` is not free no handler
moves: `clear()` holds it until the turn is free or its wait ends. The thread
that stores evaluations waits for the loop, with a timeout.

`OllamaBreaker`: `admitted` says how a call was let in, and becomes "late" when
the circuit changes under it; the results of late calls are what the code
handles by the state it finds, not by the state it left. Time is counted up to
the timeout, failures up to the threshold.

`ProviderCalls`: workers of one request check the budget and the deadline, call,
and charge, in steps of their own. The check estimates the tokens of the prompt
(`prompt`, per worker) against the limits of input and of all tokens, next to
those of calls and output, so what is refused to one prompt may be allowed to a
smaller one: `refused` is the smallest size that was refused. A refusal is
swallowed by the node and the request goes on, as the code does. `failover` is
the time left in which the fallback is used at once; `excuse` is a history
variable.

### RetrieverCache, HybridRetrieval, AgenticAnswer

`RetrieverCache`: `get_retriever` is four stretches under `_cache_lock`
with gaps between them. The manifest is the register of `IndexRegister`;
builds of this process write manifest and cache apart, those of another process
only the manifest. Retention deletes all but the active and previous collection
at any publication, and opening a deleted name creates it anew (`hollow`).

`HybridRetrieval`: the rankings of both searches are any lists; scores are counted
over a common `Denominator`, and a chunk's place in the fused list is the number
of chunks ahead of it (ties go to the key met first). The cross-encoder returns
any order or raises. Each turn of the two loops of `_expand_parents` is a step:
`ExpandNext` opens the next chosen chunk with its budget, `JoinNeighbour` and
`SkipNeighbour` are the inner loop over the positions around it (`Neighbour`);
`expansion` holds the local variables of the loops.

`AgenticAnswer`: `flow` is the loop (model, calls, documents found), `reply` what
the session is given. A search appends up to `SearchLimit` documents; blank ones
are dropped later, when citations are looked up. Scores stand on either side of
their floors. A model is a `ProviderBackedLLM`, and behind it may answer the local
provider it fails over to (`StandIn`, `Answerers`): the judge is chosen by
wrapper, `author` and `scorer` remember which model answered.

### Escalation, Channels, TraceLedger

`Escalation`: the ticket's row, the sink and the row again are three steps, for
the request that made the ticket and for each pass of the retry; a crash between
them leaves what was written. `disturbed` remembers overlaps and interruptions.
Both sinks are there: the local one reports what it did, the one for Bitrix
swallows every failure, which the row then records as delivered
(`integrations/bitrix.py:91-126`), so that a delivered ticket is in the inbox is
said of the local one.

`Channels`: FETCH sets the flag `\Seen` (`seen`) before the mail is processed,
an error ends the cycle; mails in `Poison` always raise. The webhook's delivery
(`post`) is repeated until acknowledged. The bot's first messages meet at the
lock under which the pipeline is built.

`TraceLedger`: `last` is `last_response` per thread and model. The nodes of the
graph appear as who calls models and who logs a step; `usage` is what travels in
the state. The purge reads its cutoff once, selects, and deletes.

### ExperimentRollout, RegressionRuns, ReviewQueue

`ExperimentRollout`: an administrator's request commits its row (first step) and
writes YAML and runtime file (second). Either write may fail: a save that dies
leaves a torn YAML, which later requests cannot load, and an `OSError` at the
runtime file is swallowed by a rollback, which then leaves it behind (`left`). The
watcher lists deployments and judges them one by one. Scores are numbers per
evaluator or absent.

`RegressionRuns`: `envId`, `override` and `settingsOf` are the three variables of
the process a run installs and restores. A measurement records under which
overrides it was made. `get_settings` has no lock and publishes the object before
it applies the overrides, so it is followed step by step (`AskSettings`,
`PublishSettings`, `ReadOverrides`, `ApplyOverrides`, `ReturnSettings`) for runs
and for users' requests alike; `foreign` and `raced` remember what a run was given
and whose settings were disturbed in the making. A reader that comes between the
assignments of environment and path finds no override file for its experiment,
which is the branch "none" of `ReadOverrides`. What a caller does that finds the
cached object gone on return is left open.

`ReviewQueue`: an import selects a row and updates it in two steps; a rebuild
reads the file, empties it and writes it in three. Scans add rows; people decide.

### JobObjects, Backup, KnowledgeBase, RoutingCalibration, ThresholdTuning

`JobObjects`: bytes are named by the upload that brought them. Each write to a
durable place is a step that may be cut off. A recovery object is written, visible
with all its bytes, and then synced; when the sync fails its writer removes it,
although another upload may have read it and gone on (`withdrawn`). A preview
reads rows, statuses and files in three steps.

`Backup`: a digest stands for the bytes of a file: the run that wrote them, or
one that no manifest has. Stores are copied in the order of the code. Copies of
both forms rot; a clear copy that has rotted is encrypted and hashed anew, which
gives it a good digest and unusable contents (`damaged`). A run may die before,
between or within its writes and the next one finds what it left.

`KnowledgeBase`: endpoints read, index and commit in steps of their own; where
Chroma is missing (`chroma`), or takes no documents, nothing is indexed and the
draft is committed all the same (`SkipArticle`);
`grouping` is the state of the iterative depth-first walk of
`build_gap_records` for any relation of similarity.

`RoutingCalibration`: floors are a quality floor and the rest, because the key of
the graph cache tells only the first apart. Label rows are enumerated as counts.
`ThresholdTuning` tries the candidates of one threshold in ascending order, a
step each, for every small collection of traces; its comparison of F1 scores is
exact.

### MCServing, MCOperations, MCReleases, MCLiveness

These four modules instantiate several components, each for its own questions.
In the models the components share no state, so a behaviour of such a module is
a behaviour of one of them, chosen by `part` in the initial state; the others
rest. This joins instances without multiplying their states: every state of
every instance is reached, and a counterexample names its component.
`MCLiveness` also states the fairness of each component while it is the one
that runs, `MCReleases` that of the graph. `MCReleases` splits the regression runs
to stay small: in one part two runs overlap, no user's request asks for settings
and all but one of the runs pass every case (`RunsOverlap`); in the other there is
one run beside two requests of users (`OneRuns`). The theorem covers all of them
together.

## 3. Properties and runs

| Run | Instance | Checks |
|---|---|---|
| `jobs_keys` | 2 uploads of an asynchronous or an in-process tenant, 2 workers, late heartbeats | `JobSafety`, `OneJobPerKey`, `TerminalIsFinal` |
| `jobs_zombie` | 1 job, 1 worker | violates `NoZombiePublish` |
| `jobs_stale_index` | 2 synchronous uploads | violates `CompletedIsIndexed` |
| `index_serial` | 2 processes, 1 reader, 3 builds, 4 generations, budget 2 | `IndexSafety`, `VersionsBounded`, `CommandsAreExact`, `ImplementsRegister` |
| `index_lock_lost` | 2 processes, lost sessions | violates `LostOwnershipFailsClosed` |
| `session_turns` | 3 asks, 1 of them budgeted, 1 clear, history of 2 | `SessionSafety`, `ConfirmationsAreSafe` |
| `session_orphan` | 2 asks, 1 budgeted | violates `OrphanWritesDiscarded` |
| `serving` | `MCServing` | `StoreSafety`, `CacheSafety`, `StreamSafety`, `ProviderSafety`, `LedgerSafety`, `RetrieverSafety`, `RetrievalSafety`, `AgenticSafety` |
| `operations` | `MCOperations` | `OwnerIsNotReaped`, `ImplementsLifecycle`, `EscalationSafety`, `ReviewSafety`, `ObjectsSafety`, `KbSafety`, `CalibrationSafety`, `TuningSafety` |
| `releases` | `MCReleases`, fairness of the graph | `GraphSafety`, `FailsClosed`, `RegressionSafety`, `RolloutSafety`, `BackupSafety`, `GraphRequestEnds` |
| `liveness` | `MCLiveness`, fairness | `JobsTerminate`, `LocksAreFreed`, `AsksReturn`, `CapacityComesBack`, `CircuitRecovers`, `EveryMailTaken`, `CapacitySafety`, `BreakerSafety`, `ChannelsSafety` |
| `stream_history_pair` | 1 stream, history of 2, no clear | violates `OneHistoryPair` |

A property whose name ends in "Safety", and some others, is the conjunction of
the module's type invariant and the statements below, each with its comment in
the module. The mutants in `PROJECT.json` break the deepest of them.

| Property | Says |
|---|---|
| `JobSafety` | a job switches the index at most once (`NoDoublePublish`); a completed job is bound to its own generation; a message is delivered only for a job whose source is in place |
| `OneJobPerKey`, `TerminalIsFinal`, `OwnerIsNotReaped`, `ImplementsLifecycle` | requests of one key see one job; terminal rows do not change; a worker that beats on time is not reaped as long as the clocks fit the lease; a client sees only what `JobLifecycle` allows |
| `IndexSafety`, `VersionsBounded` | what the manifest names is whole (`ActiveIsReadable`); recorded collections exceed the budget by no more than failed deletions explain |
| `CommandsAreExact`, `ImplementsRegister` | a rollback goes where its key says, a retention deletes what its preview showed; readers see the register of `IndexRegister` |
| `SessionSafety`, `ConfirmationsAreSafe` | the history is the answers in the order of turns; accepted versions are fresh, what is confirmed is what was shown, one ticket per action |
| `GraphSafety`, `FailsClosed` | auto was earned in the last round (`AutoIsEarned`); outages, errors and rejected documents never end in auto (`OutageFailsClosed`, `ErrorsEscalate`, `RejectedStaysOut`) |
| `StoreSafety` | an ask reads only turns of its tenant and runs in an object of its tenant, messages belong to the row's tenant, a client is shown only messages of its tenant, what an undisturbed deletion erased stays erased |
| `CacheSafety` | an entry is of the generation it is filed under or a later one, unless a publication fell between retriever and key; follow-ups enter only by a race |
| `StreamSafety` | a turn is recorded twice only where the length of the history cannot tell; pairs stay whole; database, client and session agree |
| `ProviderSafety` | a budget is overrun by no more than what is under way; after a refusal no prompt of that size or above starts; the fallback outlives no failure |
| `LedgerSafety` | a response is charged once, to its own request; a purge leaves no part of a trace |
| `RetrieverSafety`, `RetrievalSafety` | a call searches the collection it resolved, without BM25 only after a failed read; fusion respects agreement, no text twice, no neighbour left out that fits |
| `AgenticSafety` | an automatic reply is cited with plain documents of its request and judged by another wrapper, and by the model that wrote it only after a failover; nothing dangerous is delivered |
| `RolloutSafety`, `RegressionSafety`, `ReviewSafety` | the runtime file names a deployed experiment unless its removal failed, the watcher acts on measured losses, the cache follows the table; a run that met no other measures its targets unless its settings were disturbed in the making, and green is complete; decisions change by hand, curated cases stay |
| `EscalationSafety`, `ChannelsSafety` | delivered is in the local inbox, one ticket per key, twice only after an overlap; a mail taken for done was answered, once; a chat has one session |
| `ObjectsSafety`, `BackupSafety`, `KbSafety` | no bytes are lost but with a recovery object that was withdrawn after a failed sync, no file without a row, no failure without a fault; valid snapshots restore and hold the files of their index unless a copy had rotted before its encryption, and keep nothing in clear; published was indexed where Chroma takes documents, groups are components |
| `CalibrationSafety`, `TuningSafety` | "human-labelled" rests on agreement beyond chance, the quality floor resolved is in force; no threshold is better, and it moves only for a gain |
| `CapacitySafety`, `BreakerSafety` | slots are conserved and work that runs has one; one probe per half open phase, and whoever is refused then waits for a probe under way |

Why the bounds are enough for the interesting cases:

- *jobs*: two jobs race for one key, one directory and one index; two workers
  race for one message; two copies (`MaxCopies`) make a duplicate. Lease 2 with
  heartbeat 1 puts expiry and beat one tick apart; so does, in `operations`,
  lease 3 with heartbeat 1 for a worker whose clock is one tick behind the
  reaper's (it may be ahead as well), with a tenant of each kind. The other runs
  have one clock. Staleness limits of 1 to 3 put the reaper before, at and after
  each step.
- *index*: the third build is the first that the budget of 2 must pay for with
  a deletion; four generations hold two builds, a rollback, and a command that
  was made for the generation before. A process past `MaxGeneration` starts no
  new command and finishes the old one.
- *session*: with three asks one overruns, one replies to it and one comes
  between; with a history of two the third answer displaces the first.
- *graph*: with three documents the kept set can be too small, large enough,
  or poisoned; 60 and 100 lie on either side of the floors; two retries are
  the program's default, so a round has a predecessor and a successor.
- *store*: two tenants and two asks meet at one id, with one deletion; that is
  every pair of actors, and the third party of a reuse is the row or object the
  first one left.
- *cache*: two requests, one conversation or two, and one publication.
- *streams*: one stream against one cached reply and one clear, with a history
  that the turn fills.
- *providers*: two workers share budgets of two calls, two tokens in, two out and
  three in all, with prompts of up to two and a batch of two: each limit can be the
  one that refuses, and a smaller prompt can pass after a larger one did not.
- *ledger*: two runs share one thread; two model calls make one that follows a
  logged step.
- *retriever*: two readers and a builder see three publications, which is the
  fewest after which retention has deleted what a reader resolved.
- *retrieval*: three chunks of one or two documents, windows of two and every
  size that fits in the budget or does not; k is the program's 60.
- *agentic*: documents under and at the floor, blank and injected ones, three
  models of which one calls tools and one is what another fails over to, two loops.
- *rollout, regression, review, escalation*: two actors at every row or file
  that two actors can reach; two variants, so that a wrong one can be measured;
  two requests, so that one finds the settings the other is making.
- *objects, backup, drafts*: two overlapping uploads and the bytes before them;
  one document that is ingested while a run copies, two runs of which the first
  may die anywhere, one spoilt store at a time; two editors at one draft. Gaps
  are any graph on four questions, enough for a component that is found through
  its second member.
- *calibration, tuning*: four label rows, two annotators; two traces, scores 0
  to 3, thresholds beyond both ends.
- *capacity*: three asks of one session for two slots and two threads.
- *breaker*: three callers, so that one is late while one probes and one is
  refused; threshold, timeout and attempts 2.
- *channels*: two mails of which one is poison, one letter delivered twice, two
  messages of one chat.
- *liveness of jobs, index and session*: two jobs, one left running by an older
  release; two processes with lost sessions and interrupts; two asks, one of
  them budgeted.

`CHECK_DEADLOCK FALSE` is used where the system may stop: all asks have
returned; the request has ended; every upload, run or message of a bounded
instance is done.

### What the violated properties show

1. `NoZombiePublish`. `tasks/ingest_task.py` says that phase boundaries probe
   the lease "so a zombie worker cannot silently publish after outage recovery
   cleared the lease". The last probe is before the build; the reaper may fail
   the job during it, and the manifest is switched all the same. `JobLifecycle`
   therefore allows a switch by a failed job; nothing else of the contract
   breaks.
2. `CompletedIsIndexed`. The upload handler reads the directory before the
   tenant lock is taken. Of two concurrent uploads the one that read first may
   publish last, and the other is answered "File uploaded and indexed." while
   its document is not in the served collection.
3. `LostOwnershipFailsClosed`. `docs/DEPLOYMENT.md` says that lost ownership
   fails the rebuild closed. Ownership is compared with a flag of the process;
   the database is asked at release only, after the manifest was replaced.
4. `OrphanWritesDiscarded`. The docstring of `ConversationSession` says that
   late mutations of orphan workers are discarded. History is protected by the
   turn it is appended with; the pending action is written without one, so an
   orphan's write counts whenever another ask holds a turn. `ExactConfirmation`
   and `OneTicketPerAction` are stated for sessions in which nobody overran,
   for this reason.
5. `OneHistoryPair`. The stream concludes from `len(session._history)` whether
   the graph has recorded the turn. With a full history the graph's append
   displaces the oldest pair and the length stays the same, so the stream
   records the turn again. `TwiceOnlyUnseen` says that this, a clear and an
   overlapping append are the only ways.

## 4. Fairness

- *jobs*: weak fairness of `Tick`, of the reaper's sweep and of each worker's
  next step. The reaper is a periodic task; a worker's step ends by returning
  or raising. A build that hangs for ever under a live heartbeat keeps its
  lease and is never reaped, so progress of a worker that is not dead is an
  assumption (a dead one needs none: its lease runs out). Nothing is assumed
  of uploads, the broker or the heartbeat thread.
- *index*: weak fairness of each process inside a command: file and store
  operations return or raise. Nobody is assumed to start a command.
- *session*: weak fairness of callers, and of workers that are their caller's
  own thread. Nothing is assumed of workers on the executor. Asks are finitely
  many and a turn is released, so a waiting ask is not overtaken for ever and
  strong fairness is not needed.
- *graph* (in `MCReleases`): weak fairness of the next node: every call of a
  model, the retriever or a store returns or times out.
- *capacity*: weak fairness of each handler, each thread and the end of
  `clear()`'s wait: the event loop runs its coroutines unless it is blocked, a
  pipeline ends because its model calls have deadlines, and both waits that
  cross between loop and thread have a timeout.
- *breaker*: weak fairness of a caller's next admission and of the end of its
  call, and of the clock: users keep asking and calls end. Nothing is assumed
  of the model or the administrator; the model's recovery is the premise of
  `CircuitRecovers`.
- *channels*: weak fairness of the poller's steps. `poll_forever` survives a
  cycle's error, but inside a cycle neither the mail libraries nor the ask has a
  timeout (`channels/email_channel.py:170,187,264`), so that each of these calls
  returns or raises is an assumption about the servers and the session, not about
  this code; strong fairness of fetching, because the mail server
  may fail in some cycles and is assumed not to fail before the first mail of
  every one. Nothing is assumed of those who write mails.

## 5. Proofs

Each component proved about has an inductive invariant in its `*_proofs` module;
every action preserves it, one lemma or step per action, and the theorems follow
with PTL. `Answers_proofs` has what a question is answered from (both caches,
the agentic flow, the articles of the knowledge base), `Limits_proofs` what
limits or accounts for the calls of a request and what thresholds rest on,
`Operations_proofs` what runs beside the questions, and `SessionStore_proofs`
both ends of a session. Each invariant was first checked by TLC. A theorem about
a conjunction that a run checks (`JobsAreSafe`, `IndexIsSafe`,
`CommandsDoAsTheySay`, `SessionIsSafe`, `ConfirmationsHold`, `GraphIsSafe`,
`GraphFailsClosed`) follows from those about its parts. The assumptions on the
constants are those of the modules.

**IngestionJobs** (`TypeCorrectness`, `OnePublishPerJob`, `CompletedBinding`,
`DeliveryAfterSource`, `TerminalFinality`, `JobsAreSafe`, `KeysNameOneJob`,
`PunctualOwnerKeepsLease`, `JobsImplementLifecycle`).
None of the properties is inductive. That a job is built once needs to know
that whoever is about to build has the only execution the row ever admitted:
`ControlInv` says, for each place of an upload or a worker, what the row must
look like there (which status it may have, whether it is ready, which path it is
on), and that no two workers execute one job. `LogInv` ties the log to it: who
has published holds a receipt that names its own entry, and the job of who has
not is not in the log. Terminal rows are final because the unconditional updates
of the handler happen only at places where, by `ControlInv`, no worker and no
reaper can touch the row: rows with a task id belong to workers, rows without to
their request. `KeysNameOneJob` adds that rows of one tenant have distinct keys
(`KeysUnique`) and that a request at a place past its lookup has the row of its
key as its target (`TargetFits`). `PunctualOwnerKeepsLease` needs that a worker
whose heartbeat is still running has at least the time to its next beat left on
its lease (`LeaseOutlivesBeat`), so the reaper cannot find the lease run out.
Its premises, `Punctual` and `ClocksFit`, are the two things the code does not
see to. `JobsImplementLifecycle` maps each action to a step of the contract or to a
stutter; `ControlInv` rules out the transitions the contract does not have.
Assumed: the intervals are positive, offsets are integers, and `HeartbeatFitsLease`.

**VectorIndex** (`TypeCorrectness` and `LegacySurvives` for `HostileSpec`;
`ServedIsWhole`, `RollbackIsExact`, `RetentionIsExact`,
`IndexImplementsRegister`, `IndexIsSafe`, `CommandsDoAsTheySay` and
`BudgetIsKept` for `Spec`). `BaseInv` relates a command's
mode, place and candidate. Under the lock `Held` says that whoever is inside a
command holds it; `Working` that what the holder has read is still what the
manifest says, that a candidate on its way to publication is whole and not yet
named by the manifest, and that what is about to be deleted is not named by it;
`Pointers` that what the manifest names is whole. `Previewed` carries the
operator's preview from its check to the deletions. The refinement maps each
replacement of the manifest to `Switch`, filling and deleting to `Stage` and
`Drop`, everything else to stuttering. `BudgetIsKept` adds that recordings are
ordered in time (`Ordered`) and that at each place of a retention what is still
in the inventory is kept, to be deleted, or owed to a failure (`Budgeted`); that
the newest few are no more than the budget is an argument with cardinalities.
The others do not hold of `HostileSpec`: `index_lock_lost` shows what a lost
session does, and `InterruptPublication` discards a collection that is already
served.

**ConversationSession** (`TypeCorrectness`, `HistoryIsFaithful`,
`AcceptedMeansFresh`, `ConfirmationIsExact`, `TicketsAreUnique`,
`SessionIsSafe`, `ConfirmationsHold`). `TurnInv`: at most one ask is between
acquiring and releasing, the epoch is its turn, or the next one if it was
invalidated. `HistoryInv`: what is in the history was answered, in the order of
turns, and what was answered and is neither displaced nor cleared is there.
`VersionInv`: a client sends the version its result was stamped with, and no
other turn and no clear lies between that result's turn and its version.
`ActionInv`: as long as nobody overran, only the holder's worker runs, so the
pending action, the snapshot and the tickets agree. The history theorem holds
with orphans, the last two do not and say so.

**SupportGraph** (`TypeCorrectness`, `AutoAnswersAreEarned`,
`OutagesFailClosed`, `AllErrorsEscalate`, `RejectedDocsStayOut`, `GraphIsSafe`,
`GraphFailsClosed`). The invariant says, node by node, what a request that is
there has earned: `Control` (route and error at each node), `Graded` (which
documents the answer comes from), `Grounded` (what a verdict that says
"verified" rests on), `Delivered` (the same after the decision), `Outages` (what
a lost provider leaves behind). It is needed because the retry resets only part
of the state: grounding, knowledge gap, grade marker and judge of the last round
survive `rewrite_query`, and the proof has to show that each of them is
overwritten, or harmless, before it is read again.

**AskCapacity** (`CapacityIsSafe`). `PhaseOfSlot` says who owes the release of
a slot at each place of the handler. Whatever happens to a slot is one of three
things (taken, released, handed over), and a lemma for each shows that free
slots and owed slots still add up.

**OllamaBreaker** (`BreakerIsSafe`). A half open circuit has claimed its single
probe and that probe is under way (`HalfOpenIsProbed`): the state is entered by
the probe only, and every result that arrives in it, the probe's or a late one,
leaves it.

**ProviderCalls** (`RefusalHolds`, `FallbackHasExcuse`, `ProvidersAreBounded`).
A refusal stays true for every prompt of its size or above: what was charged is
not paid back and a deadline does not come back (`RefusedForGood`). A refusal
for the calls, the output or the deadline is one for every prompt. The time the
fallback may still be used and the time since the failure never exceed the time
to live together (`NoOlderThanFailure`). The overrun is bounded by counting:
what is charged and what is under way do not grow together except when a call
starts, which finds the budget unspent, and then what all workers have under way
is at most a batch each (`Crowd`, `UnderWayBounded`); a stream is paid for
before it runs.

**TraceLedger** (`ChargesAreSound`). A model object remembers its last response
per thread, and a step reads it after the call. The usage a request carries is
always that of a node behind it, never of the one it is at (`UsageStaysBehind`);
between the answer and the reading, what its thread remembers is that answer and
is not charged yet, because a thread works for one request (`LastIsOwn`,
`OneRunPerThread`), and what was charged is a call already made (`ChargedIsPast`).
What a purge has selected is over (`PurgedAreOver`).

**RoutingCalibration** (`CalibrationIsEarned`). That readiness implies the
agreement that is claimed is a polynomial identity between the four counts of
two annotators, which `AgreementBeyondChance` and `ReadyIsEarned` work out for
all numbers, the thresholds included: the command line does not check them, and
a threshold of kappa that is not positive asks for no agreement beyond chance. A
cached graph runs with the floors of its key (`GraphsOfTheirKey`).

**ThresholdTuning** (`SuggestionIsBest`). Values of F1 are fractions, whose order
is transitive (`FractionsInOrder`); so the best value so far is at least as good
as every candidate tried, and as near at the same F1 (`BestOfTheTried`, kept by
`SearchedGrows`). That the candidates suffice is about the samples: whatever
threshold one takes, the nearest score on its far side flags the same traces, or
the value past all scores does (`CandidatesSuffice`).

**AnswerCache** (`CacheIsSafe`). Per request: nothing it holds is of a generation
still to come (`NotAhead`); its key is the generation of its retriever, or it
knows that it is not (`GenerationKnown`); a request that met no other of its
conversation is alone in it, and its answer has no history (`Alone`,
`Contextless`). What is filed inherits this, in Redis and in the fallback.

**RetrieverCache** (`RetrieversAreCurrent`). Generations only grow: the entry,
each reader and each builder holds the key of a manifest that was, and the
active collection is there (`ManifestsPast`). A reader is done with the store of
its key, and it caches a retriever without chunks only if it could not read them
(`ReaderTried`).

**HybridRetrieval** (`RetrievalIsSound`). `Ahead` is a strict order of the keys
met, because no two keys are met at one time; so the number of chunks ahead
determines the chunk, and the fused list is in that order (`BelowGrows`,
`ListIsOrdered`). A chunk that precedes another in every ranking gets at least as
much from each of them, because quotients fall with the rank (`QuotientFalls`),
and is met first. In the expansion the results are those of the chosen chunks, in
their order (`InTurn`); each key is used by one chunk only, as itself or as a
neighbour (`UsedOnce`); text and remaining budget add up (`Balanced`); and a
neighbour that was tried and is not used would not have fitted into what was left
then, so not into the less that is left now either (`TriedDidNotFit`). That the
recursive sum in `Text` is defined, and what joining one chunk adds to it, is
shown by smallest counterexamples (`SumsExist`). Assumed of the denominator: it
is a multiple of every `RrfK` plus rank, so no score is rounded.

**SessionStore** (`SessionsStayApart`). That a turn may outlive its object
changes nothing, as all that counts is carried by the ask. Objects and messages
carry the tenant of the ask that made them (`ObjectGood`, `MessagesGood`); an
ask between lookup and persist has an object and a past of its own tenant
(`AskGood`); a deletion that nothing has disturbed has emptied memory before it
comes to the database, and no ask is left that could bring a turn back
(`QuietGood`).

**AnswerStream** (`StreamsAreRemembered`). A message is in the history, on its
way there, or in a copy that a cut will put back (`IsHeld`). `Places` says where
a generator and its thread can be together, `Says` that all that is held of a
stream's answer is one text, the one its thread ended with, its queue still
brings (`Awaits`) and the client and the database get; `NotYet` that nothing is
held before. While no append of the loop overlaps one of a thread, the history
is whole turns, or whole turns and one question (`Shape`), and whoever cuts it
cuts the history he measured. `Floor` ties the length of the history to the
length the stream saw at its start: as long as the stream began below the limit
and nobody cleared, the history is longer than that once the thread has recorded
the turn, so the generator sees it and does not record it again. Each of the
three exceptions of `TwiceOnlyUnseen` is where this argument breaks.

**JobObjects** (`ObjectsAreKept`). The original of a job is complete from the
place where its upload has written it (`OriginalByPlace`); an upload past its
reading has the bytes it read on their way to a recovery object, which no other
upload writes at the same time, though others may find it complete and rely on it
(`RecoveryByPlace`). The bytes of the earlier version are never put back, so
whoever has read the flat file while it still held them has read them
(`LegacyIsRead`): what was served is in the flat file, the original of a finished
job, or a complete recovery object, unless the writer of that object has withdrawn
it since (`ServedAreKept`).

**Escalation** (`TicketsReachOperators`). A pass at work has one
ticket in hand, which was not delivered when it read the row (`OneInHand`). A
ticket that nothing disturbed reached the inbox at most once, and then its row
says so and nobody holds it, or its holder is about to write it (`ReachedOnce`,
`Delivering`); holders are counted with the theorems on finite sets. The
theorem is about both backends; that a ticket recorded as delivered is in the inbox
is a statement about the local one, whose inbox is part of this program.

**ReviewQueue** (`ReviewIsSafe`). A row that an open import has updated is locked
by it alone and still pending for everybody else (`RowsLocked`). As long as no
rebuild was torn by another, one at a time has the file open, and it has every
curated case in hand (`FileInHand`).

**Backup** (`SnapshotsAreSound`). A digest names a run that has started
(`DigestsPast`). The index that a run copies is not ahead of the system
(`IndexBehind`) and its files come later (`FilesLast`), so an index and files of
one run fit, whatever forms they are found in (`RunsFit`). All of this is about
files that hold what was copied (`AsCopied`): one that had rotted when it was
encrypted has a good digest and nothing is claimed of it, and without encryption
there is none (`NothingEncrypted`). With encryption a run has no clear file left of
the stores it is done with, whatever an earlier run had left (`NothingClear`).

**RegressionRuns** (`RegressionsTellTheTruth`). A run with a case in hand has not
counted them all (`CasesLeft`), and a skip or a broken provider is counted or
will be with the other side of its case (`GapsCount`), so a report that counts
no gap has none. Runs that met know it, and one that met nobody finds what it
installed (`Apart`); as long as no two met, the staged experiment is installed
or saved by the one run inside (`StagedKept`). The settings that an undisturbed run
(`Undisturbed`) is given are its own, because the run drops the cached ones when it
installs, one thread makes them after that (`OneMakes`), and whoever finds them
unfinished, or comes to make them a second time, disturbs the run
(`SettingsApart`). Assumed: no job is named as the staged configuration or as a
request.

**ExperimentRollout** (`RolloutsAreTracked`). The file's experiment is deployed,
or a rollback of it is about to remove the file or has failed to (`FileKept`);
what a request is about to write into the file or the cache is still in the
table (`DeployPending`, `AssignPending`, `CacheKept`); `crossed` excuses the two
requests that overlap. That a rollback of the watcher has a measured loss is an
argument about a division that rounds down (`DivReaches`, `DriftIsMeasured`).

**Channels** (`MailIsAnsweredOnce`). The mails that the poller has listed are not
flagged, and the one in hand is (`PollerHolds`): what is not flagged is not
answered, and nothing is taken a second time (`AnswersSoFar`). A letter is
answered at most once per delivery (`LettersSoFar`), and who was answered in a
chat was in its one session (`ChatsSoFar`). Assumed: mails and letters have
different names.

**AgenticAnswer** (`AgenticRepliesAreEarned`). There is no reply before the flow
is done, so all that counts is what is handed over (`Deserves`): its documents
have text, and if it goes out by itself its citations are within them and an
independent judge, that is another wrapper, gave it its score; the models behind
two wrappers are the same only if one of them has failed over. In the loop a
model writes, and after one search the documents are the ones it found
(`FlowInvariant`). That dropping the documents without text drops nothing else
and keeps the order is a fact about `InOrder` (`ContextHasText`): the place of a
document is the number of those before it, and a smallest counterexample, from
the library's `WFMin`, shows that no place is left empty (`RanksAreTaken`,
`InOrderListsAll`).

**KnowledgeBase** (`ArticlesAndGapsAreSound`). For every draft the index is
ahead of the row, where Chroma takes documents (`IndexAhead`). As long as no two
editors had it and no commit failed, one editor at a time holds it, it is
pending until then, and its article is indexed only when it is published or
about to be (`Orderly`); so it is in a collection once, and never beside a
rejection. A walk visits each question once (`WalkInOrder`), what has joined a
group has brought what is similar to it (`WalkIsClosed`), and no cut of the walk
is without a similar pair across it (`WalkIsLinked`, kept by `LinkedGrows`):
complete groups are the components.

**What liveness rests on** (`RequestsRunOut`, `CommandsRunOut`, `AsksRunOut`,
`CapacityRunsOut`). A liveness property follows from fairness, from enabledness
of the steps that are fair, and from a safety part: nobody is set back, and
whoever waits waits for someone who can go on. The safety part is proved for
every value of the constants. A measure counts the steps that are left:

- at most `7 * MaxIterations + 11` nodes of a request, errors and rewritten
  queries included, which is also what langgraph's recursion limit has to cover
  (`graph.invoke` leaves the library's default in place);
- at most `2 * MaxBuilds + 10` steps of an index command, hostile interruptions
  and the loop of retention included;
- at most 12 of an ask of a session and its worker, orphaned or not, and at most
  35 of a request under capacity with its thread and its callback.

Every step of the actor lowers its measure, and no step of another raises it.
What is waited for exists: a lock that is held has a command, a busy session a
caller that will release it, a caller that runs has a worker, a turn that
threads and `clear()` queue for has a thread already, and a slot that is owed
has work (`LockHasHolder`, `TurnHasHolder`, `RunningHasWorker`, `WaitsEnd`): no
waits go in a circle.

**Only model-checked.** Liveness itself (`JobsTerminate`, `LocksAreFreed`,
`AsksReturn`, `GraphRequestEnds`, `CapacityComesBack`, `CircuitRecovers`,
`EveryMailTaken`): that fairness turns these measures into an end needs ENABLED
and an induction, both out of the prover's reach. Every safety property of a
passing run is a theorem.

## 6. Remarks on the code

What the models show beyond the violated properties. Each of these behaviours
is in its module, and the properties name it as an exception where they must.

- A vacuous verdict (no claims, status "verified", factuality 0) never becomes
  auto: `_is_knowledge_gap` takes a factuality below 50 for a gap, so the last
  branch of `grounding_allows_auto`, which allows it, is not reached from the
  graph. `AutoIsEarned` shows it: claims are always bound.
- A verdict of an earlier round is kept out twice, by the order of nodes and by
  the reset of factuality in `rewrite_query`.
- When the gate `response_safety` itself raises, the edge goes to the log with
  the answer as it is; the API escalates the route "error" afterwards
  (`api/routers/conversation.py:30`). `ErrorsEscalate` names this exception.
- The reaper looks at rows with a task id only: a synchronous upload whose
  process dies stays running. `docs/CONFIGURATION.md:68` says so.
- A build that dies between staging and recording leaves a collection that no
  retention will see.
- `get_retriever` reads cached chunks a second time without comparing the key: a
  retriever may join the store of one version with the chunks of another until
  the next publication. `SearchesResolvedIndex` speaks of the store only.
- Whether an ask may use the answer cache is decided before it waits for its
  turn, so the answer to a follow-up can be stored as one without history
  (`FollowUpsNeedARace`).
- A deletion that overlaps an ask of the session, or meets the cooldown, can
  answer "cleared" while turns remain (`ErasedStaysErased` is about undisturbed
  ones).
- The fallback of a direct stream whose client has gone runs without a slot
  (`WorkHoldsSlot`).
- `graph_cache_key` has the quality floor only: after a reissue of the
  calibration a cached graph keeps its other floors (`QualityFloorInForce`).
- Steps of streamed answers log what the thread's last call used, as
  `generate_stream` does not set `last_response` (`ChargedToItsCaller` leaves
  them out).
- Two regression runs that overlap may restore each other's environment and
  leave it installed (`StagedBetweenRuns` is about runs that never met).
- `get_settings` publishes its object before the overrides are applied and takes no
  lock (`config/settings.py:1391-1415`): a request that comes in between is served
  settings without overrides, and a run that drops them in between may be given
  those of another experiment (`AloneMeasuresItsTargets` excuses both).
- A rollback may leave the runtime file behind: an `OSError` is swallowed
  (`api/routers/admin_experiments.py:150-156`), and a YAML that cannot be loaded or
  saved ends the request before the file is touched (389-392).
- The watcher's rollback marks rows only; the runtime file stays as it is
  (`FileNamesDeployed`).
- A curated case whose row is reopened or dismissed later stays in the file.
- A draft is marked published although nothing was indexed where Chroma is missing
  or the collection takes no documents (`api/routers/admin_kb.py:421,432`);
  `PublishedWasIndexed` is about the others.
- An article published to the active collection is lost with the next build
  from uploads, and its draft stays published.
- A snapshot is not of one moment: the dump of Postgres may lack the row of a
  document its index has. The drill does not look at what `PRAGMA
  integrity_check` returns.
- A tarball that rots between its copy and its encryption is hashed again as it is:
  the snapshot audits as valid and fails the drill (`ValidRestores`).
- A recovery object whose sync fails is removed by its writer although another
  upload may have found it complete and replaced the flat file: then the bytes
  it held are gone (`api/routers/upload.py:82-91,161-167`; `BytesKept` excuses
  this case only).
- Clocks of worker and reaper that differ by as much as lease and heartbeat do let
  the reaper fail a job whose worker beats on time; `OwnerIsNotReaped` has
  `ClocksFit` as its premise, and neither settings nor documents ask for it.
- A request whose budget of tokens refused a prompt still starts smaller calls
  (`RefusalIsFinal` is about prompts of the size refused and above).
- After a failover the judge can be the model that wrote the answer: independence is
  decided by the names of the wrappers (`AutoIsJudged`).
- A session whose turn runs may be evicted; a second ask then restores another
  object under the id, and the two do not wait for each other.
- The best threshold is the search's `best`; the report rounds it
  (`scripts/analyze_thresholds.py:314`), and nothing is claimed of the rounded one.
- Documents of several searches of one tool loop are put together although each
  search numbers from one, and blank documents shift the numbers
  (`CitationsNameTheirDocs`).

## 7. What is left out

Within the modules:

- *jobs*: file names and contents beyond "same name, same payload"; categories.
- *index*: fact-card collections, the Qdrant backend, several tenants (they
  share nothing), lock waits that time out (they leave no trace), and the time
  between a crash and the end of its database session. Retention's two reads
  of the files are one step, under the lock.
- *session and streams*: the words of a token stream; the parts of an answer
  that only the widget shows.
- *graph and agentic answers*: prompts, reply parsing, the recursion limit of
  langgraph (a request runs at most 25 nodes at two retries, by
  `RequestsRunOut`), tokens streamed before the gate, the text of follow-up
  questions.
- *capacity and gateway*: wire formats, connection pools, the choice of a model
  by role; the fall-back of a parity stream after its graph has ended
  (`api/routers/conversation.py:1515-1534`), after which only a conversion of
  the graph's own result could raise; reading the breaker's `.state`
  (`utils/circuit_breaker.py:42-56`), which may enter the half open phase before
  the call that would.
- *job objects*: path and symlink checks.
- *channels*: parsing of mails, the widget.
- *tracing*: exporters and dashboard queries.
- *experiments*: the scoring of one answer, drift reports, nightly batches.

Not modelled:

- Authentication is parsing and role checks, with no protocol of its own beyond
  a library's.
- Loaders and categories parse files and call models without shared state;
  `IngestionJobs` has their outcomes.
- Monitoring counts what no decision reads.
- Administration and analytics endpoints are single queries; those that take
  part in a protocol are in the module of their component.
- HTTP limits are stateless filters and a library's rate limiter.
- Tables and settings are declarations; the constraints protocols rely on are
  in the modules.
- Benchmarks, gates, pages and charts are run by one process from start to end,
  or do not run.

## 8. Plan

The order followed the damage a mistake does: first what can lose or corrupt
documents (jobs, index), then what answers a user (session, graph), then what
keeps the service up (capacity, gateway, stores, caches), then what operators
run beside it. All of these are modelled and checked.

What is worth doing next:

1. Compose `AskCapacity`, `AnswerStream` and `ConversationSession`, whose turn
   is one variable in the program and three in the models.
2. Model fact cards beside the index they are built with.
