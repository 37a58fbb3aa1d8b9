---------------------------- MODULE VectorIndex ----------------------------
(***************************************************************************)
(* The versioned vector index of one tenant: the advisory lock             *)
(* (vectordb/tenant_lock.py), the staged build and its publication         *)
(* (manager.py, index_staging.py, index_manifest.py), the retention        *)
(* inventory (index_retention.py, chroma_retention.py) and the operator    *)
(* commands that roll back or prune it (index_operator.py).  Tenants share *)
(* nothing, so one is enough.                                              *)
(*                                                                         *)
(* A collection is a number: Legacy is the unversioned one, 1, 2, ... are  *)
(* the candidates in the order they are staged.  A tenant without a        *)
(* manifest has generation 0 and is served from Legacy, as                 *)
(* _resolve_active_index says.  The inventory is a set; recordedAt orders  *)
(* it, as the order of its list does in the file.  Both files are replaced *)
(* atomically (os.replace), and each is read before it is replaced.        *)
(***************************************************************************)
EXTENDS Integers, FiniteSets

CONSTANTS
    Procs,          \* API, Celery and CLI processes that change the index
    Readers,        \* processes that open the active collection
    None,           \* Python's None
    MaxVersions,    \* VECTORDB_RETENTION_MAX_VERSIONS
    MaxBuilds,      \* bound: candidates staged
    MaxGeneration   \* bound: no command starts once the manifest has this generation

Legacy == 0

Versions == 1..MaxBuilds

Collections == {Legacy} \cup Versions

\* Settings.validate refuses a budget below 2.
ASSUME VersionsAssumption == MaxVersions \in Nat /\ MaxVersions >= 2

ASSUME BoundsAssumption == MaxBuilds \in Nat /\ MaxGeneration \in Nat

ASSUME NamesAssumption ==
    /\ None \notin Procs
    /\ None \notin Nat

VARIABLES
    lock,        \* the session that holds the advisory lock, or None
    manifest,    \* [active, previous, generation]
    inventory,   \* SUBSET Versions: the collections retention may delete
    recordedAt,  \* [Versions -> Nat]: when each was recorded (0: not yet)
    clock,       \* recordings so far
    store,       \* [Collections -> state of the Chroma collection]
    named,       \* candidates named so far
    pc, mode,    \* where each process is, and the command it executes
    cand,        \* the collection it publishes
    seen,        \* the manifest it read before replacing it
    snap,        \* the inventory it read before replacing it
    todo,        \* what its retention still has to delete
    cmd,         \* its rollback key: [generation, target]
    plan,        \* its retention key: [generation, candidates]
    failed,      \* the body under the lock has raised
    resolved     \* the collection each reader found active (None: not reading)

files    == <<manifest, inventory, recordedAt, clock>>
locals   == <<mode, cand, seen, snap, todo, cmd, plan>>
vars == <<lock, files, store, named, pc, locals, failed, resolved>>

StoreStates == {"absent", "empty", "partial", "complete"}

Manifests == [active : Collections, previous : Collections \cup {None}, generation : Nat]

NoManifest == [active |-> Legacy, previous |-> None, generation |-> 0]

NoCommand == [generation |-> 0, target |-> Legacy]

Init ==
    /\ lock = None
    /\ manifest = NoManifest
    /\ inventory = {}
    /\ recordedAt = [c \in Versions |-> 0]
    /\ clock = 0
    /\ \E old \in {"absent", "complete"} :
          store = [c \in Collections |-> IF c = Legacy THEN old ELSE "absent"]
    /\ named = 0
    /\ pc = [p \in Procs |-> "idle"]
    /\ mode = [p \in Procs |-> "none"]
    /\ cand = [p \in Procs |-> Legacy]
    /\ seen = [p \in Procs |-> NoManifest]
    /\ snap = [p \in Procs |-> {}]
    /\ todo = [p \in Procs |-> {}]
    /\ cmd = [p \in Procs |-> NoCommand]
    /\ plan = [p \in Procs |-> [generation |-> 0, candidates |-> {}]]
    /\ failed = [p \in Procs |-> FALSE]
    /\ resolved = [r \in Readers |-> None]

----------------------------------------------------------------------------
(* The lock.                                                               *)

Goto(p, place) == pc' = [pc EXCEPT ![p] = place]

\* The command is over and its local state is gone; the operator keeps the preview.
Return(p) ==
    /\ Goto(p, "idle")
    /\ lock' = IF lock = p THEN None ELSE lock
    /\ mode' = [mode EXCEPT ![p] = "none"]
    /\ cand' = [cand EXCEPT ![p] = Legacy]
    /\ seen' = [seen EXCEPT ![p] = NoManifest]
    /\ snap' = [snap EXCEPT ![p] = {}]
    /\ todo' = [todo EXCEPT ![p] = {}]
    /\ cmd' = [cmd EXCEPT ![p] = NoCommand]
    /\ failed' = [failed EXCEPT ![p] = FALSE]
    /\ UNCHANGED <<files, store, named, plan, resolved>>

\* The body raises; the lock is released on the way out.
Raise(p) ==
    /\ Goto(p, "unlock")
    /\ failed' = [failed EXCEPT ![p] = TRUE]

\* pg_try_advisory_lock succeeds.  (A wait that times out leaves no trace.)
Acquire(p, command, place) ==
    /\ pc[p] = "idle"
    /\ lock = None
    /\ lock' = p
    /\ mode' = [mode EXCEPT ![p] = command]
    /\ UNCHANGED failed
    /\ Goto(p, place)

\* pg_advisory_unlock.  A lock that was lost is noticed only here, and raises.
Unlock(p) == pc[p] = "unlock" /\ Return(p)

\* The lock's connection is dropped while the body goes on.
LoseSession(p) ==
    /\ lock = p
    /\ lock' = None
    /\ UNCHANGED <<files, store, named, pc, locals, failed, resolved>>

\* The process dies: its session ends and the lock with it.
Crash(p) == pc[p] # "idle" /\ Return(p)

----------------------------------------------------------------------------
(* A build: stage, validate, record, publish, retain.                      *)

BeginBuild(p) ==
    /\ named < MaxBuilds
    /\ manifest.generation < MaxGeneration
    /\ Acquire(p, "build", "stage")
    /\ UNCHANGED <<files, store, named, cand, seen, snap, todo, cmd, plan, resolved>>

\* from_documents creates the candidate under a new name and starts to fill it.
StageCandidate(p) ==
    /\ pc[p] = "stage"
    /\ named < MaxBuilds
    /\ named' = named + 1
    /\ cand' = [cand EXCEPT ![p] = named + 1]
    /\ store' = [store EXCEPT ![named + 1] = "partial"]
    /\ Goto(p, "fill")
    /\ UNCHANGED <<lock, files, mode, seen, snap, todo, cmd, plan, failed, resolved>>

\* Every chunk is in, and the count, dimension and known-query probes pass.
ValidateCandidate(p) ==
    /\ pc[p] = "fill"
    /\ store[cand[p]] # "absent"
    /\ store' = [store EXCEPT ![cand[p]] = "complete"]
    /\ Goto(p, "record")
    /\ UNCHANGED <<lock, files, named, locals, failed, resolved>>

ReadInventory(p) ==
    /\ pc[p] = "record"
    /\ snap' = [snap EXCEPT ![p] = inventory]
    /\ Goto(p, "record_write")
    /\ UNCHANGED <<lock, files, store, named, mode, cand, seen, todo, cmd, plan, failed, resolved>>

RecordedName(p) == cand[p]

\* record_retention_collection: the candidate is recorded before it is published.
RecordCandidate(p) ==
    /\ pc[p] = "record_write"
    /\ inventory' = snap[p] \cup {RecordedName(p)}
    /\ clock' = clock + 1
    /\ recordedAt' = [recordedAt EXCEPT ![cand[p]] = clock + 1]
    /\ Goto(p, "publish")
    /\ UNCHANGED <<lock, manifest, store, named, locals, failed, resolved>>

\* publish_active_collection reads what it is about to replace.
ReadManifest(p) ==
    /\ pc[p] = "publish"
    /\ seen' = [seen EXCEPT ![p] = manifest]
    /\ Goto(p, "replace")
    /\ UNCHANGED <<lock, files, store, named, mode, cand, snap, todo, cmd, plan, failed, resolved>>

NextManifest(m, c) ==
    [active     |-> c,
     previous   |-> IF m.active = c THEN None ELSE m.active,
     generation |-> m.generation + 1]

\* os.replace: the switch.  A rollback is done; a build goes on to retention.
ReplaceManifest(p) ==
    /\ pc[p] = "replace"
    /\ manifest' = NextManifest(seen[p], cand[p])
    /\ Goto(p, IF mode[p] = "build" THEN "published" ELSE "unlock")
    /\ UNCHANGED <<lock, inventory, recordedAt, clock, store, named, locals, failed, resolved>>

\* Only _build_vector_store_result discards; a rollback leaves its target.
DiscardsOnFailure(p) == mode[p] = "build"

\* A step of staging, recording or publishing raises: the candidate is discarded.
BuildFails(p) ==
    /\ DiscardsOnFailure(p)
    /\ pc[p] \in {"fill", "record", "record_write", "publish", "replace"}
    /\ Goto(p, "discard")
    /\ UNCHANGED <<lock, files, store, named, locals, failed, resolved>>

\* KeyboardInterrupt after os.replace and before publish_active_collection has
\* returned: the handler of BaseException takes it for a failed publication.
InterruptPublication(p) ==
    /\ pc[p] = "published"
    /\ Goto(p, "discard")
    /\ UNCHANGED <<lock, files, store, named, locals, failed, resolved>>

\* Mutant: an error of the cleanup escapes past the release of the lock.
AfterCleanupFails_Escapes == "idle"

AfterCleanupFails == "unlock"

\* discard_staged_collection; the deletion itself may fail.
DiscardCandidate(p) ==
    /\ pc[p] = "discard"
    /\ \/ /\ store' = [store EXCEPT ![cand[p]] = "absent"]
          /\ Goto(p, "unlock")
       \/ /\ UNCHANGED store
          /\ Goto(p, AfterCleanupFails)
    /\ failed' = [failed EXCEPT ![p] = TRUE]
    /\ UNCHANGED <<lock, files, named, locals, resolved>>

\* Chunking, or the creation of the collection, raises: nothing is left behind.
StageFails(p) ==
    /\ pc[p] = "stage"
    /\ Raise(p)
    /\ UNCHANGED <<lock, files, store, named, locals, resolved>>

----------------------------------------------------------------------------
(* Retention.                                                              *)

\* Mutant: the collection a rollback would restore is not protected.
Protected_ActiveOnly(m) == {m.active}

\* Mutant: what is being served is not protected.
Protected_PreviousOnly(m) == {m.previous} \ {None}

Protected(m) == {m.active, m.previous} \ {None}

\* Mutant: one slot too many.
KeepSlots_OneMore(m) == MaxVersions - Cardinality(Protected(m)) + 1

\* The budget is at least 2, so it covers what is protected.
KeepSlots(m) == MaxVersions - Cardinality(Protected(m))

\* bounded_retention_candidates: what is recorded and not protected, except
\* the newest that fit the budget.
BoundedCandidates ==
    LET unprotected == inventory \ Protected(manifest)
        newer(c) == {d \in unprotected : recordedAt[d] > recordedAt[c]}
    IN  IF manifest.generation = 0 THEN {}
        ELSE {c \in unprotected : Cardinality(newer(c)) >= KeepSlots(manifest)}

\* execute_bounded_retention computes its candidates and reads the inventory.
PlanRetention(p) ==
    /\ pc[p] \in {"published", "retain"}
    /\ todo' = [todo EXCEPT ![p] = BoundedCandidates]
    /\ snap' = [snap EXCEPT ![p] = inventory]
    /\ Goto(p, IF BoundedCandidates = {} THEN "unlock" ELSE "delete")
    /\ UNCHANGED <<lock, files, store, named, mode, cand, seen, cmd, plan, failed, resolved>>

Oldest(S) == {c \in S : \A d \in S : recordedAt[c] <= recordedAt[d]}

\* delete_collection_if_exists, oldest first: a missing collection is no error.
DeleteCollection(p) ==
    /\ pc[p] = "delete"
    /\ \E c \in Oldest(todo[p]) : store' = [store EXCEPT ![c] = "absent"]
    /\ Goto(p, "prune")
    /\ UNCHANGED <<lock, files, named, locals, failed, resolved>>

\* _without_collection, from the inventory this retention has read.
PruneInventory(p) ==
    /\ pc[p] = "prune"
    /\ \E c \in Oldest(todo[p]) :
          /\ c \in snap[p]
          /\ inventory' = snap[p] \ {c}
          /\ snap' = [snap EXCEPT ![p] = @ \ {c}]
          /\ todo' = [todo EXCEPT ![p] = @ \ {c}]
          /\ Goto(p, IF todo[p] = {c} THEN "unlock" ELSE "delete")
    /\ UNCHANGED <<lock, manifest, recordedAt, clock, store, named, mode, cand, seen, cmd, plan,
                   failed, resolved>>

\* Reading the files, a deletion or the update of the inventory raises; what
\* is done stays done, the switch included.
RetentionFails(p) ==
    /\ pc[p] \in {"published", "verify", "retain", "delete", "prune"}
    /\ Raise(p)
    /\ UNCHANGED <<lock, files, store, named, locals, resolved>>

----------------------------------------------------------------------------
(* Operator commands.                                                      *)

\* preview_index_retention: the key of a later execution, read under the lock.
PreviewRetention(p) ==
    /\ pc[p] = "idle"
    /\ lock = None
    /\ manifest.generation > 0
    /\ plan' = [plan EXCEPT ![p] = [generation |-> manifest.generation,
                                    candidates |-> BoundedCandidates]]
    /\ UNCHANGED <<lock, files, store, named, pc, mode, cand, seen, snap, todo, cmd, failed,
                   resolved>>

BeginRetention(p) ==
    /\ plan[p].generation > 0
    /\ Acquire(p, "retention", "verify")
    /\ UNCHANGED <<files, store, named, cand, seen, snap, todo, cmd, plan, resolved>>

PreviewHolds(p) ==
    /\ manifest.generation = plan[p].generation
    /\ BoundedCandidates = plan[p].candidates

\* execute_index_retention: both expectations must still hold.
VerifyPreview(p) ==
    /\ pc[p] = "verify"
    /\ IF PreviewHolds(p) THEN Goto(p, "retain") /\ UNCHANGED failed ELSE Raise(p)
    /\ UNCHANGED <<lock, files, store, named, locals, resolved>>

BeginRollback(p) ==
    /\ manifest.generation < MaxGeneration
    /\ \E g \in 1..MaxGeneration, c \in Collections :
          cmd' = [cmd EXCEPT ![p] = [generation |-> g, target |-> c]]
    /\ Acquire(p, "rollback", "classify")
    /\ UNCHANGED <<files, store, named, cand, seen, snap, todo, plan, resolved>>

ExactRetry(p) ==
    /\ manifest.generation = cmd[p].generation + 1
    /\ manifest.active = cmd[p].target

\* Mutant: the expected generation is not compared.
FirstApplication_AnyGeneration(p) ==
    /\ manifest.generation > 0
    /\ manifest.previous = cmd[p].target

FirstApplication(p) ==
    /\ manifest.generation = cmd[p].generation
    /\ manifest.previous = cmd[p].target

\* The target opens and has chunks, as many as it counts: a collection that
\* was only partly filled would pass.
Restorable(c) == store[c] \in {"partial", "complete"}

\* rollback_index_version: refused, or a retry of what was applied, or applied.
ClassifyRollback(p) ==
    /\ pc[p] = "classify"
    /\ IF Restorable(cmd[p].target) /\ (ExactRetry(p) \/ FirstApplication(p))
       THEN /\ Goto(p, IF ExactRetry(p) THEN "unlock" ELSE "swap")
            /\ UNCHANGED failed
       ELSE Raise(p)
    /\ UNCHANGED <<lock, files, store, named, locals, resolved>>

\* rollback_active_collection publishes the previous collection it reads itself.
SwapCollections(p) ==
    /\ pc[p] = "swap"
    /\ IF manifest.previous # None
       THEN /\ cand' = [cand EXCEPT ![p] = manifest.previous]
            /\ Goto(p, "publish")
            /\ UNCHANGED failed
       ELSE Raise(p) /\ UNCHANGED cand
    /\ UNCHANGED <<lock, files, store, named, mode, seen, snap, todo, cmd, plan, resolved>>

\* Opening or validating the target, or replacing the manifest, raises.
RollbackFails(p) ==
    /\ mode[p] = "rollback"
    /\ pc[p] \in {"classify", "swap", "publish", "replace"}
    /\ Raise(p)
    /\ UNCHANGED <<lock, files, store, named, locals, resolved>>

----------------------------------------------------------------------------
(* Readers.                                                                *)

ResolveActive(r) ==
    /\ resolved[r] = None
    /\ resolved' = [resolved EXCEPT ![r] = manifest.active]
    /\ UNCHANGED <<lock, files, store, named, pc, locals, failed>>

\* get_retriever opens the collection it resolved; Chroma creates a missing one.
OpenCollection(r) ==
    /\ resolved[r] # None
    /\ store' = [store EXCEPT ![resolved[r]] = IF @ = "absent" THEN "empty" ELSE @]
    /\ resolved' = [resolved EXCEPT ![r] = None]
    /\ UNCHANGED <<lock, files, named, pc, locals, failed>>

----------------------------------------------------------------------------

Step(p) ==
    \/ StageCandidate(p) \/ ValidateCandidate(p) \/ ReadInventory(p) \/ RecordCandidate(p)
    \/ ReadManifest(p) \/ ReplaceManifest(p) \/ BuildFails(p)
    \/ DiscardCandidate(p) \/ StageFails(p)
    \/ PlanRetention(p) \/ DeleteCollection(p) \/ PruneInventory(p) \/ RetentionFails(p)
    \/ VerifyPreview(p) \/ ClassifyRollback(p) \/ SwapCollections(p) \/ RollbackFails(p)
    \/ Unlock(p)

Command(p) == BeginBuild(p) \/ PreviewRetention(p) \/ BeginRetention(p) \/ BeginRollback(p)

Next ==
    \/ \E p \in Procs : Command(p) \/ Step(p) \/ Crash(p)
    \/ \E r \in Readers : ResolveActive(r) \/ OpenCollection(r)

Spec == Init /\ [][Next]_vars

\* The two events the code does not defend against: the database drops the session of a
\* lock that is held, and KeyboardInterrupt arrives in the main thread.
HostileNext == Next \/ \E p \in Procs : LoseSession(p) \/ InterruptPublication(p)

HostileSpec == Init /\ [][HostileNext]_vars

----------------------------------------------------------------------------
(* Properties.                                                             *)

Places == {"idle", "stage", "fill", "record", "record_write", "publish", "replace", "published",
           "discard", "retain", "delete", "prune", "verify", "classify", "swap", "unlock"}

FileTypeOK ==
    /\ manifest \in Manifests
    /\ inventory \in SUBSET Versions
    /\ recordedAt \in [Versions -> Nat]
    /\ clock \in Nat
    /\ store \in [Collections -> StoreStates]
    /\ resolved \in [Readers -> Collections \cup {None}]

ControlTypeOK ==
    /\ lock \in Procs \cup {None}
    /\ named \in 0..MaxBuilds
    /\ pc \in [Procs -> Places]
    /\ mode \in [Procs -> {"none", "build", "rollback", "retention"}]
    /\ failed \in [Procs -> BOOLEAN]

LocalTypeOK ==
    /\ cand \in [Procs -> Collections]
    /\ seen \in [Procs -> Manifests]
    /\ snap \in [Procs -> SUBSET Versions]
    /\ todo \in [Procs -> SUBSET Versions]
    /\ cmd \in [Procs -> [generation : Nat, target : Collections]]
    /\ plan \in [Procs -> [generation : Nat, candidates : SUBSET Versions]]

\* Every variable has its type; only versioned collections are ever recorded.
TypeOK == FileTypeOK /\ ControlTypeOK /\ LocalTypeOK

\* Once a version has been published, the collection the manifest serves is
\* there and whole: no failure, crash, retention or rollback takes it away.
ActiveIsReadable == manifest.generation > 0 => store[manifest.active] = "complete"

\* A switch made for a rollback command is the one the command names: from
\* the expected generation to the expected target, so that a retried or stale
\* command never flips the pointers again.
RollbackMatchesCommand ==
    [][\A p \in Procs : mode[p] = "rollback" /\ pc[p] = "replace" /\ manifest' # manifest =>
           /\ manifest.generation = cmd[p].generation
           /\ manifest'.active = cmd[p].target]_vars

\* The operator's retention deletes nothing but what its preview showed, and
\* only while the manifest is the one that was previewed.
RetentionMatchesPreview ==
    [][\A p \in Procs : mode[p] = "retention" /\ pc[p] = "delete" /\ pc'[p] = "prune" =>
           /\ \A c \in Collections : store'[c] # store[c] => c \in plan[p].candidates
           /\ manifest.generation = plan[p].generation]_vars

\* When a build or a retention ends well, no more versions are recorded than
\* the budget allows, whatever earlier failures left in the inventory.
VersionsBounded ==
    \A p \in Procs : pc[p] = "unlock" /\ ~failed[p] /\ mode[p] # "rollback" =>
        Cardinality(inventory) <= MaxVersions

\* The files and collections, seen as the register its readers rely on.
Register == INSTANCE IndexRegister WITH
    current <- manifest.active,
    prior <- manifest.previous,
    generation <- manifest.generation,
    readable <- {c \in Collections : store[c] = "complete"}

\* Builds, rollbacks, retention, crashes and readers together implement the
\* register: each replacement of the manifest is one switch from the state it
\* replaces, to a whole collection; what is named is never deleted.
ImplementsRegister == Register!Spec

\* What holds of the files and collections under the lock: they keep their types, and what the
\* manifest serves is whole.
IndexSafety == TypeOK /\ ActiveIsReadable

\* The unversioned collection of a deployment from before the manifest is the
\* last resort of a rollback: nothing deletes it, even when the lock is lost
\* or a command is interrupted.
LegacyIsKept == [][store[Legacy] = "complete" => store'[Legacy] = "complete"]_vars

\* An operator's commands do what their idempotency keys say: a rollback switches, and a
\* retention deletes, exactly what was previewed; and no operation deletes the last resort.
CommandsAreExact == RollbackMatchesCommand /\ RetentionMatchesPreview /\ LegacyIsKept

\* However a command fails, the tenant's lock is released in the end.
LockIsFreed == \A p \in Procs : lock = p ~> lock # p

\* DEPLOYMENT.md: a rebuild that lost the lock fails closed.
LostOwnershipFailsClosed ==
    [][\A p \in Procs : pc[p] = "replace" /\ manifest' # manifest /\ pc'[p] # pc[p] => lock = p]_vars
=============================================================================
