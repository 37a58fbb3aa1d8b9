--------------------------- MODULE RetrieverCache ---------------------------
(***************************************************************************)
(* The retriever a process keeps for a tenant.  get_retriever reads the    *)
(* manifest, compares its key with the cached one under _cache_lock, and   *)
(* on a miss opens the collection, finds the chunks of the BM25 index and  *)
(* caches what it built, in four stretches with the lock released between  *)
(* them.  Publications of this process write the cache too; those of       *)
(* another process only move the manifest.                                 *)
(*                                                                         *)
(* vectordb/manager.py (get_retriever, _restore_chunks_from_store,         *)
(* rollback_vector_store, reset_retriever_cache),                          *)
(* vectordb/_base_manager.py (get_retriever).                              *)
(***************************************************************************)
EXTENDS Naturals, FiniteSets

CONSTANTS
    Readers,         \* threads in get_retriever
    Builders,        \* builds and rollbacks of this process
    MaxPublications  \* bound on the generations of the manifest

ASSUME RetrieverCacheAssumption == MaxPublications \in Nat \ {0}

\* Collections are numbered in the order they are built; Absent is Python's None.
Absent == 0
Collections == 1 .. MaxPublications
NoRetriever == [store |-> Absent, chunks |-> Absent]
NoIndexKey == [collection |-> Absent, generation |-> 0]

\* The entry of a tenant with nothing cached.
Evicted == [store |-> Absent, chunks |-> Absent, retriever |-> NoRetriever, key |-> NoIndexKey]

VARIABLES
    active,      \* the manifest: generation, active and previous collection
    filled,      \* collections of Chroma that hold chunks
    hollow,      \* collections re-created empty by opening a deleted name
    entry,       \* _store_cache, _chunks_cache, _retriever_cache, _index_cache_keys
    reader,      \* per thread: step, the key it resolved, its locals, what it returned
    builder,     \* per writer: step and the key it will cache
    unrestored   \* history: collections whose chunks could not be read back

retrieverVars == <<active, filled, hollow, entry, reader, builder, unrestored>>

RetrieverCacheInit ==
    /\ active = [generation |-> 1, collection |-> 1, previous |-> Absent]
    /\ filled = {1}
    /\ hollow = {}
    /\ entry = Evicted
    /\ reader = [r \in Readers |->
           [step |-> "idle", key |-> NoIndexKey, store |-> Absent, chunks |-> Absent,
            got |-> NoRetriever]]
    /\ builder = [b \in Builders |-> [step |-> "idle", key |-> NoIndexKey]]
    /\ unrestored = {}

ActiveKey == [collection |-> active.collection, generation |-> active.generation]

----------------------------------------------------------------------------
(* get_retriever *)

\* The manifest is read before the lock is taken.
Resolve_active_index(r) ==
    /\ reader[r].step \in {"idle", "done"}
    /\ reader' = [reader EXCEPT ![r] =
           [step |-> "look", key |-> ActiveKey, store |-> Absent, chunks |-> Absent,
            got |-> NoRetriever]]
    /\ UNCHANGED <<active, filled, hollow, entry, builder, unrestored>>

\* Mutant: the eviction forgets the store.
Current_KeepsStore(key) ==
    IF entry.key = key THEN entry ELSE [Evicted EXCEPT !.store = entry.store]

\* What the entry is for a reader with this key: another key evicts all of it.
Current(key) == IF entry.key = key THEN entry ELSE Evicted

\* First stretch under the lock: evict, then return the cached retriever or take the parts.
LookUp(r) ==
    LET kept == Current(reader[r].key) IN
    /\ reader[r].step = "look"
    /\ entry' = kept
    /\ reader' = [reader EXCEPT
           ![r].step = IF kept.retriever = NoRetriever THEN "open" ELSE "done",
           ![r].got = kept.retriever, ![r].store = kept.store, ![r].chunks = kept.chunks]
    /\ UNCHANGED <<active, filled, hollow, builder, unrestored>>

\* The client creates a collection it does not find; the probe accepts an empty one.
OpenStore(r) ==
    LET name == IF reader[r].store = Absent THEN reader[r].key.collection ELSE reader[r].store IN
    /\ reader[r].step = "open"
    /\ reader[r].store = Absent \/ name \in filled \cup hollow
    /\ hollow' = IF name \in filled THEN hollow ELSE hollow \cup {name}
    /\ reader' = [reader EXCEPT ![r].step = "chunks", ![r].store = name]
    /\ UNCHANGED <<active, filled, entry, builder, unrestored>>

\* A probe that cannot read, or reads another dimension, empties the cache and raises.
ProbeFails(r) ==
    /\ reader[r].step = "open"
    /\ entry' = Evicted
    /\ reader' = [reader EXCEPT ![r].step = "idle"]
    /\ UNCHANGED <<active, filled, hollow, builder, unrestored>>

\* Second stretch: chunks that were not cached may be by now; the key is not compared.
ReadChunksAgain(r) ==
    /\ reader[r].step = "chunks"
    /\ reader' = [reader EXCEPT
           ![r].step = "restore",
           ![r].chunks = IF @ = Absent THEN entry.chunks ELSE @]
    /\ UNCHANGED <<active, filled, hollow, entry, builder, unrestored>>

\* _restore_chunks_from_store: None when the read fails or the collection is empty or gone.
RestoreOutcomes(name) == {Absent} \cup (filled \cap {name})

\* The chunks come from the locals, or from the collection; failures are remembered.
RestoreChunks(r) ==
    LET me == reader[r] IN
    /\ me.step = "restore"
    /\ \E c \in IF me.chunks # Absent THEN {me.chunks} ELSE RestoreOutcomes(me.store) :
          /\ reader' = [reader EXCEPT ![r].step = "put", ![r].chunks = c]
          /\ unrestored' = IF c = Absent /\ RestoreOutcomes(me.store) # {Absent}
                           THEN unrestored \cup {me.store} ELSE unrestored
    /\ UNCHANGED <<active, filled, hollow, entry, builder>>

\* Last stretch: everything the reader built is cached under the key it resolved.
PutRetriever(r) ==
    LET me == reader[r]  made == [store |-> me.store, chunks |-> me.chunks] IN
    /\ me.step = "put"
    /\ entry' = [store |-> me.store,
                 chunks |-> IF me.chunks = Absent THEN entry.chunks ELSE me.chunks,
                 retriever |-> made, key |-> me.key]
    /\ reader' = [reader EXCEPT ![r].step = "done", ![r].got = made]
    /\ UNCHANGED <<active, filled, hollow, builder, unrestored>>

----------------------------------------------------------------------------
(* Publications *)

\* The manifest a build leaves: a new collection, and the active one becomes the previous.
Built == [generation |-> active.generation + 1,
          collection |-> active.generation + 1,
          previous |-> active.collection]

\* rollback_index_version: the previous collection is active again, in a new generation.
RolledBack == [generation |-> active.generation + 1,
               collection |-> active.previous,
               previous |-> active.collection]

\* Retention at its smallest budget: the active and the previous collection are kept.
Protected(next) == {next.collection, next.previous}

\* One publication under the tenant's lock, which a build holds until it has cached and
\* a rollback only until it has published.  A rollback validates its target's chunks first.
Publication(next) ==
    /\ active.generation < MaxPublications
    /\ \A b \in Builders : builder[b].step # "built"
    /\ \/ next = Built
       \/ next = RolledBack /\ active.previous \in filled
    /\ active' = next
    /\ filled' = (filled \cup {next.collection}) \cap Protected(next)
    /\ hollow' = hollow \cap Protected(next)

\* A build or rollback of this process: the manifest moves first, the cache follows.
PublishHere(b) ==
    /\ builder[b].step = "idle"
    /\ \E next \in {Built, RolledBack} :
          /\ Publication(next)
          /\ builder' = [builder EXCEPT ![b] = [step |-> IF next = Built THEN "built" ELSE "rolled_back",
                 key |-> [collection |-> next.collection, generation |-> next.generation]]]
    /\ UNCHANGED <<entry, reader, unrestored>>

\* The store and the chunks are cached with the key of the publication.
CachePublication(b) ==
    LET key == builder[b].key IN
    /\ builder[b].step \in {"built", "rolled_back"}
    /\ entry' = [store |-> key.collection, chunks |-> key.collection,
                 retriever |-> NoRetriever, key |-> key]
    /\ builder' = [builder EXCEPT ![b].step = "idle"]
    /\ UNCHANGED <<active, filled, hollow, reader, unrestored>>

\* A retention that raises after the publication leaves the cache as it was.
PublicationUncached(b) ==
    /\ builder[b].step = "built"
    /\ builder' = [builder EXCEPT ![b].step = "idle"]
    /\ UNCHANGED <<active, filled, hollow, entry, reader, unrestored>>

\* The worker process publishes: this process learns of it from the manifest alone.
PublishElsewhere ==
    /\ \E next \in {Built, RolledBack} : Publication(next)
    /\ UNCHANGED <<entry, reader, builder, unrestored>>

\* reset_retriever_cache.
ResetRetrieverCache ==
    /\ entry # Evicted
    /\ entry' = Evicted
    /\ UNCHANGED <<active, filled, hollow, reader, builder, unrestored>>

RetrieverCacheNext ==
    \/ \E r \in Readers :
          \/ Resolve_active_index(r) \/ LookUp(r) \/ OpenStore(r) \/ ProbeFails(r)
          \/ ReadChunksAgain(r) \/ RestoreChunks(r) \/ PutRetriever(r)
    \/ \E b \in Builders : PublishHere(b) \/ CachePublication(b) \/ PublicationUncached(b)
    \/ PublishElsewhere
    \/ ResetRetrieverCache

RetrieverCacheSpec == RetrieverCacheInit /\ [][RetrieverCacheNext]_retrieverVars

----------------------------------------------------------------------------
(* Properties *)

RetrieverCacheTypeOK ==
    /\ active \in [generation : Collections, collection : Collections,
                   previous : Collections \cup {Absent}]
    /\ filled \subseteq Collections /\ hollow \subseteq Collections
    /\ entry \in [store : Nat, chunks : Nat, retriever : [store : Nat, chunks : Nat],
                  key : [collection : Nat, generation : Nat]]
    /\ \A r \in Readers : reader[r].step \in {"idle", "look", "open", "chunks", "restore", "put", "done"}
    /\ \A b \in Builders : builder[b].step \in {"idle", "built", "rolled_back"}
    /\ unrestored \subseteq Collections

\* However reads, publications and resets interleave, the retriever a call returns
\* searches the collection that was active when the call read the manifest.
SearchesResolvedIndex ==
    \A r \in Readers :
        reader[r].step = "done" => reader[r].got.store = reader[r].key.collection

\* A retriever without BM25 is cached for the active index only after the chunks of
\* its collection could not be read back: a deleted or re-created collection is never
\* the active one, whatever the readers that resolved an older manifest open.
DegradedOnlyAfterFailure ==
    entry.retriever # NoRetriever /\ entry.retriever.chunks = Absent /\ entry.key = ActiveKey
        => entry.retriever.store \in unrestored

\* Retrievers search the index their request resolved, with the words of its chunks unless
\* these could not be read (get_retriever).
RetrieverSafety ==
    /\ RetrieverCacheTypeOK
    /\ SearchesResolvedIndex
    /\ DegradedOnlyAfterFailure
=============================================================================
