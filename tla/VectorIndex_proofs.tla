------------------------- MODULE VectorIndex_proofs -------------------------
(***************************************************************************)
(* Theorems about VectorIndex, for any set of processes and readers, any   *)
(* retention budget and any number of builds and switches.  What needs no  *)
(* lock holds of HostileSpec, too, in which the session of a working       *)
(* process may be dropped and KeyboardInterrupt may arrive; with either of *)
(* these, the rest has counterexamples.                                    *)
(***************************************************************************)
EXTENDS VectorIndex, FiniteSetTheorems, TLAPS

\* The lock: exactly the process that is inside a command holds it.
Held == \A p \in Procs : pc[p] # "idle" <=> lock = p

\* Which command a process may be executing at each place.
Modes ==
    \A p \in Procs :
        /\ pc[p] \in {"stage", "fill", "record", "record_write", "published", "discard"} =>
              mode[p] = "build"
        /\ pc[p] \in {"classify", "swap"} => mode[p] = "rollback"
        /\ pc[p] \in {"publish", "replace"} => mode[p] \in {"build", "rollback"}
        /\ pc[p] \in {"verify", "retain"} => mode[p] = "retention"

\* Process p has staged a candidate that is not published.
Staging(p) == \/ pc[p] \in {"fill", "record", "record_write", "discard"}
              \/ pc[p] \in {"publish", "replace"} /\ mode[p] = "build"

\* What a build stages, and may discard, is a versioned collection.
StagedName == \A p \in Procs : Staging(p) \/ pc[p] = "published" => cand[p] \in Versions

\* The part of the invariant that needs no lock.
BaseInv == TypeOK /\ Modes /\ StagedName

\* What the manifest names was staged before and is whole; the unversioned
\* collection is never half filled.
Pointers ==
    /\ manifest.active <= named
    /\ manifest.previous # None => manifest.previous <= named
    /\ manifest.previous # manifest.active
    /\ manifest.generation = 0 => manifest.active = Legacy /\ manifest.previous = None
    /\ manifest.generation > 0 => store[manifest.active] = "complete"
    /\ manifest.previous \in Versions => store[manifest.previous] = "complete"
    /\ store[Legacy] # "partial"

\* Process p is past the checks of its rollback command.
Restoring(p) == pc[p] \in {"swap", "publish", "replace"} /\ mode[p] = "rollback"

\* What the process that holds the lock relies on between its steps.
Working ==
    \A p \in Procs :
        /\ Staging(p) => /\ cand[p] <= named
                         /\ cand[p] # manifest.active
                         /\ cand[p] # manifest.previous
        /\ pc[p] \in {"record", "record_write", "publish", "replace"} => store[cand[p]] = "complete"
        /\ Restoring(p) => /\ manifest.generation = cmd[p].generation
                           /\ manifest.previous = cmd[p].target
                           /\ store[cmd[p].target] = "complete"
        /\ Restoring(p) /\ pc[p] # "swap" => cand[p] = cmd[p].target
        /\ pc[p] = "replace" => seen[p] = manifest
        /\ pc[p] \in {"delete", "prune"} => /\ manifest.active \notin todo[p]
                                            /\ manifest.previous \notin todo[p]

\* What an operator's retention deletes was previewed at this generation.
Previewed ==
    \A p \in Procs : mode[p] = "retention" =>
        /\ pc[p] \in {"retain", "delete", "prune"} => manifest.generation = plan[p].generation
        /\ pc[p] = "retain" => BoundedCandidates = plan[p].candidates
        /\ pc[p] \in {"delete", "prune"} => todo[p] \subseteq plan[p].candidates

Inv == BaseInv /\ Held /\ Pointers /\ Working /\ Previewed

----------------------------------------------------------------------------
(* The operators.                                                          *)

\* Retention never proposes what the manifest names, nor what is not recorded.
LEMMA CandidatesAreUnprotected ==
  ASSUME BaseInv, NEW c \in BoundedCandidates
  PROVE  c \in inventory /\ c # manifest.active /\ c # manifest.previous
  <1>1. BoundedCandidates \subseteq inventory \ Protected(manifest)
    <2>1. CASE manifest.generation = 0
      BY <2>1 DEF BoundedCandidates
    <2>2. CASE manifest.generation # 0
      <3> DEFINE U == inventory \ Protected(manifest)
      <3>1. BoundedCandidates =
              {d \in U : Cardinality({x \in U : recordedAt[x] > recordedAt[d]}) >= KeepSlots(manifest)}
        BY <2>2 DEF BoundedCandidates
      <3> HIDE DEF U
      <3>2. BoundedCandidates \subseteq U
        BY <3>1
      <3>3. QED
        BY <3>2 DEF U
    <2>3. QED
      BY <2>1, <2>2
  <1>2. QED
    BY <1>1, NamesAssumption, BoundsAssumption
    DEF Protected, BaseInv, TypeOK, FileTypeOK, Manifests, Collections, Versions, Legacy

\* The manifest that replaces a manifest is one.
LEMMA NextManifestType ==
  ASSUME NEW m \in Manifests, NEW c \in Collections
  PROVE  NextManifest(m, c) \in Manifests
  BY DEF NextManifest, Manifests

\* The values of the local variables between commands.
LEMMA NothingType ==
  /\ NoManifest \in Manifests
  /\ Legacy \in Collections
  /\ NoCommand \in [generation : Nat, target : Collections]
  BY DEF NoManifest, Manifests, NoCommand, Collections, Legacy

\* The end of a command resets them.
LEMMA ReturnLocalType ==
  ASSUME BaseInv, NEW p \in Procs, Return(p)
  PROVE  LocalTypeOK'
  <1> USE DEF BaseInv, TypeOK, LocalTypeOK, Return
  <1>1. cand' \in [Procs -> Collections] /\ seen' \in [Procs -> Manifests]
    BY NothingType
  <1>2. snap' \in [Procs -> SUBSET Versions] /\ todo' \in [Procs -> SUBSET Versions]
    OBVIOUS
  <1>3. cmd' \in [Procs -> [generation : Nat, target : Collections]]
    BY NothingType
  <1>4. plan' \in [Procs -> [generation : Nat, candidates : SUBSET Versions]]
    OBVIOUS
  <1>5. QED
    BY <1>1, <1>2, <1>3, <1>4

----------------------------------------------------------------------------
(* The part of the invariant that needs no lock.                            *)

\* The files and the collections keep their types.
LEMMA FileTypeStep ==
  ASSUME BaseInv, [HostileNext]_vars
  PROVE  FileTypeOK'
  <1> USE NamesAssumption, BoundsAssumption
  <1>1. ASSUME NEW p \in Procs, StageCandidate(p)
       PROVE  FileTypeOK'
    BY <1>1
    DEF StageCandidate, Collections, Versions, BaseInv, TypeOK, FileTypeOK, ControlTypeOK,
        LocalTypeOK, Places, StoreStates, Goto, vars, files, locals
  <1>2. ASSUME NEW p \in Procs,
                ValidateCandidate(p) \/ DiscardCandidate(p)
       PROVE  FileTypeOK'
    BY <1>2
    DEF ValidateCandidate, DiscardCandidate, AfterCleanupFails, BaseInv, TypeOK, FileTypeOK,
        ControlTypeOK, LocalTypeOK, Places, StoreStates, Goto, vars, files, locals
  <1>3. ASSUME NEW p \in Procs, RecordCandidate(p)
       PROVE  FileTypeOK'
    BY <1>3
    DEF RecordCandidate, RecordedName, StagedName, Staging, BaseInv, TypeOK, FileTypeOK,
        ControlTypeOK, LocalTypeOK, Places, StoreStates, Goto, vars, files, locals
  <1>4. ASSUME NEW p \in Procs, ReplaceManifest(p)
       PROVE  FileTypeOK'
    BY <1>4, NextManifestType
    DEF ReplaceManifest, NextManifest, BaseInv, TypeOK, FileTypeOK, ControlTypeOK, LocalTypeOK,
        Places, StoreStates, Goto, vars, files, locals
  <1>5. ASSUME NEW p \in Procs, DeleteCollection(p)
       PROVE  FileTypeOK'
    BY <1>5
    DEF DeleteCollection, Oldest, Collections, BaseInv, TypeOK, FileTypeOK, ControlTypeOK,
        LocalTypeOK, Places, StoreStates, Goto, vars, files, locals
  <1>6. ASSUME NEW p \in Procs, PruneInventory(p)
       PROVE  FileTypeOK'
    BY <1>6
    DEF PruneInventory, BaseInv, TypeOK, FileTypeOK, ControlTypeOK, LocalTypeOK, Places,
        StoreStates, Goto, vars, files, locals
  <1>7. ASSUME NEW p \in Procs,
                BeginBuild(p) \/ PreviewRetention(p) \/ BeginRetention(p) \/ BeginRollback(p) \/
                ReadInventory(p) \/ ReadManifest(p)
       PROVE  FileTypeOK'
    BY <1>7
    DEF BeginBuild, PreviewRetention, BeginRetention, BeginRollback, ReadInventory, ReadManifest,
        Acquire, BaseInv, TypeOK, FileTypeOK, ControlTypeOK, LocalTypeOK, Places, StoreStates,
        Goto, vars, files, locals
  <1>8. ASSUME NEW p \in Procs,
                BuildFails(p) \/ InterruptPublication(p) \/ StageFails(p) \/ RetentionFails(p) \/
                RollbackFails(p) \/ LoseSession(p)
       PROVE  FileTypeOK'
    BY <1>8
    DEF BuildFails, InterruptPublication, StageFails, RetentionFails, RollbackFails, LoseSession,
        DiscardsOnFailure, Raise, BaseInv, TypeOK, FileTypeOK, ControlTypeOK, LocalTypeOK, Places,
        StoreStates, Goto, vars, files, locals
  <1>9. ASSUME NEW p \in Procs,
                VerifyPreview(p) \/ ClassifyRollback(p) \/ SwapCollections(p) \/ PlanRetention(p) \/
                Unlock(p) \/ Crash(p)
       PROVE  FileTypeOK'
    BY <1>9
    DEF VerifyPreview, ClassifyRollback, SwapCollections, PlanRetention, Unlock, Crash, Raise,
        Return, BaseInv, TypeOK, FileTypeOK, ControlTypeOK, LocalTypeOK, Places, StoreStates,
        Goto, vars, files, locals
  <1>10. ASSUME NEW r \in Readers, ResolveActive(r) \/ OpenCollection(r)
       PROVE  FileTypeOK'
    <2>1. CASE ResolveActive(r)
      <3>1. manifest.active \in Collections
        BY DEF BaseInv, TypeOK, FileTypeOK, Manifests
      <3>2. resolved' \in [Readers -> Collections \cup {None}]
        BY <2>1, <3>1 DEF ResolveActive, BaseInv, TypeOK, FileTypeOK
      <3>3. QED
        BY <2>1, <3>2 DEF ResolveActive, BaseInv, TypeOK, FileTypeOK, files
    <2>2. CASE OpenCollection(r)
      <3>1. resolved' \in [Readers -> Collections \cup {None}]
        BY <2>2 DEF OpenCollection, BaseInv, TypeOK, FileTypeOK
      <3>2. store' \in [Collections -> StoreStates]
        BY <2>2 DEF OpenCollection, BaseInv, TypeOK, FileTypeOK, StoreStates
      <3>3. QED
        BY <2>2, <3>1, <3>2 DEF OpenCollection, BaseInv, TypeOK, FileTypeOK, files
    <2>3. QED
      BY <1>10, <2>1, <2>2
  <1>11. CASE UNCHANGED vars
    BY <1>11
    DEF BaseInv, TypeOK, FileTypeOK, ControlTypeOK, LocalTypeOK, Places, StoreStates, vars, files,
        locals
  <1>12. QED
    BY <1>1, <1>2, <1>3, <1>4, <1>5, <1>6, <1>7, <1>8, <1>9, <1>10, <1>11
    DEF HostileNext, Next, Command, Step


\* So do the lock and the control state.
LEMMA ControlTypeStep ==
  ASSUME BaseInv, [HostileNext]_vars
  PROVE  ControlTypeOK'
  <1> USE NamesAssumption, BoundsAssumption
  <1>1. ASSUME NEW p \in Procs,
                BeginBuild(p) \/ BeginRetention(p) \/ BeginRollback(p)
       PROVE  ControlTypeOK'
    BY <1>1
    DEF BeginBuild, BeginRetention, BeginRollback, Acquire, BaseInv, TypeOK, FileTypeOK,
        ControlTypeOK, LocalTypeOK, Places, StoreStates, Goto, vars, files, locals
  <1>2. ASSUME NEW p \in Procs, StageCandidate(p)
       PROVE  ControlTypeOK'
    BY <1>2
    DEF StageCandidate, BaseInv, TypeOK, FileTypeOK, ControlTypeOK, LocalTypeOK, Places,
        StoreStates, Goto, vars, files, locals
  <1>3. ASSUME NEW p \in Procs,
                PreviewRetention(p) \/ LoseSession(p)
       PROVE  ControlTypeOK'
    BY <1>3
    DEF PreviewRetention, LoseSession, BaseInv, TypeOK, FileTypeOK, ControlTypeOK, LocalTypeOK,
        Places, StoreStates, Goto, vars, files, locals
  <1>4. ASSUME NEW p \in Procs,
                ValidateCandidate(p) \/ ReadInventory(p) \/ RecordCandidate(p) \/ ReadManifest(p)
       PROVE  ControlTypeOK'
    BY <1>4
    DEF ValidateCandidate, ReadInventory, RecordCandidate, ReadManifest, RecordedName, BaseInv,
        TypeOK, FileTypeOK, ControlTypeOK, LocalTypeOK, Places, StoreStates, Goto, vars, files,
        locals
  <1>5. ASSUME NEW p \in Procs,
                ReplaceManifest(p) \/ BuildFails(p) \/ InterruptPublication(p) \/ DiscardCandidate(p)
       PROVE  ControlTypeOK'
    BY <1>5
    DEF ReplaceManifest, BuildFails, InterruptPublication, DiscardCandidate, NextManifest,
        DiscardsOnFailure, AfterCleanupFails, BaseInv, TypeOK, FileTypeOK, ControlTypeOK,
        LocalTypeOK, Places, StoreStates, Goto, vars, files, locals
  <1>6. ASSUME NEW p \in Procs,
                StageFails(p) \/ RetentionFails(p) \/ RollbackFails(p)
       PROVE  ControlTypeOK'
    BY <1>6
    DEF StageFails, RetentionFails, RollbackFails, Raise, BaseInv, TypeOK, FileTypeOK,
        ControlTypeOK, LocalTypeOK, Places, StoreStates, Goto, vars, files, locals
  <1>7. ASSUME NEW p \in Procs, VerifyPreview(p)
       PROVE  ControlTypeOK'
    BY <1>7
    DEF VerifyPreview, Raise, BaseInv, TypeOK, FileTypeOK, ControlTypeOK, LocalTypeOK, Places,
        StoreStates, Goto, vars, files, locals
  <1>8. ASSUME NEW p \in Procs, ClassifyRollback(p)
       PROVE  ControlTypeOK'
    BY <1>8
    DEF ClassifyRollback, Raise, BaseInv, TypeOK, FileTypeOK, ControlTypeOK, LocalTypeOK, Places,
        StoreStates, Goto, vars, files, locals
  <1>9. ASSUME NEW p \in Procs, SwapCollections(p)
       PROVE  ControlTypeOK'
    BY <1>9
    DEF SwapCollections, Raise, BaseInv, TypeOK, FileTypeOK, ControlTypeOK, LocalTypeOK, Places,
        StoreStates, Goto, vars, files, locals
  <1>10. ASSUME NEW p \in Procs, PlanRetention(p)
       PROVE  ControlTypeOK'
    BY <1>10
    DEF PlanRetention, BaseInv, TypeOK, FileTypeOK, ControlTypeOK, LocalTypeOK, Places,
        StoreStates, Goto, vars, files, locals
  <1>11. ASSUME NEW p \in Procs, DeleteCollection(p)
       PROVE  ControlTypeOK'
    BY <1>11
    DEF DeleteCollection, BaseInv, TypeOK, FileTypeOK, ControlTypeOK, LocalTypeOK, Places,
        StoreStates, Goto, vars, files, locals
  <1>12. ASSUME NEW p \in Procs, PruneInventory(p)
       PROVE  ControlTypeOK'
    BY <1>12
    DEF PruneInventory, BaseInv, TypeOK, FileTypeOK, ControlTypeOK, LocalTypeOK, Places,
        StoreStates, Goto, vars, files, locals
  <1>13. ASSUME NEW p \in Procs,
                Unlock(p) \/ Crash(p)
       PROVE  ControlTypeOK'
    BY <1>13
    DEF Unlock, Crash, Return, BaseInv, TypeOK, FileTypeOK, ControlTypeOK, LocalTypeOK, Places,
        StoreStates, Goto, vars, files, locals
  <1>14. ASSUME NEW r \in Readers, ResolveActive(r) \/ OpenCollection(r)
       PROVE  ControlTypeOK'
    BY <1>14
    DEF ResolveActive, OpenCollection, BaseInv, TypeOK, FileTypeOK, ControlTypeOK, LocalTypeOK,
        Places, StoreStates, vars, files, locals
  <1>15. CASE UNCHANGED vars
    BY <1>15
    DEF BaseInv, TypeOK, FileTypeOK, ControlTypeOK, LocalTypeOK, Places, StoreStates, vars, files,
        locals
  <1>16. QED
    BY <1>1, <1>2, <1>3, <1>4, <1>5, <1>6, <1>7, <1>8, <1>9, <1>10, <1>11, <1>12, <1>13, <1>14, <1>15
    DEF HostileNext, Next, Command, Step


\* So do the local variables of the commands.
LEMMA LocalTypeStep ==
  ASSUME BaseInv, [HostileNext]_vars
  PROVE  LocalTypeOK'
  <1> USE NamesAssumption, BoundsAssumption
  <1>1. ASSUME NEW p \in Procs,
                BeginBuild(p) \/ BeginRetention(p)
       PROVE  LocalTypeOK'
    BY <1>1
    DEF BeginBuild, BeginRetention, Acquire, BaseInv, TypeOK, FileTypeOK, ControlTypeOK,
        LocalTypeOK, Places, StoreStates, Goto, vars, files, locals
  <1>2. ASSUME NEW p \in Procs, BeginRollback(p)
       PROVE  LocalTypeOK'
    BY <1>2
    DEF BeginRollback, Acquire, BaseInv, TypeOK, FileTypeOK, ControlTypeOK, LocalTypeOK, Places,
        StoreStates, Goto, vars, files, locals
  <1>3. ASSUME NEW p \in Procs, PreviewRetention(p)
       PROVE  LocalTypeOK'
    BY <1>3, CandidatesAreUnprotected
    DEF PreviewRetention, Manifests, BaseInv, TypeOK, FileTypeOK, ControlTypeOK, LocalTypeOK,
        Places, StoreStates, Goto, vars, files, locals
  <1>4. ASSUME NEW p \in Procs, StageCandidate(p)
       PROVE  LocalTypeOK'
    BY <1>4
    DEF StageCandidate, Collections, Versions, BaseInv, TypeOK, FileTypeOK, ControlTypeOK,
        LocalTypeOK, Places, StoreStates, Goto, vars, files, locals
  <1>5. ASSUME NEW p \in Procs, ReadInventory(p)
       PROVE  LocalTypeOK'
    BY <1>5
    DEF ReadInventory, BaseInv, TypeOK, FileTypeOK, ControlTypeOK, LocalTypeOK, Places,
        StoreStates, Goto, vars, files, locals
  <1>6. ASSUME NEW p \in Procs, ReadManifest(p)
       PROVE  LocalTypeOK'
    BY <1>6
    DEF ReadManifest, BaseInv, TypeOK, FileTypeOK, ControlTypeOK, LocalTypeOK, Places,
        StoreStates, Goto, vars, files, locals
  <1>7. ASSUME NEW p \in Procs, PlanRetention(p)
       PROVE  LocalTypeOK'
    BY <1>7, CandidatesAreUnprotected
    DEF PlanRetention, BaseInv, TypeOK, FileTypeOK, ControlTypeOK, LocalTypeOK, Places,
        StoreStates, Goto, vars, files, locals
  <1>8. ASSUME NEW p \in Procs, PruneInventory(p)
       PROVE  LocalTypeOK'
    BY <1>8
    DEF PruneInventory, BaseInv, TypeOK, FileTypeOK, ControlTypeOK, LocalTypeOK, Places,
        StoreStates, Goto, vars, files, locals
  <1>9. ASSUME NEW p \in Procs, SwapCollections(p)
       PROVE  LocalTypeOK'
    BY <1>9
    DEF SwapCollections, Raise, Manifests, BaseInv, TypeOK, FileTypeOK, ControlTypeOK,
        LocalTypeOK, Places, StoreStates, Goto, vars, files, locals
  <1>10. ASSUME NEW p \in Procs,
                Unlock(p) \/ Crash(p)
       PROVE  LocalTypeOK'
    BY <1>10, ReturnLocalType
    DEF Unlock, Crash
  <1>11. ASSUME NEW p \in Procs,
                ValidateCandidate(p) \/ RecordCandidate(p) \/ ReplaceManifest(p) \/ BuildFails(p) \/
                InterruptPublication(p) \/ DiscardCandidate(p)
       PROVE  LocalTypeOK'
    BY <1>11
    DEF ValidateCandidate, RecordCandidate, ReplaceManifest, BuildFails, InterruptPublication,
        DiscardCandidate, RecordedName, NextManifest, DiscardsOnFailure, AfterCleanupFails,
        BaseInv, TypeOK, FileTypeOK, ControlTypeOK, LocalTypeOK, Places, StoreStates, Goto, vars,
        files, locals
  <1>12. ASSUME NEW p \in Procs,
                StageFails(p) \/ RetentionFails(p) \/ RollbackFails(p) \/ VerifyPreview(p) \/
                ClassifyRollback(p) \/ DeleteCollection(p) \/ LoseSession(p)
       PROVE  LocalTypeOK'
    BY <1>12
    DEF StageFails, RetentionFails, RollbackFails, VerifyPreview, ClassifyRollback,
        DeleteCollection, LoseSession, Raise, BaseInv, TypeOK, FileTypeOK, ControlTypeOK,
        LocalTypeOK, Places, StoreStates, Goto, vars, files, locals
  <1>13. ASSUME NEW r \in Readers, ResolveActive(r) \/ OpenCollection(r)
       PROVE  LocalTypeOK'
    BY <1>13
    DEF ResolveActive, OpenCollection, BaseInv, TypeOK, FileTypeOK, ControlTypeOK, LocalTypeOK,
        Places, StoreStates, vars, files, locals
  <1>14. CASE UNCHANGED vars
    BY <1>14
    DEF BaseInv, TypeOK, FileTypeOK, ControlTypeOK, LocalTypeOK, Places, StoreStates, vars, files,
        locals
  <1>15. QED
    BY <1>1, <1>2, <1>3, <1>4, <1>5, <1>6, <1>7, <1>8, <1>9, <1>10, <1>11, <1>12, <1>13, <1>14
    DEF HostileNext, Next, Command, Step


\* A place belongs to one kind of command.
LEMMA ModesStep ==
  ASSUME BaseInv, [HostileNext]_vars
  PROVE  Modes'
  <1>1. ASSUME NEW p \in Procs,
                BeginBuild(p) \/ BeginRetention(p) \/ BeginRollback(p)
       PROVE  Modes'
    BY <1>1
    DEF BeginBuild, BeginRetention, BeginRollback, Acquire, BaseInv, TypeOK, ControlTypeOK, Modes,
        Goto, vars, files, locals
  <1>2. ASSUME NEW p \in Procs,
                StageCandidate(p) \/ ValidateCandidate(p) \/ ReadInventory(p) \/ RecordCandidate(p) \/
                ReadManifest(p)
       PROVE  Modes'
    BY <1>2
    DEF StageCandidate, ValidateCandidate, ReadInventory, RecordCandidate, ReadManifest,
        RecordedName, BaseInv, TypeOK, ControlTypeOK, Modes, Goto, vars, files, locals
  <1>3. ASSUME NEW p \in Procs, ReplaceManifest(p)
       PROVE  Modes'
    BY <1>3
    DEF ReplaceManifest, NextManifest, BaseInv, TypeOK, ControlTypeOK, Modes, Goto, vars, files,
        locals
  <1>4. ASSUME NEW p \in Procs,
                BuildFails(p) \/ InterruptPublication(p)
       PROVE  Modes'
    BY <1>4
    DEF BuildFails, InterruptPublication, DiscardsOnFailure, BaseInv, TypeOK, ControlTypeOK,
        Modes, Goto, vars, files, locals
  <1>5. ASSUME NEW p \in Procs, DiscardCandidate(p)
       PROVE  Modes'
    BY <1>5
    DEF DiscardCandidate, AfterCleanupFails, BaseInv, TypeOK, ControlTypeOK, Modes, Goto, vars,
        files, locals
  <1>6. ASSUME NEW p \in Procs,
                StageFails(p) \/ RetentionFails(p) \/ RollbackFails(p)
       PROVE  Modes'
    BY <1>6
    DEF StageFails, RetentionFails, RollbackFails, Raise, BaseInv, TypeOK, ControlTypeOK, Modes,
        Goto, vars, files, locals
  <1>7. ASSUME NEW p \in Procs, VerifyPreview(p)
       PROVE  Modes'
    BY <1>7
    DEF VerifyPreview, Raise, BaseInv, TypeOK, ControlTypeOK, Modes, Goto, vars, files, locals
  <1>8. ASSUME NEW p \in Procs, ClassifyRollback(p)
       PROVE  Modes'
    BY <1>8
    DEF ClassifyRollback, Raise, BaseInv, TypeOK, ControlTypeOK, Modes, Goto, vars, files, locals
  <1>9. ASSUME NEW p \in Procs, SwapCollections(p)
       PROVE  Modes'
    BY <1>9
    DEF SwapCollections, Raise, BaseInv, TypeOK, ControlTypeOK, Modes, Goto, vars, files, locals
  <1>10. ASSUME NEW p \in Procs, PlanRetention(p)
       PROVE  Modes'
    BY <1>10
    DEF PlanRetention, BaseInv, TypeOK, ControlTypeOK, Modes, Goto, vars, files, locals
  <1>11. ASSUME NEW p \in Procs, DeleteCollection(p)
       PROVE  Modes'
    BY <1>11
    DEF DeleteCollection, BaseInv, TypeOK, ControlTypeOK, Modes, Goto, vars, files, locals
  <1>12. ASSUME NEW p \in Procs, PruneInventory(p)
       PROVE  Modes'
    BY <1>12
    DEF PruneInventory, BaseInv, TypeOK, ControlTypeOK, Modes, Goto, vars, files, locals
  <1>13. ASSUME NEW p \in Procs,
                Unlock(p) \/ Crash(p)
       PROVE  Modes'
    BY <1>13
    DEF Unlock, Crash, Return, BaseInv, TypeOK, ControlTypeOK, Modes, Goto, vars, files, locals
  <1>14. ASSUME NEW p \in Procs,
                PreviewRetention(p) \/ LoseSession(p)
       PROVE  Modes'
    BY <1>14
    DEF PreviewRetention, LoseSession, BaseInv, TypeOK, ControlTypeOK, Modes, Goto, vars, files,
        locals
  <1>15. ASSUME NEW r \in Readers, ResolveActive(r) \/ OpenCollection(r)
       PROVE  Modes'
    BY <1>15
    DEF ResolveActive, OpenCollection, BaseInv, TypeOK, ControlTypeOK, Modes, vars, files, locals
  <1>16. CASE UNCHANGED vars
    BY <1>16
    DEF BaseInv, TypeOK, ControlTypeOK, Modes, vars, files, locals
  <1>17. QED
    BY <1>1, <1>2, <1>3, <1>4, <1>5, <1>6, <1>7, <1>8, <1>9, <1>10, <1>11, <1>12, <1>13, <1>14, <1>15, <1>16
    DEF HostileNext, Next, Command, Step


\* Candidates are versioned collections.
LEMMA StagedNameStep ==
  ASSUME BaseInv, [HostileNext]_vars
  PROVE  StagedName'
  <1>1. ASSUME NEW p \in Procs,
                BeginBuild(p) \/ BeginRetention(p) \/ BeginRollback(p)
       PROVE  StagedName'
    BY <1>1
    DEF BeginBuild, BeginRetention, BeginRollback, Acquire, BaseInv, TypeOK, ControlTypeOK,
        LocalTypeOK, Modes, StagedName, Staging, Goto, vars, files, locals
  <1>2. ASSUME NEW p \in Procs, StageCandidate(p)
       PROVE  StagedName'
    BY <1>2, BoundsAssumption
    DEF StageCandidate, Versions, BaseInv, TypeOK, ControlTypeOK, LocalTypeOK, Modes, StagedName,
        Staging, Goto, vars, files, locals
  <1>3. ASSUME NEW p \in Procs,
                ValidateCandidate(p) \/ ReadInventory(p) \/ RecordCandidate(p)
       PROVE  StagedName'
    BY <1>3
    DEF ValidateCandidate, ReadInventory, RecordCandidate, RecordedName, BaseInv, TypeOK,
        ControlTypeOK, LocalTypeOK, Modes, StagedName, Staging, Goto, vars, files, locals
  <1>4. ASSUME NEW p \in Procs, ReadManifest(p)
       PROVE  StagedName'
    BY <1>4
    DEF ReadManifest, BaseInv, TypeOK, ControlTypeOK, LocalTypeOK, Modes, StagedName, Staging,
        Goto, vars, files, locals
  <1>5. ASSUME NEW p \in Procs, ReplaceManifest(p)
       PROVE  StagedName'
    BY <1>5
    DEF ReplaceManifest, NextManifest, BaseInv, TypeOK, ControlTypeOK, LocalTypeOK, Modes,
        StagedName, Staging, Goto, vars, files, locals
  <1>6. ASSUME NEW p \in Procs,
                BuildFails(p) \/ InterruptPublication(p)
       PROVE  StagedName'
    BY <1>6
    DEF BuildFails, InterruptPublication, DiscardsOnFailure, BaseInv, TypeOK, ControlTypeOK,
        LocalTypeOK, Modes, StagedName, Staging, Goto, vars, files, locals
  <1>7. ASSUME NEW p \in Procs, DiscardCandidate(p)
       PROVE  StagedName'
    BY <1>7
    DEF DiscardCandidate, AfterCleanupFails, BaseInv, TypeOK, ControlTypeOK, LocalTypeOK, Modes,
        StagedName, Staging, Goto, vars, files, locals
  <1>8. ASSUME NEW p \in Procs,
                StageFails(p) \/ RetentionFails(p) \/ RollbackFails(p)
       PROVE  StagedName'
    BY <1>8
    DEF StageFails, RetentionFails, RollbackFails, Raise, BaseInv, TypeOK, ControlTypeOK,
        LocalTypeOK, Modes, StagedName, Staging, Goto, vars, files, locals
  <1>9. ASSUME NEW p \in Procs, VerifyPreview(p)
       PROVE  StagedName'
    BY <1>9
    DEF VerifyPreview, Raise, BaseInv, TypeOK, ControlTypeOK, LocalTypeOK, Modes, StagedName,
        Staging, Goto, vars, files, locals
  <1>10. ASSUME NEW p \in Procs, ClassifyRollback(p)
       PROVE  StagedName'
    BY <1>10
    DEF ClassifyRollback, Raise, BaseInv, TypeOK, ControlTypeOK, LocalTypeOK, Modes, StagedName,
        Staging, Goto, vars, files, locals
  <1>11. ASSUME NEW p \in Procs, SwapCollections(p)
       PROVE  StagedName'
    BY <1>11
    DEF SwapCollections, Raise, BaseInv, TypeOK, ControlTypeOK, LocalTypeOK, Modes, StagedName,
        Staging, Goto, vars, files, locals
  <1>12. ASSUME NEW p \in Procs, PlanRetention(p)
       PROVE  StagedName'
    BY <1>12
    DEF PlanRetention, BaseInv, TypeOK, ControlTypeOK, LocalTypeOK, Modes, StagedName, Staging,
        Goto, vars, files, locals
  <1>13. ASSUME NEW p \in Procs, DeleteCollection(p)
       PROVE  StagedName'
    BY <1>13
    DEF DeleteCollection, BaseInv, TypeOK, ControlTypeOK, LocalTypeOK, Modes, StagedName, Staging,
        Goto, vars, files, locals
  <1>14. ASSUME NEW p \in Procs, PruneInventory(p)
       PROVE  StagedName'
    BY <1>14
    DEF PruneInventory, BaseInv, TypeOK, ControlTypeOK, LocalTypeOK, Modes, StagedName, Staging,
        Goto, vars, files, locals
  <1>15. ASSUME NEW p \in Procs,
                Unlock(p) \/ Crash(p)
       PROVE  StagedName'
    BY <1>15
    DEF Unlock, Crash, Return, BaseInv, TypeOK, ControlTypeOK, LocalTypeOK, Modes, StagedName,
        Staging, Goto, vars, files, locals
  <1>16. ASSUME NEW p \in Procs,
                PreviewRetention(p) \/ LoseSession(p)
       PROVE  StagedName'
    BY <1>16
    DEF PreviewRetention, LoseSession, BaseInv, TypeOK, ControlTypeOK, LocalTypeOK, Modes,
        StagedName, Staging, Goto, vars, files, locals
  <1>17. ASSUME NEW r \in Readers, ResolveActive(r) \/ OpenCollection(r)
       PROVE  StagedName'
    BY <1>17
    DEF ResolveActive, OpenCollection, BaseInv, TypeOK, ControlTypeOK, LocalTypeOK, Modes,
        StagedName, Staging, vars, files, locals
  <1>18. CASE UNCHANGED vars
    BY <1>18
    DEF BaseInv, TypeOK, ControlTypeOK, LocalTypeOK, Modes, StagedName, Staging, vars, files,
        locals
  <1>19. QED
    BY <1>1, <1>2, <1>3, <1>4, <1>5, <1>6, <1>7, <1>8, <1>9, <1>10, <1>11, <1>12, <1>13, <1>14, <1>15, <1>16, <1>17, <1>18
    DEF HostileNext, Next, Command, Step


----------------------------------------------------------------------------
(* The part that rests on the lock.                                        *)

\* Only the holder of the lock is inside a command.
LEMMA HeldStep ==
  ASSUME Inv, [Next]_vars
  PROVE  Held'
  <1> USE NamesAssumption
  <1>1. ASSUME NEW p \in Procs,
                BeginBuild(p) \/ BeginRetention(p) \/ BeginRollback(p)
       PROVE  Held'
    BY <1>1
    DEF BeginBuild, BeginRetention, BeginRollback, Acquire, Inv, BaseInv, TypeOK, ControlTypeOK,
        Held, Goto, vars, files, locals
  <1>2. ASSUME NEW p \in Procs,
                StageCandidate(p) \/ ValidateCandidate(p) \/ ReadInventory(p) \/ RecordCandidate(p) \/
                ReadManifest(p)
       PROVE  Held'
    BY <1>2
    DEF StageCandidate, ValidateCandidate, ReadInventory, RecordCandidate, ReadManifest,
        RecordedName, Inv, BaseInv, TypeOK, ControlTypeOK, Held, Goto, vars, files, locals
  <1>3. ASSUME NEW p \in Procs, ReplaceManifest(p)
       PROVE  Held'
    BY <1>3
    DEF ReplaceManifest, NextManifest, Inv, BaseInv, TypeOK, ControlTypeOK, Held, Goto, vars,
        files, locals
  <1>4. ASSUME NEW p \in Procs,
                BuildFails(p)
       PROVE  Held'
    BY <1>4
    DEF BuildFails, DiscardsOnFailure, Inv, BaseInv, TypeOK, ControlTypeOK,
        Held, Goto, vars, files, locals
  <1>5. ASSUME NEW p \in Procs, DiscardCandidate(p)
       PROVE  Held'
    BY <1>5
    DEF DiscardCandidate, AfterCleanupFails, Inv, BaseInv, TypeOK, ControlTypeOK, Held, Goto,
        vars, files, locals
  <1>6. ASSUME NEW p \in Procs,
                StageFails(p) \/ RetentionFails(p) \/ RollbackFails(p)
       PROVE  Held'
    BY <1>6
    DEF StageFails, RetentionFails, RollbackFails, Raise, Inv, BaseInv, TypeOK, ControlTypeOK,
        Held, Goto, vars, files, locals
  <1>7. ASSUME NEW p \in Procs, VerifyPreview(p)
       PROVE  Held'
    BY <1>7
    DEF VerifyPreview, Raise, Inv, BaseInv, TypeOK, ControlTypeOK, Held, Goto, vars, files, locals
  <1>8. ASSUME NEW p \in Procs, ClassifyRollback(p)
       PROVE  Held'
    BY <1>8
    DEF ClassifyRollback, Raise, Inv, BaseInv, TypeOK, ControlTypeOK, Held, Goto, vars, files,
        locals
  <1>9. ASSUME NEW p \in Procs, SwapCollections(p)
       PROVE  Held'
    BY <1>9
    DEF SwapCollections, Raise, Inv, BaseInv, TypeOK, ControlTypeOK, Held, Goto, vars, files,
        locals
  <1>10. ASSUME NEW p \in Procs, PlanRetention(p)
       PROVE  Held'
    BY <1>10
    DEF PlanRetention, Inv, BaseInv, TypeOK, ControlTypeOK, Held, Goto, vars, files, locals
  <1>11. ASSUME NEW p \in Procs, DeleteCollection(p)
       PROVE  Held'
    BY <1>11
    DEF DeleteCollection, Inv, BaseInv, TypeOK, ControlTypeOK, Held, Goto, vars, files, locals
  <1>12. ASSUME NEW p \in Procs, PruneInventory(p)
       PROVE  Held'
    BY <1>12
    DEF PruneInventory, Inv, BaseInv, TypeOK, ControlTypeOK, Held, Goto, vars, files, locals
  <1>13. ASSUME NEW p \in Procs,
                Unlock(p) \/ Crash(p)
       PROVE  Held'
    BY <1>13
    DEF Unlock, Crash, Return, Inv, BaseInv, TypeOK, ControlTypeOK, Held, Goto, vars, files,
        locals
  <1>14. ASSUME NEW p \in Procs,
                PreviewRetention(p)
       PROVE  Held'
    BY <1>14
    DEF PreviewRetention, Inv, BaseInv, TypeOK, ControlTypeOK, Held, Goto, vars,
        files, locals
  <1>15. ASSUME NEW r \in Readers, ResolveActive(r) \/ OpenCollection(r)
       PROVE  Held'
    BY <1>15
    DEF ResolveActive, OpenCollection, Inv, BaseInv, TypeOK, ControlTypeOK, Held, vars, files,
        locals
  <1>16. CASE UNCHANGED vars
    BY <1>16
    DEF Inv, BaseInv, TypeOK, ControlTypeOK, Held, vars, files, locals
  <1>17. QED
    BY <1>1, <1>2, <1>3, <1>4, <1>5, <1>6, <1>7, <1>8, <1>9, <1>10, <1>11, <1>12, <1>13, <1>14, <1>15, <1>16
    DEF Next, Command, Step


\* While one process works, the others are between commands.
LEMMA OthersIdle ==
  ASSUME Inv, NEW p \in Procs, NEW q \in Procs, pc[p] # "idle", q # p
  PROVE  pc[q] = "idle"
  BY DEF Inv, Held

\* The next candidate's name is not one the manifest has.
LEMMA FreshName ==
  ASSUME Inv
  PROVE  named + 1 # manifest.active /\ named + 1 # manifest.previous
  BY NamesAssumption, BoundsAssumption
  DEF Inv, BaseInv, TypeOK, ControlTypeOK, FileTypeOK, Manifests, Pointers, Collections, Versions,
      Legacy

\* A replacement of the manifest starts from the manifest that is there, and
\* makes a whole collection active that is not active yet.
LEMMA ReplacedManifest ==
  ASSUME Inv, NEW p \in Procs, ReplaceManifest(p)
  PROVE  /\ manifest' = [active |-> cand[p], previous |-> manifest.active,
                         generation |-> manifest.generation + 1]
         /\ cand[p] # manifest.active
         /\ cand[p] \in Collections
         /\ cand[p] <= named
         /\ store[cand[p]] = "complete"
         /\ mode[p] = "rollback" => /\ cand[p] = cmd[p].target
                                    /\ manifest.generation = cmd[p].generation
  <1>1. pc[p] = "replace" /\ seen[p] = manifest /\ store[cand[p]] = "complete"
    BY DEF ReplaceManifest, Inv, Working
  <1>2. cand[p] \in Collections
    BY DEF Inv, BaseInv, TypeOK, LocalTypeOK
  <1>3. CASE mode[p] = "build"
    <2>1. Staging(p)
      BY <1>1, <1>3 DEF Staging
    <2>2. QED
      BY <1>1, <1>2, <1>3, <2>1 DEF Inv, Working, ReplaceManifest, NextManifest
  <1>4. CASE mode[p] = "rollback"
    <2>1. Restoring(p) /\ pc[p] # "swap"
      BY <1>1, <1>4 DEF Restoring
    <2>2. cand[p] = manifest.previous /\ cand[p] = cmd[p].target
          /\ manifest.generation = cmd[p].generation
      BY <2>1 DEF Inv, Working
    <2>3. cand[p] # None
      BY <1>2, NamesAssumption, BoundsAssumption DEF Collections, Versions, Legacy
    <2>4. QED
      BY <1>1, <1>2, <2>2, <2>3 DEF Inv, Pointers, ReplaceManifest, NextManifest
  <1>5. QED
    BY <1>1, <1>3, <1>4 DEF Inv, BaseInv, Modes

\* The candidates depend on the two files alone.
LEMMA CandidatesStable ==
  ASSUME UNCHANGED <<manifest, inventory, recordedAt>>
  PROVE  BoundedCandidates' = BoundedCandidates
  BY DEF BoundedCandidates, Protected, KeepSlots

\* What the manifest names stays whole.
LEMMA PointersStep ==
  ASSUME Inv, [Next]_vars
  PROVE  Pointers'
  <1> USE NamesAssumption, BoundsAssumption
  <1>1. ASSUME NEW p \in Procs, StageCandidate(p)
       PROVE  Pointers'
    <2>1. /\ named' = named + 1 /\ UNCHANGED manifest
          /\ store' = [store EXCEPT ![named + 1] = "partial"]
      BY <1>1 DEF StageCandidate, files
    <2>2. /\ named \in Nat /\ store \in [Collections -> StoreStates]
          /\ manifest.active \in Nat /\ manifest.active \in Collections
          /\ manifest.previous \in Nat \cup {None} /\ Legacy \in Collections /\ Legacy = 0
          /\ Versions \subseteq Nat /\ Versions \subseteq Collections
      BY DEF Inv, BaseInv, TypeOK, ControlTypeOK, FileTypeOK, Manifests, Collections, Versions, Legacy
    <2>3. \A c \in Collections : c <= named => store'[c] = store[c]
      <3>1. \A c \in Collections : c \in Nat /\ (c <= named => c # named + 1)
        BY <2>2 DEF Collections
      <3>2. QED
        BY <2>1, <2>2, <3>1
    <2>4. /\ manifest.active <= named /\ Legacy <= named
          /\ manifest.previous # None => manifest.previous <= named
      BY <2>2 DEF Inv, Pointers
    <2>5. manifest.active <= named' /\ (manifest.previous # None => manifest.previous <= named')
      BY <2>1, <2>2, <2>4
    <2>6. manifest.previous \in Versions => manifest.previous # None
      BY DEF Versions
    <2>7. QED
      BY <2>1, <2>2, <2>3, <2>4, <2>5, <2>6 DEF Inv, Pointers
  <1>2. ASSUME NEW p \in Procs, ValidateCandidate(p)
       PROVE  Pointers'
    BY <1>2
    DEF ValidateCandidate, StagedName, Staging, Working, Inv, BaseInv, TypeOK, ControlTypeOK,
        FileTypeOK, LocalTypeOK, Manifests, Collections, Versions, Legacy, StoreStates, Pointers,
        Goto, vars, files, locals
  <1>3. ASSUME NEW p \in Procs, ReplaceManifest(p)
       PROVE  Pointers'
    <2>1. store' = store /\ named' = named
      BY <1>3 DEF ReplaceManifest
    <2>2. /\ manifest'.active = cand[p]
          /\ manifest'.previous = manifest.active
          /\ manifest'.generation = manifest.generation + 1
      BY <1>3, ReplacedManifest
    <2>3. /\ cand[p] # manifest.active
          /\ cand[p] <= named
          /\ store[cand[p]] = "complete"
      BY <1>3, ReplacedManifest
    <2>4. /\ manifest.generation \in Nat
          /\ manifest.active \in Collections
          /\ manifest.active <= named
      BY DEF Inv, BaseInv, TypeOK, FileTypeOK, Manifests, Pointers
    <2>5. manifest.active \in Versions => store[manifest.active] = "complete"
      BY <2>4 DEF Inv, Pointers, Versions, Legacy
    <2>6. store[Legacy] # "partial"
      BY DEF Inv, Pointers
    <2>7. QED
      BY <2>1, <2>2, <2>3, <2>4, <2>5, <2>6 DEF Pointers
  <1>4. ASSUME NEW p \in Procs, DiscardCandidate(p)
       PROVE  Pointers'
    BY <1>4
    DEF DiscardCandidate, AfterCleanupFails, StagedName, Staging, Working, Inv, BaseInv, TypeOK,
        ControlTypeOK, FileTypeOK, LocalTypeOK, Manifests, Collections, Versions, Legacy,
        StoreStates, Pointers, Goto, vars, files, locals
  <1>5. ASSUME NEW p \in Procs, DeleteCollection(p)
       PROVE  Pointers'
    BY <1>5
    DEF DeleteCollection, Oldest, Working, Inv, BaseInv, TypeOK, ControlTypeOK, FileTypeOK,
        LocalTypeOK, Manifests, Collections, Versions, Legacy, StoreStates, Pointers, Goto, vars,
        files, locals
  <1>6. ASSUME NEW p \in Procs,
                RecordCandidate(p) \/ PruneInventory(p)
       PROVE  Pointers'
    BY <1>6
    DEF RecordCandidate, PruneInventory, RecordedName, Inv, BaseInv, TypeOK, ControlTypeOK,
        FileTypeOK, LocalTypeOK, Manifests, Collections, Versions, Legacy, StoreStates, Pointers,
        Goto, vars, files, locals
  <1>7. ASSUME NEW p \in Procs,
                BeginBuild(p) \/ PreviewRetention(p) \/ BeginRetention(p) \/ BeginRollback(p) \/
                ReadInventory(p) \/ ReadManifest(p)
       PROVE  Pointers'
    BY <1>7
    DEF BeginBuild, PreviewRetention, BeginRetention, BeginRollback, ReadInventory, ReadManifest,
        Acquire, Inv, BaseInv, TypeOK, ControlTypeOK, FileTypeOK, LocalTypeOK, Manifests,
        Collections, Versions, Legacy, StoreStates, Pointers, Goto, vars, files, locals
  <1>8. ASSUME NEW p \in Procs,
                BuildFails(p) \/ StageFails(p) \/ RetentionFails(p) \/
                RollbackFails(p)
       PROVE  Pointers'
    BY <1>8
    DEF BuildFails, StageFails, RetentionFails, RollbackFails, DiscardsOnFailure, Raise, Inv, BaseInv, TypeOK, ControlTypeOK, FileTypeOK, LocalTypeOK,
        Manifests, Collections, Versions, Legacy, StoreStates, Pointers, Goto, vars, files, locals
  <1>9. ASSUME NEW p \in Procs,
                VerifyPreview(p) \/ ClassifyRollback(p) \/ SwapCollections(p) \/ PlanRetention(p) \/
                Unlock(p) \/ Crash(p)
       PROVE  Pointers'
    BY <1>9
    DEF VerifyPreview, ClassifyRollback, SwapCollections, PlanRetention, Unlock, Crash, Raise,
        Return, Inv, BaseInv, TypeOK, ControlTypeOK, FileTypeOK, LocalTypeOK, Manifests,
        Collections, Versions, Legacy, StoreStates, Pointers, Goto, vars, files, locals
  <1>10. ASSUME NEW r \in Readers, ResolveActive(r) \/ OpenCollection(r)
       PROVE  Pointers'
    BY SMTT(60), <1>10
    DEF ResolveActive, OpenCollection, Inv, BaseInv, TypeOK, ControlTypeOK, FileTypeOK,
        LocalTypeOK, Manifests, Collections, Versions, Legacy, StoreStates, Pointers, vars, files,
        locals
  <1>11. CASE UNCHANGED vars
    BY <1>11
    DEF Inv, BaseInv, TypeOK, ControlTypeOK, FileTypeOK, LocalTypeOK, Manifests, Collections,
        Versions, Legacy, StoreStates, Pointers, vars, files, locals
  <1>12. QED
    BY <1>1, <1>2, <1>3, <1>4, <1>5, <1>6, <1>7, <1>8, <1>9, <1>10, <1>11
    DEF Next, Command, Step


\* What the holder of the lock relies on stays so.
LEMMA WorkingStep ==
  ASSUME Inv, [Next]_vars
  PROVE  Working'
  <1> USE NamesAssumption, BoundsAssumption
  <1>1. ASSUME NEW p \in Procs,
                BeginBuild(p) \/ BeginRetention(p)
       PROVE  Working'
    BY <1>1
    DEF BeginBuild, BeginRetention, Acquire, Inv, BaseInv, TypeOK, ControlTypeOK, LocalTypeOK,
        FileTypeOK, Held, Modes, Staging, Restoring, Working, Goto, vars, files, locals
  <1>2. ASSUME NEW p \in Procs, BeginRollback(p)
       PROVE  Working'
    BY <1>2
    DEF BeginRollback, Acquire, Inv, BaseInv, TypeOK, ControlTypeOK, LocalTypeOK, FileTypeOK,
        Held, Modes, Staging, Restoring, Working, Goto, vars, files, locals
  <1>3. ASSUME NEW p \in Procs, StageCandidate(p)
       PROVE  Working'
    <2>1. \A q \in Procs : q # p => pc'[q] = "idle"
      BY <1>3, OthersIdle DEF StageCandidate, Goto, Inv, BaseInv, TypeOK, ControlTypeOK
    <2>2. /\ pc'[p] = "fill"
          /\ cand'[p] = named + 1
          /\ named' = named + 1
          /\ manifest' = manifest
      BY <1>3
      DEF StageCandidate, Goto, files, Inv, BaseInv, TypeOK, ControlTypeOK, LocalTypeOK
    <2>3. named + 1 # manifest.active /\ named + 1 # manifest.previous
      BY FreshName
    <2>4. named \in Nat
      BY DEF Inv, BaseInv, TypeOK, ControlTypeOK
    <2>5. QED
      BY <2>1, <2>2, <2>3, <2>4 DEF Working, Staging, Restoring
  <1>4. ASSUME NEW p \in Procs, ValidateCandidate(p)
       PROVE  Working'
    BY <1>4
    DEF ValidateCandidate, Pointers, Inv, BaseInv, TypeOK, ControlTypeOK, LocalTypeOK, FileTypeOK,
        Held, Modes, Staging, Restoring, Working, Goto, vars, files, locals
  <1>5. ASSUME NEW p \in Procs, ReadInventory(p)
       PROVE  Working'
    BY <1>5
    DEF ReadInventory, Inv, BaseInv, TypeOK, ControlTypeOK, LocalTypeOK, FileTypeOK, Held, Modes,
        Staging, Restoring, Working, Goto, vars, files, locals
  <1>6. ASSUME NEW p \in Procs, RecordCandidate(p)
       PROVE  Working'
    BY <1>6
    DEF RecordCandidate, RecordedName, Inv, BaseInv, TypeOK, ControlTypeOK, LocalTypeOK,
        FileTypeOK, Held, Modes, Staging, Restoring, Working, Goto, vars, files, locals
  <1>7. ASSUME NEW p \in Procs, ReadManifest(p)
       PROVE  Working'
    BY <1>7
    DEF ReadManifest, Inv, BaseInv, TypeOK, ControlTypeOK, LocalTypeOK, FileTypeOK, Held, Modes,
        Staging, Restoring, Working, Goto, vars, files, locals
  <1>8. ASSUME NEW p \in Procs, ReplaceManifest(p)
       PROVE  Working'
    BY <1>8, OthersIdle
    DEF ReplaceManifest, Inv, BaseInv, TypeOK, ControlTypeOK, Staging, Restoring, Working, Goto,
        locals
  <1>9. ASSUME NEW p \in Procs,
                BuildFails(p)
       PROVE  Working'
    BY <1>9
    DEF BuildFails, DiscardsOnFailure, Inv, BaseInv, TypeOK, ControlTypeOK,
        LocalTypeOK, FileTypeOK, Held, Modes, Staging, Restoring, Working, Goto, vars, files,
        locals
  <1>10. ASSUME NEW p \in Procs, DiscardCandidate(p)
       PROVE  Working'
    BY <1>10
    DEF DiscardCandidate, AfterCleanupFails, Inv, BaseInv, TypeOK, ControlTypeOK, LocalTypeOK,
        FileTypeOK, Held, Modes, Staging, Restoring, Working, Goto, vars, files, locals
  <1>11. ASSUME NEW p \in Procs,
                StageFails(p) \/ RetentionFails(p) \/ RollbackFails(p)
       PROVE  Working'
    BY <1>11
    DEF StageFails, RetentionFails, RollbackFails, Raise, Inv, BaseInv, TypeOK, ControlTypeOK,
        LocalTypeOK, FileTypeOK, Held, Modes, Staging, Restoring, Working, Goto, vars, files,
        locals
  <1>12. ASSUME NEW p \in Procs, VerifyPreview(p)
       PROVE  Working'
    BY <1>12
    DEF VerifyPreview, Raise, Inv, BaseInv, TypeOK, ControlTypeOK, LocalTypeOK, FileTypeOK, Held,
        Modes, Staging, Restoring, Working, Goto, vars, files, locals
  <1>13. ASSUME NEW p \in Procs, ClassifyRollback(p)
       PROVE  Working'
    BY <1>13
    DEF ClassifyRollback, Raise, Restorable, ExactRetry, FirstApplication, Pointers, Collections,
        Inv, BaseInv, TypeOK, ControlTypeOK, LocalTypeOK, FileTypeOK, Held, Modes, Staging,
        Restoring, Working, Goto, vars, files, locals
  <1>14. ASSUME NEW p \in Procs, SwapCollections(p)
       PROVE  Working'
    BY <1>14
    DEF SwapCollections, Raise, Inv, BaseInv, TypeOK, ControlTypeOK, LocalTypeOK, FileTypeOK,
        Held, Modes, Staging, Restoring, Working, Goto, vars, files, locals
  <1>15. ASSUME NEW p \in Procs, PlanRetention(p)
       PROVE  Working'
    BY <1>15, CandidatesAreUnprotected
    DEF PlanRetention, Inv, BaseInv, TypeOK, ControlTypeOK, LocalTypeOK, FileTypeOK, Held, Modes,
        Staging, Restoring, Working, Goto, vars, files, locals
  <1>16. ASSUME NEW p \in Procs, DeleteCollection(p)
       PROVE  Working'
    BY <1>16
    DEF DeleteCollection, Inv, BaseInv, TypeOK, ControlTypeOK, LocalTypeOK, FileTypeOK, Held,
        Modes, Staging, Restoring, Working, Goto, vars, files, locals
  <1>17. ASSUME NEW p \in Procs, PruneInventory(p)
       PROVE  Working'
    BY <1>17
    DEF PruneInventory, Inv, BaseInv, TypeOK, ControlTypeOK, LocalTypeOK, FileTypeOK, Held, Modes,
        Staging, Restoring, Working, Goto, vars, files, locals
  <1>18. ASSUME NEW p \in Procs,
                Unlock(p) \/ Crash(p)
       PROVE  Working'
    BY <1>18
    DEF Unlock, Crash, Return, Inv, BaseInv, TypeOK, ControlTypeOK, LocalTypeOK, FileTypeOK, Held,
        Modes, Staging, Restoring, Working, Goto, vars, files, locals
  <1>19. ASSUME NEW p \in Procs,
                PreviewRetention(p)
       PROVE  Working'
    BY <1>19
    DEF PreviewRetention, Inv, BaseInv, TypeOK, ControlTypeOK, LocalTypeOK,
        FileTypeOK, Held, Modes, Staging, Restoring, Working, Goto, vars, files, locals
  <1>20. ASSUME NEW r \in Readers, ResolveActive(r) \/ OpenCollection(r)
       PROVE  Working'
    BY <1>20
    DEF ResolveActive, OpenCollection, Inv, BaseInv, TypeOK, ControlTypeOK, LocalTypeOK,
        FileTypeOK, Held, Modes, Staging, Restoring, Working, vars, files, locals
  <1>21. CASE UNCHANGED vars
    BY <1>21
    DEF Inv, BaseInv, TypeOK, ControlTypeOK, LocalTypeOK, FileTypeOK, Held, Modes, Staging,
        Restoring, Working, vars, files, locals
  <1>22. QED
    BY <1>1, <1>2, <1>3, <1>4, <1>5, <1>6, <1>7, <1>8, <1>9, <1>10, <1>11, <1>12, <1>13, <1>14, <1>15, <1>16, <1>17, <1>18, <1>19, <1>20, <1>21
    DEF Next, Command, Step


\* A retention that is under way was previewed.
LEMMA PreviewedStep ==
  ASSUME Inv, [Next]_vars
  PROVE  Previewed'
  <1> USE NamesAssumption, BoundsAssumption
  <1>1. ASSUME NEW p \in Procs,
                BeginBuild(p) \/ BeginRetention(p) \/ BeginRollback(p)
       PROVE  Previewed'
    BY SMTT(60), <1>1
    DEF BeginBuild, BeginRetention, BeginRollback, Acquire, Inv, BaseInv, TypeOK, ControlTypeOK,
        LocalTypeOK, Held, Modes, Previewed, Goto, vars, files, locals
  <1>2. ASSUME NEW p \in Procs,
                StageCandidate(p) \/ ValidateCandidate(p) \/ ReadInventory(p)
       PROVE  Previewed'
    BY <1>2
    DEF StageCandidate, ValidateCandidate, ReadInventory, Inv, BaseInv, TypeOK, ControlTypeOK,
        LocalTypeOK, Held, Modes, Previewed, Goto, vars, files, locals
  <1>3. ASSUME NEW p \in Procs, RecordCandidate(p)
       PROVE  Previewed'
    BY <1>3
    DEF RecordCandidate, RecordedName, Inv, BaseInv, TypeOK, ControlTypeOK, LocalTypeOK, Held,
        Modes, Previewed, Goto, vars, files, locals
  <1>4. ASSUME NEW p \in Procs, ReadManifest(p)
       PROVE  Previewed'
    BY <1>4
    DEF ReadManifest, Inv, BaseInv, TypeOK, ControlTypeOK, LocalTypeOK, Held, Modes, Previewed,
        Goto, vars, files, locals
  <1>5. ASSUME NEW p \in Procs, ReplaceManifest(p)
       PROVE  Previewed'
    BY <1>5
    DEF ReplaceManifest, NextManifest, Inv, BaseInv, TypeOK, ControlTypeOK, LocalTypeOK, Held,
        Modes, Previewed, Goto, vars, files, locals
  <1>6. ASSUME NEW p \in Procs,
                BuildFails(p)
       PROVE  Previewed'
    BY <1>6
    DEF BuildFails, DiscardsOnFailure, Inv, BaseInv, TypeOK, ControlTypeOK,
        LocalTypeOK, Held, Modes, Previewed, Goto, vars, files, locals
  <1>7. ASSUME NEW p \in Procs, DiscardCandidate(p)
       PROVE  Previewed'
    BY <1>7
    DEF DiscardCandidate, AfterCleanupFails, Inv, BaseInv, TypeOK, ControlTypeOK, LocalTypeOK,
        Held, Modes, Previewed, Goto, vars, files, locals
  <1>8. ASSUME NEW p \in Procs,
                StageFails(p) \/ RetentionFails(p) \/ RollbackFails(p)
       PROVE  Previewed'
    BY <1>8
    DEF StageFails, RetentionFails, RollbackFails, Raise, Inv, BaseInv, TypeOK, ControlTypeOK,
        LocalTypeOK, Held, Modes, Previewed, Goto, vars, files, locals
  <1>9. ASSUME NEW p \in Procs, VerifyPreview(p)
       PROVE  Previewed'
    BY <1>9, CandidatesStable
    DEF VerifyPreview, Raise, PreviewHolds, Inv, BaseInv, TypeOK, ControlTypeOK, LocalTypeOK,
        Held, Modes, Previewed, Goto, vars, files, locals
  <1>10. ASSUME NEW p \in Procs, ClassifyRollback(p)
       PROVE  Previewed'
    BY <1>10
    DEF ClassifyRollback, Raise, Inv, BaseInv, TypeOK, ControlTypeOK, LocalTypeOK, Held, Modes,
        Previewed, Goto, vars, files, locals
  <1>11. ASSUME NEW p \in Procs, SwapCollections(p)
       PROVE  Previewed'
    <2>1. /\ UNCHANGED <<manifest, inventory, recordedAt, plan, todo, mode>>
          /\ pc' = [pc EXCEPT ![p] = pc'[p]] /\ pc'[p] \in {"publish", "unlock"}
      BY <1>11 DEF SwapCollections, Raise, Goto, files, Inv, BaseInv, TypeOK, ControlTypeOK
    <2>2. \A q \in Procs : pc'[q] \in {"retain", "delete", "prune"} => pc'[q] = pc[q]
      BY <2>1 DEF Inv, BaseInv, TypeOK, ControlTypeOK
    <2>3. BoundedCandidates' = BoundedCandidates
      BY <2>1, CandidatesStable
    <2>4. QED
      BY <2>1, <2>2, <2>3 DEF Inv, Previewed
  <1>12. ASSUME NEW p \in Procs, PlanRetention(p)
       PROVE  Previewed'
    BY <1>12
    DEF PlanRetention, Inv, BaseInv, TypeOK, ControlTypeOK, LocalTypeOK, Held, Modes, Previewed,
        Goto, vars, files, locals
  <1>13. ASSUME NEW p \in Procs, DeleteCollection(p)
       PROVE  Previewed'
    BY <1>13
    DEF DeleteCollection, Inv, BaseInv, TypeOK, ControlTypeOK, LocalTypeOK, Held, Modes,
        Previewed, Goto, vars, files, locals
  <1>14. ASSUME NEW p \in Procs, PruneInventory(p)
       PROVE  Previewed'
    BY <1>14
    DEF PruneInventory, Inv, BaseInv, TypeOK, ControlTypeOK, LocalTypeOK, Held, Modes, Previewed,
        Goto, vars, files, locals
  <1>15. ASSUME NEW p \in Procs,
                Unlock(p) \/ Crash(p)
       PROVE  Previewed'
    BY SMTT(60), <1>15
    DEF Unlock, Crash, Return, Inv, BaseInv, TypeOK, ControlTypeOK, LocalTypeOK, Held, Modes,
        Previewed, Goto, vars, files, locals
  <1>16. ASSUME NEW p \in Procs,
                PreviewRetention(p)
       PROVE  Previewed'
    BY <1>16
    DEF PreviewRetention, Inv, BaseInv, TypeOK, ControlTypeOK, LocalTypeOK, Held,
        Modes, Previewed, Goto, vars, files, locals
  <1>17. ASSUME NEW r \in Readers, ResolveActive(r) \/ OpenCollection(r)
       PROVE  Previewed'
    BY <1>17, CandidatesStable
    DEF ResolveActive, OpenCollection, Inv, BaseInv, TypeOK, ControlTypeOK, LocalTypeOK, Held,
        Modes, Previewed, vars, files, locals
  <1>18. CASE UNCHANGED vars
    BY <1>18, CandidatesStable
    DEF Inv, BaseInv, TypeOK, ControlTypeOK, LocalTypeOK, Held, Modes, Previewed, vars, files,
        locals
  <1>19. QED
    BY <1>1, <1>2, <1>3, <1>4, <1>5, <1>6, <1>7, <1>8, <1>9, <1>10, <1>11, <1>12, <1>13, <1>14, <1>15, <1>16, <1>17, <1>18
    DEF Next, Command, Step


----------------------------------------------------------------------------
(* The theorems.                                                           *)

\* The initial states satisfy both invariants.
LEMMA InitInv == Init => BaseInv /\ Inv
  <1> SUFFICES ASSUME Init PROVE BaseInv /\ Inv
    OBVIOUS
  <1>1. FileTypeOK
    BY NothingType DEF Init, FileTypeOK, StoreStates
  <1>2. ControlTypeOK
    BY BoundsAssumption DEF Init, ControlTypeOK, Places
  <1>3. LocalTypeOK
    BY NothingType DEF Init, LocalTypeOK
  <1>4. Modes /\ StagedName
    BY DEF Init, Modes, StagedName, Staging
  <1>5. Held
    BY NamesAssumption DEF Init, Held
  <1>6. Pointers
    BY NamesAssumption, BoundsAssumption
    DEF Init, Pointers, NoManifest, Versions, Collections, Legacy
  <1>7. Working /\ Previewed
    BY DEF Init, Working, Previewed, Staging, Restoring
  <1>8. QED
    BY <1>1, <1>2, <1>3, <1>4, <1>5, <1>6, <1>7 DEF Inv, BaseInv, TypeOK

\* Types and names are kept whatever happens to the lock.
LEMMA BaseStep ==
  ASSUME BaseInv, [HostileNext]_vars
  PROVE  BaseInv'
  BY FileTypeStep, ControlTypeStep, LocalTypeStep, ModesStep, StagedNameStep DEF BaseInv, TypeOK

\* The whole invariant is kept while sessions and commands run undisturbed.
LEMMA InvStep ==
  ASSUME Inv, [Next]_vars
  PROVE  Inv'
  <1>1. [HostileNext]_vars
    BY DEF HostileNext
  <1>2. QED
    BY <1>1, BaseStep, HeldStep, PointersStep, WorkingStep, PreviewedStep DEF Inv

\* Undisturbed behaviours are behaviours of the hostile specification.
LEMMA SpecIsHostile == Spec => HostileSpec
  <1>1. [Next]_vars => [HostileNext]_vars
    BY DEF HostileNext
  <1>2. QED
    BY <1>1, PTL DEF Spec, HostileSpec

\* The base invariant holds in every behaviour.
LEMMA BaseInvariance == HostileSpec => []BaseInv
  <1>1. Init => BaseInv
    BY InitInv
  <1>2. BaseInv /\ [HostileNext]_vars => BaseInv'
    BY BaseStep
  <1>3. QED
    BY <1>1, <1>2, PTL DEF HostileSpec

\* The invariant holds in every undisturbed behaviour.
LEMMA Invariance == Spec => []Inv
  <1>1. Init => Inv
    BY InitInv
  <1>2. Inv /\ [Next]_vars => Inv'
    BY InvStep
  <1>3. QED
    BY <1>1, <1>2, PTL DEF Spec

\* Type correctness of the files, the lock and the commands, also when
\* sessions are lost and commands are interrupted.
THEOREM TypeCorrectness == HostileSpec => []TypeOK
  <1>1. BaseInv => TypeOK
    BY DEF BaseInv
  <1>2. QED
    BY <1>1, BaseInvariance, PTL

\* The collection the manifest serves is there and whole, through any number
\* of builds, failures, crashes, retentions and rollbacks under the lock.
THEOREM ServedIsWhole == Spec => []ActiveIsReadable
  <1>1. Inv => ActiveIsReadable
    BY DEF Inv, Pointers, ActiveIsReadable
  <1>2. QED
    BY <1>1, Invariance, PTL

\* A rollback switches from the generation to the collection its key names.
THEOREM RollbackIsExact == Spec => RollbackMatchesCommand
  <1> DEFINE Exact == \A p \in Procs :
                 mode[p] = "rollback" /\ pc[p] = "replace" /\ manifest' # manifest =>
                     /\ manifest.generation = cmd[p].generation
                     /\ manifest'.active = cmd[p].target
  <1>1. Inv /\ [Next]_vars => Exact
    <2> SUFFICES ASSUME Inv, [Next]_vars, NEW p \in Procs, mode[p] = "rollback", pc[p] = "replace",
                        manifest' # manifest
                 PROVE  manifest.generation = cmd[p].generation /\ manifest'.active = cmd[p].target
      OBVIOUS
    <2>1. PICK q \in Procs : ReplaceManifest(q)
      BY DEF Next, Command, Step, BeginBuild, PreviewRetention, BeginRetention, BeginRollback,
             StageCandidate, ValidateCandidate, ReadInventory, RecordCandidate, ReadManifest,
             BuildFails, DiscardCandidate, StageFails, PlanRetention,
             DeleteCollection, PruneInventory, RetentionFails, VerifyPreview, ClassifyRollback,
             SwapCollections, RollbackFails, Unlock, Crash, Return, ResolveActive,
             OpenCollection, files, vars
    <2>2. pc[q] # "idle"
      BY <2>1 DEF ReplaceManifest
    <2>3. q = p
      BY <2>2, OthersIdle
    <2>4. QED
      BY <2>1, <2>3, ReplacedManifest
  <1>2. Inv /\ [Next]_vars => [Exact]_vars
    BY <1>1
  <1>3. QED
    BY <1>2, Invariance, PTL DEF Spec, RollbackMatchesCommand

\* An operator's retention deletes what its preview showed, nothing else.
THEOREM RetentionIsExact == Spec => RetentionMatchesPreview
  <1> DEFINE Exact == \A p \in Procs :
                 mode[p] = "retention" /\ pc[p] = "delete" /\ pc'[p] = "prune" =>
                     /\ \A c \in Collections : store'[c] # store[c] => c \in plan[p].candidates
                     /\ manifest.generation = plan[p].generation
  <1>1. Inv /\ [Next]_vars => Exact
    <2> SUFFICES ASSUME Inv, [Next]_vars, NEW p \in Procs, mode[p] = "retention",
                        pc[p] = "delete", pc'[p] = "prune"
                 PROVE  /\ \A c \in Collections : store'[c] # store[c] => c \in plan[p].candidates
                        /\ manifest.generation = plan[p].generation
      OBVIOUS
    <2>1. DeleteCollection(p)
      <3>1. \A q \in Procs : pc[q] # "idle" => q = p
        BY OthersIdle
      <3>2. lock # None
        BY NamesAssumption DEF Inv, Held
      <3>3. ASSUME NEW q \in Procs, Command(q) PROVE FALSE
        BY <3>2, <3>3 DEF Command, BeginBuild, PreviewRetention, BeginRetention, BeginRollback, Acquire
      <3>4. ASSUME NEW q \in Procs, Step(q) PROVE DeleteCollection(p)
        <4>1. pc[q] # "idle"
          BY <3>4
          DEF Step, StageCandidate, ValidateCandidate, ReadInventory, RecordCandidate, ReadManifest,
              ReplaceManifest, BuildFails, DiscardCandidate, StageFails,
              PlanRetention, DeleteCollection, PruneInventory, RetentionFails, VerifyPreview,
              ClassifyRollback, SwapCollections, RollbackFails, Unlock
        <4>2. q = p
          BY <3>1, <4>1
        <4>3. ~RetentionFails(p)
          BY DEF RetentionFails, Raise, Goto, Inv, BaseInv, TypeOK, ControlTypeOK
        <4>4. QED
          BY <3>4, <4>2, <4>3
          DEF Step, StageCandidate, ValidateCandidate, ReadInventory, RecordCandidate, ReadManifest,
              ReplaceManifest, BuildFails, DiscardCandidate, StageFails,
              PlanRetention, PruneInventory, VerifyPreview, ClassifyRollback, SwapCollections,
              RollbackFails, Unlock
      <3>5. ASSUME NEW q \in Procs, Crash(q) PROVE FALSE
        BY <3>1, <3>5 DEF Crash, Return, Goto, Inv, BaseInv, TypeOK, ControlTypeOK
      <3>6. QED
        BY <3>3, <3>4, <3>5 DEF Next, ResolveActive, OpenCollection, vars
    <2>2. PICK c \in Oldest(todo[p]) : store' = [store EXCEPT ![c] = "absent"]
      BY <2>1 DEF DeleteCollection
    <2>3. c \in plan[p].candidates /\ manifest.generation = plan[p].generation
      BY <2>2 DEF Oldest, Inv, Previewed
    <2>4. QED
      BY <2>2, <2>3 DEF Inv, BaseInv, TypeOK, FileTypeOK
  <1>2. Inv /\ [Next]_vars => [Exact]_vars
    BY <1>1
  <1>3. QED
    BY <1>2, Invariance, PTL DEF Spec, RetentionMatchesPreview

\* The unversioned collection is never deleted, also when the lock is lost or
\* a build is interrupted: only versioned names are recorded and discarded.
THEOREM LegacySurvives == HostileSpec => LegacyIsKept
  <1> DEFINE Kept == store[Legacy] = "complete" => store'[Legacy] = "complete"
  <1>1. BaseInv /\ [HostileNext]_vars => Kept
    <2> SUFFICES ASSUME BaseInv, [HostileNext]_vars, store[Legacy] = "complete"
                 PROVE  store'[Legacy] = "complete"
      OBVIOUS
    <2> USE BoundsAssumption DEF BaseInv, TypeOK, FileTypeOK, ControlTypeOK, LocalTypeOK
    <2>1. ASSUME NEW p \in Procs, StageCandidate(p) PROVE store'[Legacy] = "complete"
      BY <2>1 DEF StageCandidate, Legacy, Collections
    <2>2. ASSUME NEW p \in Procs, ValidateCandidate(p) PROVE store'[Legacy] = "complete"
      BY <2>2 DEF ValidateCandidate
    <2>3. ASSUME NEW p \in Procs, DiscardCandidate(p) PROVE store'[Legacy] = "complete"
      <3>1. cand[p] \in Versions
        BY <2>3 DEF DiscardCandidate, StagedName, Staging
      <3>2. cand[p] # Legacy
        BY <3>1 DEF Versions, Legacy
      <3>3. QED
        BY <2>3, <3>2, NothingType DEF DiscardCandidate
    <2>4. ASSUME NEW p \in Procs, DeleteCollection(p) PROVE store'[Legacy] = "complete"
      BY <2>4 DEF DeleteCollection, Oldest, Versions, Legacy
    <2>5. ASSUME NEW r \in Readers, OpenCollection(r) PROVE store'[Legacy] = "complete"
      BY <2>5 DEF OpenCollection
    <2>6. QED
      BY <2>1, <2>2, <2>3, <2>4, <2>5
      DEF HostileNext, Next, Command, Step, BeginBuild, PreviewRetention, BeginRetention, BeginRollback,
          ReadInventory, RecordCandidate, ReadManifest, ReplaceManifest, BuildFails,
          InterruptPublication, StageFails, PlanRetention, PruneInventory, RetentionFails,
          VerifyPreview, ClassifyRollback, SwapCollections, RollbackFails, Unlock, LoseSession,
          Crash, Return, ResolveActive, vars
  <1>2. BaseInv /\ [HostileNext]_vars => [Kept]_vars
    BY <1>1
  <1>3. QED
    BY <1>2, BaseInvariance, PTL DEF HostileSpec, LegacyIsKept

----------------------------------------------------------------------------
(* The refinement.                                                         *)

\* The collections that can be read.
Whole == {c \in Collections : store[c] = "complete"}

\* A step that leaves the manifest and the collections alone is no step of
\* the register.
LEMMA RegisterStutters ==
  ASSUME UNCHANGED <<manifest, store>>
  PROVE  UNCHANGED Register!vars
  BY DEF Register!vars

\* What the register's step is when one collection becomes whole, or stops
\* being so, while the manifest names others.
LEMMA RegisterChange ==
  ASSUME BaseInv, NEW c \in Collections, NEW new \in StoreStates,
         c # manifest.active, c # manifest.previous,
         store' = [store EXCEPT ![c] = new], manifest' = manifest
  PROVE  Register!Next
  <1>1. Whole' = IF new = "complete" THEN Whole \cup {c} ELSE Whole \ {c}
    BY DEF Whole, BaseInv, TypeOK, FileTypeOK
  <1>2. CASE new = "complete"
    <2>1. Register!Stage(c)
      BY <1>1, <1>2 DEF Register!Stage, Whole
    <2>2. QED
      BY <2>1 DEF Register!Next
  <1>3. CASE new # "complete"
    <2>1. Register!Drop(c)
      BY <1>1, <1>3 DEF Register!Drop, Whole
    <2>2. QED
      BY <2>1 DEF Register!Next
  <1>4. QED
    BY <1>2, <1>3

\* Every step of the index is a step of the register or leaves it as it is.
LEMMA RegisterStep ==
  ASSUME Inv, [Next]_vars
  PROVE  [Register!Next]_Register!vars
  <1> USE DEF Inv, BaseInv, TypeOK
  <1>1. ASSUME NEW p \in Procs, StageCandidate(p)
        PROVE  Register!Next
    <2>1. named + 1 \in Collections
      BY <1>1, BoundsAssumption DEF StageCandidate, ControlTypeOK, Collections, Versions
    <2>2. named + 1 # manifest.active /\ named + 1 # manifest.previous
      BY FreshName
    <2>3. QED
      BY <1>1, <2>1, <2>2, RegisterChange DEF StageCandidate, StoreStates, files
  <1>2. ASSUME NEW p \in Procs, ValidateCandidate(p)
        PROVE  Register!Next
    <2>1. cand[p] \in Collections /\ cand[p] # manifest.active /\ cand[p] # manifest.previous
      BY <1>2 DEF ValidateCandidate, Working, Staging, LocalTypeOK
    <2>2. QED
      BY <1>2, <2>1, RegisterChange DEF ValidateCandidate, StoreStates, files
  <1>3. ASSUME NEW p \in Procs, DiscardCandidate(p)
        PROVE  [Register!Next]_Register!vars
    <2>1. cand[p] \in Collections /\ cand[p] # manifest.active /\ cand[p] # manifest.previous
      BY <1>3 DEF DiscardCandidate, Working, Staging, LocalTypeOK
    <2>2. CASE store' = [store EXCEPT ![cand[p]] = "absent"]
      BY <1>3, <2>1, <2>2, RegisterChange DEF DiscardCandidate, StoreStates, files
    <2>3. CASE UNCHANGED store
      BY <1>3, <2>3, RegisterStutters DEF DiscardCandidate, files
    <2>4. QED
      BY <1>3, <2>2, <2>3 DEF DiscardCandidate
  <1>4. ASSUME NEW p \in Procs, DeleteCollection(p)
        PROVE  Register!Next
    <2>1. PICK c \in Oldest(todo[p]) : store' = [store EXCEPT ![c] = "absent"]
      BY <1>4 DEF DeleteCollection
    <2>2. c \in Collections /\ c # manifest.active /\ c # manifest.previous
      BY <1>4, <2>1 DEF DeleteCollection, Oldest, Working, LocalTypeOK, Collections
    <2>3. QED
      BY <1>4, <2>1, <2>2, RegisterChange DEF DeleteCollection, StoreStates, files
  <1>5. ASSUME NEW p \in Procs, ReplaceManifest(p)
        PROVE  Register!Next
    <2>1. Register!Switch(cand[p])
      <3>1. /\ manifest'.active = cand[p]
            /\ manifest'.previous = manifest.active
            /\ manifest'.generation = manifest.generation + 1
        BY <1>5, ReplacedManifest
      <3>2. /\ cand[p] \in Whole
            /\ cand[p] # manifest.active
        BY <1>5, ReplacedManifest DEF Whole
      <3>3. Whole' = Whole
        BY <1>5 DEF ReplaceManifest, Whole
      <3>4. QED
        BY <3>1, <3>2, <3>3 DEF Register!Switch, Whole
    <2>2. QED
      BY <1>5, <2>1, ReplacedManifest DEF Register!Next
  <1>6. ASSUME NEW r \in Readers, OpenCollection(r)
        PROVE  UNCHANGED Register!vars
    <2>1. Whole' = Whole /\ manifest' = manifest
      BY <1>6 DEF OpenCollection, Whole, FileTypeOK, files
    <2>2. QED
      BY <2>1 DEF Whole, Register!vars
  <1>7. ASSUME UNCHANGED <<manifest, store>>
        PROVE  UNCHANGED Register!vars
    BY <1>7, RegisterStutters
  <1>8. QED
    BY <1>1, <1>2, <1>3, <1>4, <1>5, <1>6, <1>7
    DEF Next, Command, Step, BeginBuild, PreviewRetention, BeginRetention, BeginRollback,
        ReadInventory, RecordCandidate, ReadManifest, BuildFails, StageFails,
        PlanRetention, PruneInventory, RetentionFails, VerifyPreview, ClassifyRollback,
        SwapCollections, RollbackFails, Unlock, Crash, Return, ResolveActive, files, vars

\* Builds, rollbacks, retentions, failures and crashes implement the register
\* that readers and operators rely on.
THEOREM IndexImplementsRegister == Spec => ImplementsRegister
  <1>1. Init => Register!Init
    BY DEF Init, Register!Init, NoManifest, Collections, Legacy
  <1>2. Inv /\ [Next]_vars => [Register!Next]_Register!vars
    BY RegisterStep
  <1>3. QED
    BY <1>1, <1>2, Invariance, PTL DEF Spec, ImplementsRegister, Register!Spec

\* Together: what holds of the files and of the collection they serve.
THEOREM IndexIsSafe == Spec => []IndexSafety
  <1>1. TypeOK /\ ActiveIsReadable => IndexSafety
    BY DEF IndexSafety
  <1>2. QED
    BY <1>1, SpecIsHostile, TypeCorrectness, ServedIsWhole, PTL

\* Together: both commands do what their keys say, and the last resort stays.
THEOREM CommandsDoAsTheySay == Spec => CommandsAreExact
  BY RollbackIsExact, RetentionIsExact, SpecIsHostile, LegacySurvives DEF CommandsAreExact

----------------------------------------------------------------------------
(* The budget.                                                             *)

\* Recordings have an order.
Ordered ==
    /\ \A c \in Versions : recordedAt[c] <= clock
    /\ \A c, d \in inventory : recordedAt[c] = recordedAt[d] => c = d

\* What a retention has to do leaves no more than the budget, and it is done
\* when its command ends well.
Fits(S) == Cardinality(S) <= MaxVersions

Budgeted(p) ==
    /\ pc[p] \in {"published", "retain"} => manifest.generation > 0
    /\ pc[p] = "verify" => plan[p].generation > 0
    /\ pc[p] = "record_write" => snap[p] \subseteq inventory
    /\ pc[p] \in {"delete", "prune"} => snap[p] = inventory /\ Fits(inventory \ todo[p])
    /\ pc[p] = "unlock" /\ ~failed[p] /\ mode[p] # "rollback" => Fits(inventory)

BudgetInv == Ordered /\ \A p \in Procs : Budgeted(p)

LEMMA VersionsFinite == \A S \in SUBSET Versions : IsFiniteSet(S) /\ Cardinality(S) \in Nat
  <1>1. IsFiniteSet(Versions)
    BY BoundsAssumption, FS_Interval DEF Versions
  <1>2. QED
    BY <1>1, FS_Subset, FS_CardinalityType

\* Of the versions that are not protected, at most as many have fewer than k
\* newer ones as there are numbers below k: each has another number of them.
LEMMA NewestFew ==
  ASSUME TypeOK, Ordered, NEW U \in SUBSET inventory, NEW k \in Nat
  PROVE  Cardinality({c \in U : ~(Cardinality({d \in U : recordedAt[d] > recordedAt[c]}) >= k)}) <= k
  <1> DEFINE newer(c) == {d \in U : recordedAt[d] > recordedAt[c]}
             count(c) == Cardinality(newer(c))
             A == {c \in U : ~(count(c) >= k)}
             B == 0 .. (k - 1)
  <1>1. U \subseteq Versions /\ inventory \subseteq Versions /\ \A c \in Versions : recordedAt[c] \in Nat
    BY DEF TypeOK, FileTypeOK
  <1>2. \A c \in U : IsFiniteSet(newer(c)) /\ count(c) \in Nat
    BY <1>1, VersionsFinite
  <1>3. ASSUME NEW c \in U, NEW d \in U, recordedAt[c] < recordedAt[d]
        PROVE  count(d) < count(c)
    <2>1. newer(d) \cup {d} \subseteq newer(c) /\ d \notin newer(d)
      BY <1>1, <1>3
    <2> HIDE DEF newer
    <2>2. Cardinality(newer(d) \cup {d}) = count(d) + 1
      BY <1>2, <2>1, FS_AddElement
    <2>3. Cardinality(newer(d) \cup {d}) <= count(c)
      BY <1>2, <2>1, FS_Subset
    <2> HIDE DEF count
    <2>4. QED
      BY <1>2, <2>2, <2>3
  <1> HIDE DEF count, newer
  <1>nat. \A c \in U : count(c) \in Nat
    BY <1>2
  <1>4. ASSUME NEW c \in A, NEW d \in A, count(c) = count(d)
        PROVE  c = d
    <2>1. c \in U /\ d \in U
      OBVIOUS
    <2>2. ~(recordedAt[c] < recordedAt[d]) /\ ~(recordedAt[d] < recordedAt[c])
      <3>1. ~(count(d) < count(c)) /\ ~(count(c) < count(d))
        BY <1>nat, <1>4, <2>1
      <3>2. QED
        BY <1>3, <2>1, <3>1
    <2>3. recordedAt[c] = recordedAt[d]
      BY <1>1, <2>1, <2>2
    <2>4. QED
      BY <2>1, <2>3 DEF Ordered
  <1> DEFINE f == [c \in A |-> count(c)]
  <1>5. \A c \in A : count(c) \in B
    BY <1>nat
  <1>6. f \in [A -> B]
    BY <1>5
  <1>7. \A c, d \in A : f[c] = f[d] => c = d
    BY <1>4
  <1>8. A \in SUBSET Versions
    BY <1>1
  <1>9. IsFiniteSet(A) /\ Cardinality(A) \in Nat
    BY <1>8, VersionsFinite
  <1>10. IsFiniteSet(B) /\ Cardinality(B) = k
    BY FS_Interval
  <1> HIDE DEF A, B, f
  <1>11. ~(Cardinality(B) < Cardinality(A))
    BY <1>6, <1>7, <1>9, <1>10, FS_PigeonHole
  <1>12. Cardinality(A) <= k
    BY <1>9, <1>10, <1>11
  <1>13. QED
    BY <1>12 DEF A, count, newer

\* Without the candidates of a retention the inventory fits its budget.
LEMMA CandidatesSuffice ==
  ASSUME TypeOK, Ordered, manifest.generation > 0
  PROVE  Fits(inventory \ BoundedCandidates)
  <1> DEFINE P == Protected(manifest)
             U == inventory \ P
             A == {c \in U : ~(Cardinality({d \in U : recordedAt[d] > recordedAt[c]})
                                 >= KeepSlots(manifest))}
  <1>1. inventory \in SUBSET Versions
    BY DEF TypeOK, FileTypeOK
  <1>2. IsFiniteSet(P) /\ Cardinality(P) \in Nat /\ Cardinality(P) <= 2
    <2>1. IsFiniteSet({manifest.active}) /\ Cardinality({manifest.active}) = 1
      BY FS_Singleton
    <2>2. IsFiniteSet({manifest.active} \cup {manifest.previous})
          /\ Cardinality({manifest.active} \cup {manifest.previous}) <= 2
      BY <2>1, FS_AddElement
    <2>3. P \in SUBSET ({manifest.active} \cup {manifest.previous})
      BY DEF Protected
    <2> HIDE DEF P
    <2>4. IsFiniteSet(P) /\ Cardinality(P) <= Cardinality({manifest.active} \cup {manifest.previous})
      BY <2>2, <2>3, FS_Subset
    <2>5. Cardinality(P) \in Nat
      BY <2>4, FS_CardinalityType
    <2>6. Cardinality({manifest.active} \cup {manifest.previous}) \in Nat
      BY <2>2, FS_CardinalityType
    <2>7. QED
      BY <2>2, <2>4, <2>5, <2>6
  <1>3. KeepSlots(manifest) \in Nat /\ KeepSlots(manifest) = MaxVersions - Cardinality(P)
    BY <1>2, VersionsAssumption DEF KeepSlots
  <1>4. A \in SUBSET Versions
    BY <1>1
  <1>5. Cardinality(A) <= KeepSlots(manifest)
    <2>1. U \in SUBSET inventory
      OBVIOUS
    <2> HIDE DEF U
    <2>2. QED
      BY <1>3, <2>1, NewestFew
  <1>6. inventory \ BoundedCandidates \subseteq P \cup A
    <2>1. BoundedCandidates =
            {c \in U : Cardinality({d \in U : recordedAt[d] > recordedAt[c]}) >= KeepSlots(manifest)}
      BY DEF BoundedCandidates
    <2> HIDE DEF P
    <2>2. QED
      BY <2>1
  <1>7. IsFiniteSet(A) /\ Cardinality(A) \in Nat
    BY <1>4, VersionsFinite
  <1> HIDE DEF A, P
  <1>8. /\ IsFiniteSet(P \cup A)
        /\ Cardinality(P \cup A) = Cardinality(P) + Cardinality(A) - Cardinality(P \cap A)
    BY <1>2, <1>7, FS_Union
  <1>9. Cardinality(P \cap A) \in Nat
    <2>1. IsFiniteSet(P \cap A)
      BY <1>2, FS_Subset
    <2>2. QED
      BY <2>1, FS_CardinalityType
  <1>10. Cardinality(inventory \ BoundedCandidates) <= Cardinality(P \cup A)
    BY <1>6, <1>8, FS_Subset
  <1>11. Cardinality(inventory \ BoundedCandidates) \in Nat
    BY <1>1, VersionsFinite
  <1>12. Cardinality(P \cup A) \in Nat
    BY <1>8, FS_CardinalityType
  <1>13. QED
    BY <1>2, <1>3, <1>5, <1>7, <1>8, <1>9, <1>10, <1>11, <1>12, VersionsAssumption DEF Fits
\* The order of the recordings survives every step.
LEMMA OrderedStep ==
  ASSUME Inv, BudgetInv, [Next]_vars
  PROVE  Ordered'
  <1> USE DEF Inv, BaseInv, TypeOK, FileTypeOK, ControlTypeOK, LocalTypeOK, BudgetInv, Ordered
  <1>1. ASSUME NEW p \in Procs, RecordCandidate(p)
        PROVE  Ordered'
    <2>1. cand[p] \in Versions /\ snap[p] \subseteq inventory
      BY <1>1 DEF RecordCandidate, StagedName, Staging, Budgeted
    <2>2. /\ inventory' \subseteq inventory \cup {cand[p]}
          /\ clock' = clock + 1
          /\ recordedAt'[cand[p]] = clock + 1
          /\ \A c \in Versions : c # cand[p] => recordedAt'[c] = recordedAt[c]
      BY <1>1, <2>1 DEF RecordCandidate, RecordedName
    <2>3. \A c \in Versions : recordedAt[c] \in Nat /\ recordedAt[c] <= clock
      OBVIOUS
    <2>4. clock \in Nat /\ inventory \subseteq Versions
      OBVIOUS
    <2>5. \A c \in Versions : recordedAt'[c] <= clock'
      <3> SUFFICES ASSUME NEW c \in Versions PROVE recordedAt'[c] <= clock'
        OBVIOUS
      <3>1. CASE c = cand[p]
        BY <2>2, <2>4, <3>1
      <3>2. CASE c # cand[p]
        <4>1. recordedAt'[c] = recordedAt[c]
          BY <2>2, <3>2
        <4>2. QED
          BY <2>2, <2>3, <2>4, <4>1
      <3>3. QED
        BY <3>1, <3>2
    <2>6. ASSUME NEW c \in inventory', NEW d \in inventory', recordedAt'[c] = recordedAt'[d]
          PROVE  c = d
      <3>1. c \in Versions /\ d \in Versions
        BY <2>1, <2>2, <2>4
      <3>2. CASE c = cand[p] \/ d = cand[p]
        BY <2>2, <2>3, <2>4, <2>6, <3>1, <3>2
      <3>3. CASE c # cand[p] /\ d # cand[p]
        BY <2>2, <2>6, <3>1, <3>3
      <3>4. QED
        BY <3>2, <3>3
    <2>7. QED
      BY <2>5, <2>6
  <1>2. ASSUME NEW p \in Procs, PruneInventory(p)
        PROVE  Ordered'
    <2>1. inventory' \subseteq inventory
      BY <1>2 DEF PruneInventory, Budgeted
    <2>2. QED
      BY <1>2, <2>1 DEF PruneInventory
  <1>3. ASSUME UNCHANGED <<inventory, recordedAt, clock>>
        PROVE  Ordered'
    BY <1>3
  <1>4. QED
    BY <1>1, <1>2, <1>3
    DEF Next, Command, Step, BeginBuild, PreviewRetention, BeginRetention, BeginRollback,
        StageCandidate, ValidateCandidate, ReadInventory, ReadManifest, ReplaceManifest, BuildFails,
        DiscardCandidate, StageFails, PlanRetention, DeleteCollection,
        RetentionFails, VerifyPreview, ClassifyRollback, SwapCollections, RollbackFails, Unlock,
        Crash, Return, ResolveActive, OpenCollection, files, vars

\* A step of the process inside a command leaves the others where they have
\* no obligation but the generation of what they previewed.
LEMMA OthersOweNothing ==
  ASSUME Inv, BudgetInv, NEW p \in Procs, NEW q \in Procs, pc[p] # "idle", q # p,
         pc'[q] = pc[q]
  PROVE  Budgeted(q)'
  BY OthersIdle DEF Budgeted

\* Each step keeps what the process that makes it owes to the budget.
LEMMA BudgetedStep ==
  ASSUME Inv, BudgetInv, [Next]_vars, NEW q \in Procs
  PROVE  Budgeted(q)'
  <1> USE DEF Inv, BaseInv, TypeOK, FileTypeOK, ControlTypeOK, LocalTypeOK, BudgetInv
  <1>1. ASSUME NEW p \in Procs, BeginBuild(p) \/ BeginRetention(p) \/ BeginRollback(p)
        PROVE  Budgeted(q)'
    BY <1>1 DEF BeginBuild, BeginRetention, BeginRollback, Acquire, Goto, Budgeted, Held, Fits, files
  <1>2. ASSUME NEW p \in Procs, PreviewRetention(p)
        PROVE  Budgeted(q)'
    BY <1>2 DEF PreviewRetention, Budgeted, Held, Fits, files
  <1>3. ASSUME NEW p \in Procs, Step(p), p = q
        PROVE  Budgeted(q)'
    <2>1. ASSUME StageCandidate(q) \/ ValidateCandidate(q) \/ ReadInventory(q) \/ ReadManifest(q)
                 \/ BuildFails(q) \/ RecordCandidate(q)
          PROVE  Budgeted(q)'
      BY <2>1
      DEF StageCandidate, ValidateCandidate, ReadInventory, ReadManifest, BuildFails,
          RecordCandidate, Goto, Budgeted, files, locals
    <2>2. ASSUME ReplaceManifest(q)
          PROVE  Budgeted(q)'
      <3>1. manifest'.generation > 0
        BY <2>2, ReplacedManifest DEF Manifests
      <3>2. mode[q] \in {"build", "rollback"} /\ mode' = mode
        BY <2>2 DEF ReplaceManifest, Modes, locals
      <3>3. QED
        BY <2>2, <3>1, <3>2 DEF ReplaceManifest, Goto, Budgeted
    <2>3. ASSUME DiscardCandidate(q) \/ StageFails(q) \/ RetentionFails(q) \/ RollbackFails(q)
          PROVE  Budgeted(q)'
      BY <2>3
      DEF DiscardCandidate, AfterCleanupFails, StageFails, RetentionFails, RollbackFails, Raise, Goto,
          Budgeted, files, locals
    <2>4. ASSUME PlanRetention(q)
          PROVE  Budgeted(q)'
      <3>1. manifest.generation > 0
        BY <2>4 DEF PlanRetention, Budgeted
      <3>2. Fits(inventory \ BoundedCandidates)
        BY <3>1, CandidatesSuffice
      <3>3. /\ todo'[q] = BoundedCandidates
            /\ snap'[q] = inventory
            /\ inventory' = inventory
            /\ pc'[q] = IF BoundedCandidates = {} THEN "unlock" ELSE "delete"
        BY <2>4 DEF PlanRetention, Goto, files
      <3> HIDE DEF BoundedCandidates
      <3>4. BoundedCandidates = {} => Fits(inventory)
        BY <3>2 DEF Fits
      <3>5. QED
        BY <3>2, <3>3, <3>4 DEF Budgeted, Fits
    <2>5. ASSUME DeleteCollection(q)
          PROVE  Budgeted(q)'
      BY <2>5 DEF DeleteCollection, Goto, Budgeted, Fits, files, locals
    <2>6. ASSUME PruneInventory(q)
          PROVE  Budgeted(q)'
      <3>1. PICK c \in Oldest(todo[q]) :
              /\ inventory' = snap[q] \ {c}
              /\ snap' = [snap EXCEPT ![q] = @ \ {c}]
              /\ todo' = [todo EXCEPT ![q] = @ \ {c}]
              /\ Goto(q, IF todo[q] = {c} THEN "unlock" ELSE "delete")
        BY <2>6 DEF PruneInventory
      <3>2. snap[q] = inventory /\ Fits(inventory \ todo[q]) /\ c \in todo[q]
        BY <2>6 DEF PruneInventory, Budgeted, Oldest
      <3>3. inventory' \ todo'[q] = inventory \ todo[q]
        BY <3>1, <3>2
      <3>4. todo[q] = {c} => inventory' = inventory \ todo[q]
        BY <3>1, <3>2
      <3>5. QED
        BY <3>1, <3>2, <3>3, <3>4 DEF Goto, Budgeted, Fits
    <2>7. ASSUME VerifyPreview(q)
          PROVE  Budgeted(q)'
      BY <2>7 DEF VerifyPreview, PreviewHolds, Raise, Goto, Budgeted, files, locals
    <2>8. ASSUME ClassifyRollback(q) \/ SwapCollections(q)
          PROVE  Budgeted(q)'
      BY <2>8
      DEF ClassifyRollback, SwapCollections, Raise, Goto, Budgeted, Modes, files, locals
    <2>9. ASSUME Unlock(q)
          PROVE  Budgeted(q)'
      BY <2>9 DEF Unlock, Return, Goto, Budgeted
    <2>10. QED
      BY <1>3, <2>1, <2>2, <2>3, <2>4, <2>5, <2>6, <2>7, <2>8, <2>9 DEF Step
  <1>4. ASSUME NEW p \in Procs, Step(p), p # q
        PROVE  Budgeted(q)'
    <2>1. pc[p] # "idle" /\ pc'[q] = pc[q]
      BY <1>4
      DEF Step, StageCandidate, ValidateCandidate, ReadInventory, RecordCandidate, ReadManifest,
          ReplaceManifest, BuildFails, DiscardCandidate, StageFails,
          PlanRetention, DeleteCollection, PruneInventory, RetentionFails, VerifyPreview,
          ClassifyRollback, SwapCollections, RollbackFails, Unlock, Return, Raise, Goto
    <2>2. QED
      BY <1>4, <2>1, OthersOweNothing
  <1>5. ASSUME NEW p \in Procs, Crash(p)
        PROVE  Budgeted(q)'
    <2>1. CASE p = q
      BY <1>5, <2>1 DEF Crash, Return, Goto, Budgeted
    <2>2. CASE p # q
      BY <1>5, <2>2, OthersOweNothing DEF Crash, Return, Goto
    <2>3. QED
      BY <2>1, <2>2
  <1>6. ASSUME NEW r \in Readers, ResolveActive(r) \/ OpenCollection(r)
        PROVE  Budgeted(q)'
    BY <1>6 DEF ResolveActive, OpenCollection, Budgeted, Fits, files, locals
  <1>7. CASE UNCHANGED vars
    BY <1>7 DEF vars, Budgeted, Fits, files, locals
  <1>8. QED
    BY <1>1, <1>2, <1>3, <1>4, <1>5, <1>6, <1>7 DEF Next, Command

\* However retentions, failures and crashes interleave, a command that ends
\* well leaves no more recorded versions than the budget allows.
THEOREM BudgetIsKept == Spec => []VersionsBounded
  <1>1. Init => BudgetInv
    BY DEF Init, BudgetInv, Ordered, Budgeted
  <1>2. Inv /\ BudgetInv /\ [Next]_vars => BudgetInv'
    BY OrderedStep, BudgetedStep DEF BudgetInv
  <1>3. BudgetInv => VersionsBounded
    BY DEF BudgetInv, Budgeted, Fits, VersionsBounded
  <1>4. QED
    BY <1>1, <1>2, <1>3, Invariance, PTL DEF Spec

----------------------------------------------------------------------------
(* What liveness rests on: a lock that is held is held by a command, and   *)
(* how many steps that command still has to go, at most.                   *)

LockHasHolder == \A p \in Procs : lock = p => pc[p] # "idle"

\* The steps from a place to the end of its command, with k versions still to delete.
StepsFrom(place, k) ==
    CASE place = "idle" -> 0
      [] place = "unlock" -> 1
      [] place = "discard" -> 2
      [] place = "prune" -> 2 * k + 2
      [] place = "delete" -> 2 * k + 3
      [] place \in {"published", "retain"} -> 2 * MaxBuilds + 4
      [] place \in {"replace", "verify"} -> 2 * MaxBuilds + 5
      [] place = "publish" -> 2 * MaxBuilds + 6
      [] place \in {"record_write", "swap"} -> 2 * MaxBuilds + 7
      [] place \in {"record", "classify"} -> 2 * MaxBuilds + 8
      [] place = "fill" -> 2 * MaxBuilds + 9
      [] place = "stage" -> 2 * MaxBuilds + 10

StepsLeft(p) == StepsFrom(pc[p], Cardinality(todo[p]))

\* The number of each place.
LEMMA StepsFromPlace ==
  ASSUME NEW k \in Nat
  PROVE  /\ StepsFrom("idle", k) = 0
         /\ StepsFrom("unlock", k) = 1
         /\ StepsFrom("discard", k) = 2
         /\ StepsFrom("prune", k) = 2 * k + 2
         /\ StepsFrom("delete", k) = 2 * k + 3
         /\ StepsFrom("published", k) = 2 * MaxBuilds + 4
         /\ StepsFrom("retain", k) = 2 * MaxBuilds + 4
         /\ StepsFrom("replace", k) = 2 * MaxBuilds + 5
         /\ StepsFrom("verify", k) = 2 * MaxBuilds + 5
         /\ StepsFrom("publish", k) = 2 * MaxBuilds + 6
         /\ StepsFrom("record_write", k) = 2 * MaxBuilds + 7
         /\ StepsFrom("swap", k) = 2 * MaxBuilds + 7
         /\ StepsFrom("record", k) = 2 * MaxBuilds + 8
         /\ StepsFrom("classify", k) = 2 * MaxBuilds + 8
         /\ StepsFrom("fill", k) = 2 * MaxBuilds + 9
         /\ StepsFrom("stage", k) = 2 * MaxBuilds + 10
  BY BoundsAssumption DEF StepsFrom

\* A set of versions has no more of them than there are.
LEMMA FewVersions ==
  ASSUME NEW S \in SUBSET Versions
  PROVE  Cardinality(S) \in 0..MaxBuilds
  <1>1. IsFiniteSet(Versions) /\ Cardinality(Versions) = MaxBuilds
    BY BoundsAssumption, FS_Interval DEF Versions
  <1>2. Cardinality(S) <= Cardinality(Versions) /\ Cardinality(S) \in Nat
    BY <1>1, FS_Subset, FS_CardinalityType
  <1>3. QED
    BY <1>1, <1>2, BoundsAssumption

\* The measure is a number within its bound.
LEMMA StepsLeftBounds ==
  ASSUME BaseInv, NEW p \in Procs
  PROVE  StepsLeft(p) \in 0..(2 * MaxBuilds + 10)
  <1>1. PICK k : k = Cardinality(todo[p])
    OBVIOUS
  <1>2. k \in 0..MaxBuilds
    BY <1>1, FewVersions DEF BaseInv, TypeOK, LocalTypeOK
  <1>3. pc[p] \in Places
    BY DEF BaseInv, TypeOK, ControlTypeOK
  <1>4. StepsFrom(pc[p], k) \in 0..(2 * MaxBuilds + 10)
    <2>1. k \in Nat /\ k <= MaxBuilds /\ MaxBuilds \in Nat
      BY <1>2, BoundsAssumption
    <2>2. CASE pc[p] \in {"delete", "prune"}
      <3>1. StepsFrom(pc[p], k) \in {2 * k + 2, 2 * k + 3}
        BY <2>1, <2>2, StepsFromPlace
      <3>2. QED
        BY <2>1, <3>1
    <2>3. CASE pc[p] \in {"idle", "unlock", "discard"}
      <3>1. StepsFrom(pc[p], k) \in 0..2
        BY <2>1, <2>3, StepsFromPlace
      <3>2. QED
        BY <2>1, <3>1
    <2>4. CASE pc[p] \in Places \ {"idle", "unlock", "discard", "delete", "prune"}
      <3>1. \E i \in 4..10 : StepsFrom(pc[p], k) = 2 * MaxBuilds + i
        BY <2>1, <2>4, StepsFromPlace DEF Places
      <3>2. QED
        BY <2>1, <3>1
    <2>5. QED
      BY <1>3, <2>2, <2>3, <2>4
  <1>5. QED
    BY <1>1, <1>4 DEF StepsLeft

\* What a step of process p does to the places and deletions of all.
Advances(p) ==
    /\ pc' = [pc EXCEPT ![p] = pc'[p]]
    /\ todo' = [todo EXCEPT ![p] = todo'[p]]
    /\ StepsLeft(p)' < StepsLeft(p)

\* A step from one place to a later one, deleting nothing.
LEMMA PlaceAdvances ==
  ASSUME BaseInv, NEW p \in Procs, NEW place \in Places,
         Goto(p, place), UNCHANGED todo,
         \A k \in 0..MaxBuilds : StepsFrom(place, k) < StepsFrom(pc[p], k)
  PROVE  Advances(p)
  <1>1. Cardinality(todo[p]) \in 0..MaxBuilds
    BY FewVersions DEF BaseInv, TypeOK, LocalTypeOK
  <1>2. pc'[p] = place /\ pc' = [pc EXCEPT ![p] = place] /\ todo' = todo
    BY DEF Goto, BaseInv, TypeOK, ControlTypeOK
  <1>3. todo' = [todo EXCEPT ![p] = todo'[p]]
    BY <1>2 DEF BaseInv, TypeOK, LocalTypeOK
  <1>4. StepsLeft(p)' < StepsLeft(p)
    BY <1>1, <1>2 DEF StepsLeft
  <1>5. QED
    BY <1>2, <1>3, <1>4 DEF Advances

\* Every step of a command, its failures and interruption included, leads on.
LEMMA StepAdvances ==
  ASSUME BaseInv, NEW p \in Procs, Step(p) \/ InterruptPublication(p)
  PROVE  Advances(p)
  <1>1. CASE StageCandidate(p) \/ ValidateCandidate(p) \/ ReadInventory(p) \/ RecordCandidate(p) \/ ReadManifest(p)
    <2>1. PICK place \in Places :
            /\ Goto(p, place)
            /\ todo' = todo
            /\ <<pc[p], place>> \in {<<"stage", "fill">>, <<"fill", "record">>, <<"record", "record_write">>, <<"record_write", "publish">>, <<"publish", "replace">>}
      BY <1>1 DEF StageCandidate, ValidateCandidate, ReadInventory, RecordCandidate, ReadManifest, Places, locals
    <2>2. \A k \in 0..MaxBuilds : StepsFrom(place, k) < StepsFrom(pc[p], k)
      BY <2>1, StepsFromPlace, BoundsAssumption
    <2>3. QED
      BY <2>1, <2>2, PlaceAdvances
  <1>2. CASE ReplaceManifest(p)
    <2>1. PICK place \in Places :
            /\ Goto(p, place)
            /\ todo' = todo
            /\ <<pc[p], place>> \in {<<"replace", "published">>, <<"replace", "unlock">>}
      BY <1>2 DEF ReplaceManifest, Places, locals
    <2>2. \A k \in 0..MaxBuilds : StepsFrom(place, k) < StepsFrom(pc[p], k)
      BY <2>1, StepsFromPlace, BoundsAssumption
    <2>3. QED
      BY <2>1, <2>2, PlaceAdvances
  <1>3. CASE BuildFails(p) \/ InterruptPublication(p)
    <2>1. PICK place \in Places :
            /\ Goto(p, place)
            /\ todo' = todo
            /\ <<pc[p], place>> \in {<<"fill", "discard">>, <<"record", "discard">>, <<"record_write", "discard">>, <<"publish", "discard">>, <<"replace", "discard">>, <<"published", "discard">>}
      BY <1>3 DEF BuildFails, InterruptPublication, Places, locals
    <2>2. \A k \in 0..MaxBuilds : StepsFrom(place, k) < StepsFrom(pc[p], k)
      BY <2>1, StepsFromPlace, BoundsAssumption
    <2>3. QED
      BY <2>1, <2>2, PlaceAdvances
  <1>4. CASE DiscardCandidate(p)
    <2>1. PICK place \in Places :
            /\ Goto(p, place)
            /\ todo' = todo
            /\ <<pc[p], place>> \in {<<"discard", "unlock">>}
      BY <1>4 DEF DiscardCandidate, AfterCleanupFails, Places, locals
    <2>2. \A k \in 0..MaxBuilds : StepsFrom(place, k) < StepsFrom(pc[p], k)
      BY <2>1, StepsFromPlace, BoundsAssumption
    <2>3. QED
      BY <2>1, <2>2, PlaceAdvances
  <1>5. CASE StageFails(p) \/ RetentionFails(p) \/ RollbackFails(p)
    <2>1. PICK place \in Places :
            /\ Goto(p, place)
            /\ todo' = todo
            /\ <<pc[p], place>> \in {<<"stage", "unlock">>, <<"published", "unlock">>, <<"verify", "unlock">>, <<"retain", "unlock">>, <<"delete", "unlock">>, <<"prune", "unlock">>, <<"classify", "unlock">>, <<"swap", "unlock">>, <<"publish", "unlock">>, <<"replace", "unlock">>}
      BY <1>5 DEF StageFails, RetentionFails, RollbackFails, Raise, Places, locals
    <2>2. \A k \in 0..MaxBuilds : StepsFrom(place, k) < StepsFrom(pc[p], k)
      BY <2>1, StepsFromPlace, BoundsAssumption
    <2>3. QED
      BY <2>1, <2>2, PlaceAdvances
  <1>6. CASE VerifyPreview(p)
    <2>1. PICK place \in Places :
            /\ Goto(p, place)
            /\ todo' = todo
            /\ <<pc[p], place>> \in {<<"verify", "retain">>, <<"verify", "unlock">>}
      BY <1>6 DEF VerifyPreview, Raise, Places, locals
    <2>2. \A k \in 0..MaxBuilds : StepsFrom(place, k) < StepsFrom(pc[p], k)
      BY <2>1, StepsFromPlace, BoundsAssumption
    <2>3. QED
      BY <2>1, <2>2, PlaceAdvances
  <1>7. CASE ClassifyRollback(p)
    <2>1. PICK place \in Places :
            /\ Goto(p, place)
            /\ todo' = todo
            /\ <<pc[p], place>> \in {<<"classify", "swap">>, <<"classify", "unlock">>}
      BY <1>7 DEF ClassifyRollback, Raise, Places, locals
    <2>2. \A k \in 0..MaxBuilds : StepsFrom(place, k) < StepsFrom(pc[p], k)
      BY <2>1, StepsFromPlace, BoundsAssumption
    <2>3. QED
      BY <2>1, <2>2, PlaceAdvances
  <1>8. CASE SwapCollections(p)
    <2>1. PICK place \in Places :
            /\ Goto(p, place)
            /\ todo' = todo
            /\ <<pc[p], place>> \in {<<"swap", "publish">>, <<"swap", "unlock">>}
      BY <1>8 DEF SwapCollections, Raise, Places, locals
    <2>2. \A k \in 0..MaxBuilds : StepsFrom(place, k) < StepsFrom(pc[p], k)
      BY <2>1, StepsFromPlace, BoundsAssumption
    <2>3. QED
      BY <2>1, <2>2, PlaceAdvances
  <1>9. CASE DeleteCollection(p)
    <2>1. PICK place \in Places :
            /\ Goto(p, place)
            /\ todo' = todo
            /\ <<pc[p], place>> \in {<<"delete", "prune">>}
      BY <1>9 DEF DeleteCollection, Places, locals
    <2>2. \A k \in 0..MaxBuilds : StepsFrom(place, k) < StepsFrom(pc[p], k)
      BY <2>1, StepsFromPlace, BoundsAssumption
    <2>3. QED
      BY <2>1, <2>2, PlaceAdvances
  <1>10. CASE PlanRetention(p)
    <2>1. PICK S \in SUBSET Versions, place \in {"unlock", "delete"} :
            /\ S = BoundedCandidates
            /\ todo' = [todo EXCEPT ![p] = S]
            /\ Goto(p, place)
      <3>1. BoundedCandidates \subseteq Versions
        BY CandidatesAreUnprotected DEF BaseInv, TypeOK, FileTypeOK
      <3>2. QED
        BY <1>10, <3>1 DEF PlanRetention
    <2>2. pc'[p] = place /\ todo'[p] = S /\ pc[p] \in {"published", "retain"}
      BY <1>10, <2>1 DEF PlanRetention, Goto, BaseInv, TypeOK, ControlTypeOK, LocalTypeOK
    <2>3. PICK j : j = Cardinality(S)
      OBVIOUS
    <2>4. PICK k : k = Cardinality(todo[p])
      OBVIOUS
    <2>5. j \in 0..MaxBuilds /\ k \in 0..MaxBuilds
      BY <2>3, <2>4, FewVersions DEF BaseInv, TypeOK, LocalTypeOK
    <2>6. StepsFrom(place, j) < StepsFrom(pc[p], k)
      BY <2>2, <2>5, StepsFromPlace, BoundsAssumption
    <2>7. QED
      BY <2>1, <2>2, <2>3, <2>4, <2>6 DEF Advances, StepsLeft, Goto
  <1>11. CASE PruneInventory(p)
    <2>1. PICK c \in Oldest(todo[p]), place \in {"unlock", "delete"} :
            /\ todo' = [todo EXCEPT ![p] = todo[p] \ {c}]
            /\ Goto(p, place)
      BY <1>11 DEF PruneInventory, BaseInv, TypeOK, LocalTypeOK
    <2>2. c \in todo[p] /\ todo[p] \in SUBSET Versions
      BY <2>1 DEF Oldest, BaseInv, TypeOK, LocalTypeOK
    <2>3. pc'[p] = place /\ todo'[p] = todo[p] \ {c} /\ pc[p] = "prune"
      BY <1>11, <2>1 DEF PruneInventory, Goto, BaseInv, TypeOK, ControlTypeOK, LocalTypeOK
    <2>4. PICK j : j = Cardinality(todo[p] \ {c})
      OBVIOUS
    <2>5. PICK k : k = Cardinality(todo[p])
      OBVIOUS
    <2>6. j \in Nat /\ k \in Nat /\ j = k - 1
      BY <2>2, <2>4, <2>5, VersionsFinite, FS_RemoveElement
    <2>7. StepsFrom(place, j) < StepsFrom("prune", k)
      BY <2>1, <2>6, StepsFromPlace
    <2>8. QED
      BY <2>1, <2>3, <2>4, <2>5, <2>7 DEF Advances, StepsLeft, Goto
  <1>12. CASE Unlock(p)
    <2>1. pc' = [pc EXCEPT ![p] = "idle"] /\ todo' = [todo EXCEPT ![p] = {}] /\ pc[p] = "unlock"
      BY <1>12 DEF Unlock, Return, Goto
    <2>2. pc'[p] = "idle" /\ todo'[p] = {}
      BY <2>1 DEF BaseInv, TypeOK, ControlTypeOK, LocalTypeOK
    <2>3. Cardinality(todo[p]) \in Nat /\ Cardinality({}) \in Nat
      BY VersionsFinite DEF BaseInv, TypeOK, LocalTypeOK
    <2>4. StepsFrom("idle", Cardinality({})) < StepsFrom("unlock", Cardinality(todo[p]))
      BY <2>3, StepsFromPlace
    <2>5. QED
      BY <2>1, <2>2, <2>4 DEF Advances, StepsLeft
  <1>13. QED
    BY <1>1, <1>2, <1>3, <1>4, <1>5, <1>6, <1>7, <1>8, <1>9, <1>10, <1>11, <1>12 DEF Step

\* A process that dies is done at once.
LEMMA CrashAdvances ==
  ASSUME BaseInv, NEW p \in Procs, Crash(p)
  PROVE  Advances(p)
  <1>1. pc' = [pc EXCEPT ![p] = "idle"] /\ todo' = [todo EXCEPT ![p] = {}] /\ pc[p] \in Places \ {"idle"}
    BY DEF Crash, Return, Goto, BaseInv, TypeOK, ControlTypeOK
  <1>2. pc'[p] = "idle" /\ todo'[p] = {}
    BY <1>1 DEF BaseInv, TypeOK, ControlTypeOK, LocalTypeOK
  <1>3. Cardinality(todo[p]) \in Nat /\ Cardinality({}) \in Nat
    BY VersionsFinite DEF BaseInv, TypeOK, LocalTypeOK
  <1>4. \A j, k \in Nat : StepsFrom("idle", j) < StepsFrom(pc[p], k)
    BY <1>1, StepsFromPlace, BoundsAssumption DEF Places
  <1>5. QED
    BY <1>1, <1>2, <1>3, <1>4 DEF Advances, StepsLeft

\* Whatever happens, a command in progress stays where it is or leads on.
LEMMA CommandsLeadOn ==
  ASSUME BaseInv, [HostileNext]_vars, NEW p \in Procs, pc[p] # "idle"
  PROVE  StepsLeft(p)' < StepsLeft(p) \/ UNCHANGED <<pc[p], todo[p]>>
  <1>1. ASSUME NEW q \in Procs, Advances(q)
        PROVE  StepsLeft(p)' < StepsLeft(p) \/ UNCHANGED <<pc[p], todo[p]>>
    <2>1. CASE q = p
      BY <1>1, <2>1 DEF Advances
    <2>2. CASE q # p
      BY <1>1, <2>2 DEF Advances, BaseInv, TypeOK, ControlTypeOK, LocalTypeOK
    <2>3. QED
      BY <2>1, <2>2
  <1>2. ASSUME NEW q \in Procs, BeginBuild(q) \/ BeginRetention(q) \/ BeginRollback(q)
        PROVE  UNCHANGED <<pc[p], todo[p]>>
    BY <1>2 DEF BeginBuild, BeginRetention, BeginRollback, Acquire, Goto, BaseInv, TypeOK,
                ControlTypeOK
  <1>3. ASSUME NEW q \in Procs, PreviewRetention(q) \/ LoseSession(q)
        PROVE  UNCHANGED <<pc[p], todo[p]>>
    BY <1>3 DEF PreviewRetention, LoseSession, locals
  <1>4. ASSUME NEW r \in Readers, ResolveActive(r) \/ OpenCollection(r)
        PROVE  UNCHANGED <<pc[p], todo[p]>>
    BY <1>4 DEF ResolveActive, OpenCollection, locals
  <1>5. CASE UNCHANGED vars
    BY <1>5 DEF vars, locals
  <1>6. QED
    BY <1>1, <1>2, <1>3, <1>4, <1>5, StepAdvances, CrashAdvances DEF HostileNext, Next, Command

\* The lock is taken with a command and given back with it.
LEMMA LockHasHolderStep ==
  ASSUME BaseInv, LockHasHolder, [HostileNext]_vars
  PROVE  LockHasHolder'
  <1> USE NamesAssumption
  <1>1. ASSUME NEW p \in Procs, BeginBuild(p) \/ BeginRetention(p) \/ BeginRollback(p)
        PROVE  LockHasHolder'
    BY <1>1 DEF BeginBuild, BeginRetention, BeginRollback, Acquire, Goto, LockHasHolder, BaseInv,
                TypeOK, ControlTypeOK
  <1>2. ASSUME NEW p \in Procs, Unlock(p) \/ Crash(p)
        PROVE  LockHasHolder'
    BY <1>2 DEF Unlock, Crash, Return, Goto, LockHasHolder, BaseInv, TypeOK, ControlTypeOK
  <1>3. ASSUME NEW p \in Procs, PreviewRetention(p) \/ LoseSession(p)
        PROVE  LockHasHolder'
    BY <1>3 DEF PreviewRetention, LoseSession, LockHasHolder
  <1>4. ASSUME NEW p \in Procs, Step(p) \/ InterruptPublication(p), ~Unlock(p)
        PROVE  LockHasHolder'
    <2>1. lock' = lock
      BY <1>4 DEF Step, StageCandidate, ValidateCandidate, ReadInventory, RecordCandidate,
                  ReadManifest, ReplaceManifest, BuildFails, DiscardCandidate, StageFails,
                  PlanRetention, DeleteCollection, PruneInventory, RetentionFails, VerifyPreview,
                  ClassifyRollback, SwapCollections, RollbackFails, InterruptPublication
    <2>2. pc'[p] # "idle" /\ \A q \in Procs \ {p} : pc'[q] = pc[q]
      BY <1>4 DEF Step, StageCandidate, ValidateCandidate, ReadInventory, RecordCandidate,
                  ReadManifest, ReplaceManifest, BuildFails, DiscardCandidate, StageFails,
                  PlanRetention, DeleteCollection, PruneInventory, RetentionFails, VerifyPreview,
                  ClassifyRollback, SwapCollections, RollbackFails, InterruptPublication, Raise,
                  Goto, AfterCleanupFails, BaseInv, TypeOK, ControlTypeOK
    <2>3. QED
      BY <2>1, <2>2 DEF LockHasHolder
  <1>5. ASSUME NEW r \in Readers, ResolveActive(r) \/ OpenCollection(r)
        PROVE  LockHasHolder'
    BY <1>5 DEF ResolveActive, OpenCollection, LockHasHolder
  <1>6. CASE UNCHANGED vars
    BY <1>6 DEF vars, LockHasHolder
  <1>7. QED
    BY <1>1, <1>2, <1>3, <1>4, <1>5, <1>6 DEF HostileNext, Next, Command, Step

\* The half of LockIsFreed that is a safety property: a lock that is held belongs to a
\* command, every command is at most 2 * MaxBuilds + 10 steps from its end, and every step it
\* takes, through whatever failure, brings it nearer, the loop of retention included. Readers,
\* other commands, the loss of the lock or an interrupt never set it back. That the next step
\* is taken at all is what fairness assumes.
THEOREM CommandsRunOut ==
  HostileSpec =>
    /\ []LockHasHolder
    /\ [](\A p \in Procs : StepsLeft(p) \in 0..(2 * MaxBuilds + 10))
    /\ [][\A p \in Procs : pc[p] # "idle" =>
             StepsLeft(p)' < StepsLeft(p) \/ UNCHANGED <<pc[p], todo[p]>>]_vars
  <1>1. Init => LockHasHolder
    BY NamesAssumption DEF Init, LockHasHolder
  <1>2. BaseInv /\ LockHasHolder /\ [HostileNext]_vars => LockHasHolder'
    BY LockHasHolderStep
  <1>3. BaseInv => \A p \in Procs : StepsLeft(p) \in 0..(2 * MaxBuilds + 10)
    BY StepsLeftBounds
  <1>4. BaseInv /\ [HostileNext]_vars =>
          [\A p \in Procs : pc[p] # "idle" =>
             StepsLeft(p)' < StepsLeft(p) \/ UNCHANGED <<pc[p], todo[p]>>]_vars
    BY CommandsLeadOn
  <1>5. QED
    BY <1>1, <1>2, <1>3, <1>4, BaseInvariance, PTL DEF HostileSpec
=============================================================================
