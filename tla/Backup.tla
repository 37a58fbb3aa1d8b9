------------------------------- MODULE Backup -------------------------------
(***************************************************************************)
(* Snapshots of a running system.  A snapshot copies the stores one after  *)
(* another (traces, Postgres, the vector index, the uploads), encrypts the *)
(* copies one after another and writes the manifest last; a directory      *)
(* counts as a snapshot when it has a manifest.  Meanwhile uploads go on,  *)
(* the run may die anywhere and be repeated for the same directory, and    *)
(* copies may rot, those that wait for their encryption as well.  An audit *)
(* compares files with manifests, a restore drill unpacks a snapshot.      *)
(*                                                                         *)
(* scripts/backup_snapshot.py, backup_integrity.py, restore_verify.py.     *)
(***************************************************************************)
EXTENDS Naturals, Sequences, FiniteSets

CONSTANTS
    Documents,  \* documents that are uploaded while snapshots are taken
    Encrypting, \* BACKUP_ENCRYPTION_ENABLED
    MaxRuns,    \* bound on the runs of backup_snapshot.py for the directory
    MaxSpoilt   \* bound on the stores that are spoilt at a time

ASSUME BackupAssumption == Encrypting \in BOOLEAN /\ MaxRuns \in Nat

VARIABLES
    live,      \* per document: how far its ingestion is
    copies,    \* per form and store: the file in the snapshot directory
    damaged,   \* stores whose clear copy had rotted when it was encrypted
    manifest,  \* the manifest: none, torn, or the digest of every store that is ok
    run,       \* the run that writes the directory
    runs       \* runs started

backupVars == <<live, copies, damaged, manifest, run, runs>>

\* create_snapshot: the order in which the stores are copied.
Stores == <<"traces", "postgres", "chroma", "uploads">>

Store == {"traces", "postgres", "chroma", "uploads"}

\* A digest stands for the bytes of a file: 0 if there is none, else the run that wrote
\* it; a file that was cut off or has rotted has a digest no manifest has.
Rotten == MaxRuns + 1

NoFile == [docs |-> {}, digest |-> 0]
NoDigests == [s \in Store |-> 0]

\* The form of the file the manifest names for a store.
KeptForm == IF Encrypting THEN "encrypted" ELSE "clear"

BackupInit ==
    /\ live = [d \in Documents |-> "absent"]
    /\ copies = [f \in {"clear", "encrypted"} |-> [s \in Store |-> NoFile]]
    /\ damaged = {}
    /\ manifest = [state |-> "none", digest |-> NoDigests]
    /\ run = [step |-> "idle", next |-> 1, base |-> {}, digest |-> NoDigests]
    /\ runs = 0

----------------------------------------------------------------------------
(* The system that is backed up *)

\* upload_document: the row, the file under data/uploads, then the index.
Ingest(d) ==
    /\ live[d] # "indexed"
    /\ live' = [live EXCEPT ![d] = CASE @ = "absent" -> "row"
                                     [] @ = "row"    -> "file"
                                     [] @ = "file"   -> "indexed"]
    /\ UNCHANGED <<copies, damaged, manifest, run, runs>>

\* The documents a store holds.
Holds(s) ==
    CASE s = "traces"   -> {}
      [] s = "postgres" -> {d \in Documents : live[d] # "absent"}
      [] s = "chroma"   -> {d \in Documents : live[d] = "indexed"}
      [] s = "uploads"  -> {d \in Documents : live[d] \in {"file", "indexed"}}

\* The stores with a file that was cut off or has rotted, and the bound on them.
SpoiltStores ==
    damaged \cup {s \in Store : \E f \in {"clear", "encrypted"} : copies[f][s].digest = Rotten}

MayBeSpoilt(s) == Cardinality(SpoiltStores \cup {s}) <= MaxSpoilt

----------------------------------------------------------------------------
(* create_snapshot *)

StartSnapshot ==
    /\ run.step = "idle" /\ runs < MaxRuns
    /\ run' = [step |-> "copy", next |-> 1, base |-> {}, digest |-> NoDigests]
    /\ runs' = runs + 1
    /\ UNCHANGED <<live, copies, damaged, manifest>>

CurrentStore == Stores[run.next]

\* The run after its step for the current store, which ended with a digest or without.
Proceed(digest, phase) ==
    LET last == run.next = Len(Stores)
        following == IF phase = "copy" /\ Encrypting THEN "encrypt" ELSE "manifest"
    IN  [step |-> IF last THEN following ELSE phase,
         next |-> IF last THEN 1 ELSE run.next + 1,
         base |-> {},
         digest |-> [run.digest EXCEPT ![CurrentStore] = digest]]

\* pg_dump, the backup API and tar read while the system goes on.
BeginCopy ==
    /\ run.step = "copy"
    /\ run' = [run EXCEPT !.step = "copying", !.base = Holds(CurrentStore)]
    /\ UNCHANGED <<live, copies, damaged, manifest, runs>>

EndCopy ==
    /\ run.step = "copying"
    /\ \E docs \in SUBSET Holds(CurrentStore) :
         /\ run.base \subseteq docs
         /\ copies' = [copies EXCEPT !["clear"][CurrentStore] = [docs |-> docs, digest |-> runs]]
    /\ run' = Proceed(runs, "copy")
    /\ UNCHANGED <<live, damaged, manifest, runs>>

\* A store that is missing is skipped; one that cannot be copied has failed, and leaves a
\* file that was cut off unless it is the dump of Postgres.  The run goes on.
CopyFails ==
    /\ run.step = "copying"
    /\ \/ UNCHANGED copies
       \/ CurrentStore = "postgres" /\ copies' = [copies EXCEPT !["clear"][CurrentStore] = NoFile]
       \/ /\ CurrentStore # "postgres" /\ MayBeSpoilt(CurrentStore)
          /\ copies' = [copies EXCEPT !["clear"][CurrentStore].digest = Rotten]
    /\ run' = Proceed(0, "copy")
    /\ UNCHANGED <<live, damaged, manifest, runs>>

\* _encrypt_component: age writes the encrypted file and the source is removed.  The
\* digest is taken again, of what was encrypted: a copy that has rotted gets a good one.
EncryptFile(s) ==
    [copies EXCEPT
        !["encrypted"][s] = [copies["clear"][s] EXCEPT !.digest = IF @ = Rotten THEN runs ELSE @],
        !["clear"][s] = NoFile]

EncryptStore ==
    /\ run.step = "encrypt"
    /\ IF run.digest[CurrentStore] = 0
       THEN UNCHANGED <<copies, damaged>>
       ELSE /\ copies' = EncryptFile(CurrentStore)
            /\ damaged' = IF copies["clear"][CurrentStore].digest = Rotten
                          THEN damaged \cup {CurrentStore} ELSE damaged \ {CurrentStore}
    /\ run' = Proceed(run.digest[CurrentStore], "encrypt")
    /\ UNCHANGED <<live, manifest, runs>>

\* The manifest is the last file.
WriteManifest ==
    /\ run.step = "manifest"
    /\ manifest' = [state |-> "full", digest |-> run.digest]
    /\ run' = [run EXCEPT !.step = "idle"]
    /\ UNCHANGED <<live, copies, damaged, runs>>

\* age fails, the disk is full or the process dies: no manifest, or a torn one.
RunDies ==
    /\ run.step # "idle"
    /\ \/ UNCHANGED manifest
       \/ run.step = "manifest" /\ manifest' = [state |-> "torn", digest |-> NoDigests]
    /\ run' = [run EXCEPT !.step = "idle"]
    /\ UNCHANGED <<live, copies, damaged, runs>>

\* The run dies while it writes the file of a store, also over the one an earlier run had
\* left: the file is cut off, or age has removed it.
RunDiesWriting ==
    /\ run.step = "copying" \/ (run.step = "encrypt" /\ run.digest[CurrentStore] # 0)
    /\ LET form == IF run.step = "copying" THEN "clear" ELSE "encrypted"
       IN  \/ copies' = [copies EXCEPT ![form][CurrentStore] = NoFile]
           \/ /\ MayBeSpoilt(CurrentStore)
              /\ copies' = [copies EXCEPT ![form][CurrentStore].digest = Rotten]
    /\ run' = [run EXCEPT !.step = "idle"]
    /\ UNCHANGED <<live, damaged, manifest, runs>>

\* A file changes on the backup volume.
Rot ==
    /\ \E f \in {"clear", "encrypted"}, s \in Store :
         /\ copies[f][s].digest \notin {0, Rotten} /\ MayBeSpoilt(s)
         /\ copies' = [copies EXCEPT ![f][s].digest = Rotten]
    /\ UNCHANGED <<live, damaged, manifest, run, runs>>

BackupNext ==
    \/ \E d \in Documents : Ingest(d)
    \/ StartSnapshot \/ BeginCopy \/ EndCopy \/ CopyFails \/ EncryptStore
    \/ WriteManifest \/ RunDies \/ RunDiesWriting \/ Rot

BackupSpec == BackupInit /\ [][BackupNext]_backupVars

----------------------------------------------------------------------------
(* backup_integrity and restore_verify read the directory *)

\* The stores the manifest calls ok.
InManifest == {s \in Store : manifest.digest[s] # 0}

\* Mutant: a file that is there counts as intact.
AuditValid_Exists ==
    manifest.state = "full" /\ \A s \in InManifest : copies[KeptForm][s].digest # 0

\* audit_snapshot: only directories with a manifest are listed, and every file the
\* manifest calls ok has to have its digest and size.
AuditValid ==
    /\ manifest.state = "full"
    /\ \A s \in InManifest : copies[KeptForm][s].digest = manifest.digest[s]

\* A step of the drill for one component.  A rotten encrypted file does not decrypt and a
\* rotten tarball does not unpack; what PRAGMA integrity_check says is not looked at.
Unpacks(s) ==
    /\ copies[KeptForm][s].digest # 0
    /\ copies[KeptForm][s].digest = Rotten => s = "traces" /\ KeptForm = "clear"
    /\ s \in damaged => s = "traces"

\* verify_snapshot without --postgres-url, with the layout check at its end.
DrillPasses ==
    LET restored == InManifest \ {"postgres"}
    IN  manifest.state = "full" /\ restored # {} /\ \A s \in restored : Unpacks(s)

----------------------------------------------------------------------------
(* Properties *)

BackupTypeOK ==
    /\ live \in [Documents -> {"absent", "row", "file", "indexed"}]
    /\ copies \in [{"clear", "encrypted"} ->
                       [Store -> [docs : SUBSET Documents, digest : 0..Rotten]]]
    /\ damaged \subseteq Store
    /\ manifest \in [state : {"none", "torn", "full"}, digest : [Store -> 0..MaxRuns]]
    /\ run.step \in {"idle", "copy", "copying", "encrypt", "manifest"}
    /\ run.next \in 1..4 /\ runs \in 0..MaxRuns

\* In a snapshot that audits as valid every document of the index has its file, unless one
\* of the two had rotted before it was encrypted: uploads that are indexed while the
\* stores are being copied cannot leave the index ahead of the files, because the index
\* is copied before them (backup_snapshot.create_snapshot).
IndexedHaveFiles ==
    AuditValid /\ {"chroma", "uploads"} \subseteq InManifest \ damaged
        => copies[KeptForm]["chroma"].docs \subseteq copies[KeptForm]["uploads"].docs

\* With encryption on, a directory whose last run got as far as its manifest keeps no
\* store in clear that the manifest names, even when an earlier run for the directory
\* died between its copies and their encryption.
ListedIsEncrypted ==
    Encrypting /\ (\A s \in InManifest : manifest.digest[s] = runs)
        => \A s \in InManifest : copies["clear"][s].digest = 0

\* The two tools agree: a snapshot that audits as valid passes the restore drill, unless
\* no store but Postgres was copied, in which case the audit has nothing to compare, or a
\* tarball had rotted before it was encrypted, in which case its digest is the one of the
\* rotten file (_encrypt_component), and a clear snapshot has no such excuse.
ValidRestores ==
    AuditValid => \/ DrillPasses
                  \/ InManifest \subseteq {"postgres"}
                  \/ Encrypting /\ damaged \cap {"chroma", "uploads"} \cap InManifest # {}

\* A snapshot that audits as valid restores and its index has its files, but for what had
\* rotted before its encryption, and nothing it lists is left in clear (backup_snapshot,
\* backup_integrity, restore_verify).
BackupSafety ==
    /\ BackupTypeOK
    /\ IndexedHaveFiles
    /\ ListedIsEncrypted
    /\ ValidRestores
=============================================================================
