-------------------------- MODULE Operations_proofs --------------------------
(***************************************************************************)
(* Proofs about what runs beside the questions: the files behind ingestion *)
(* jobs, the tickets of escalations, the review of traces, snapshots,      *)
(* regression runs, the rollout of experiments, and mails and chats.       *)
(***************************************************************************)
EXTENDS JobObjects, Escalation, ReviewQueue, Backup, RegressionRuns, ExperimentRollout, Channels,
        FiniteSetTheorems, SequenceTheorems, TLAPS

----------------------------------------------------------------------------
(* JobObjects.                                                             *)

Classes == {"absent", "unrecorded", "retained_after_failed_transition", "retained"}

PreviewTypes ==
    preview \in [Previews -> [step : {"idle", "refs", "statuses", "reported"},
                              rows : SUBSET Uploads, failed : SUBSET Uploads,
                              report : [Uploads -> Classes]]]

\* Strengthening: what is on disk when an upload has come so far.
RowFirst == \A u \in Uploads : upload[u] # "start" => jobRow[u] # "none"

OriginalByPlace ==
    \A u \in Uploads :
        /\ upload[u] = "start" => original[u] = "none"
        /\ upload[u] \in {"placed", "read", "preserving", "syncing", "preserved", "done"}
              => original[u] = "full"

Writing == {"preserving", "syncing"}

HasRead == {"read", "preserving", "syncing", "preserved"}

\* An upload that writes a recovery object is the only one that does.
RecoveryByPlace ==
    \A u \in Uploads :
        /\ upload[u] \in HasRead => priorBytes[u] \in Contents
        /\ upload[u] = "preserving" => recovery[priorBytes[u]] = "partial"
        /\ upload[u] = "syncing" => recovery[priorBytes[u]] = "full"
        /\ upload[u] = "preserved" =>
              recovery[priorBytes[u]] = "full" \/ priorBytes[u] \in withdrawn
        /\ \A v \in Uploads : upload[u] \in Writing /\ upload[v] \in Writing /\ u # v
              => priorBytes[u] # priorBytes[v]

\* The bytes of the earlier version are never put back, so who has read the flat file while
\* it held them, or before, has read them.
LegacyIsRead ==
    flat = Legacy =>
        \A u \in Uploads : upload[u] \in HasRead => priorBytes[u] = Legacy

\* The upload that replaced them had read them, so their recovery object is relied on.
ServedAreKept ==
    /\ flat \in served
    /\ \A u \in served \cap Uploads : upload[u] = "done"
    /\ flat = Legacy \/ \E u \in Uploads : upload[u] = "done" /\ priorBytes[u] = Legacy
    /\ flat = Legacy \/ recovery[Legacy] = "full" \/ Legacy \in withdrawn

EmptyBeforeScan ==
    \A p \in Previews : preview[p].step # "reported" =>
        \A u \in Uploads : preview[p].report[u] = "absent"

ObjectsInv ==
    /\ ObjectsTypeOK /\ PreviewTypes
    /\ RowFirst /\ OriginalByPlace /\ RecoveryByPlace
    /\ LegacyIsRead /\ ServedAreKept
    /\ EmptyBeforeScan /\ UnrecordedHasRow
    /\ FailureNeedsFault

LEMMA ObjectsInitInv == ObjectsInit => ObjectsInv
  <1> SUFFICES ASSUME ObjectsInit PROVE ObjectsInv
    OBVIOUS
  <1>1. ObjectsTypeOK
    BY DEF ObjectsInit, ObjectsTypeOK, Contents
  <1>2. PreviewTypes
    BY DEF ObjectsInit, PreviewTypes, Classes
  <1>3. RowFirst /\ OriginalByPlace /\ RecoveryByPlace /\ LegacyIsRead /\ FailureNeedsFault
    BY DEF ObjectsInit, RowFirst, OriginalByPlace, RecoveryByPlace, LegacyIsRead, FailureNeedsFault,
           HasRead, Writing
  <1>4. ServedAreKept
    BY ObjectsAssumption DEF ObjectsInit, ServedAreKept
  <1>5. EmptyBeforeScan /\ UnrecordedHasRow
    BY DEF ObjectsInit, EmptyBeforeScan, UnrecordedHasRow
  <1>6. QED
    BY <1>1, <1>2, <1>3, <1>4, <1>5 DEF ObjectsInv

LEMMA OutcomeTypes ==
  ASSUME ObjectsTypeOK, RecoveryByPlace, NEW u \in Uploads, upload[u] = "read"
  PROVE  /\ priorBytes[u] \in Contents
         /\ RecoveryOutcome(priorBytes[u]) \in {"preserving", "preserved", "fail"}
         /\ RecoveryOutcome(priorBytes[u]) = "preserved" => recovery[priorBytes[u]] = "full"
         /\ RecoveryOutcome(priorBytes[u]) = "preserving" => recovery[priorBytes[u]] = "none"
         /\ RecoveryOutcome(priorBytes[u]) = "fail" => recovery[priorBytes[u]] = "partial"
  <1>1. priorBytes[u] \in Contents
    BY DEF RecoveryByPlace, HasRead
  <1>2. recovery[priorBytes[u]] \in {"none", "partial", "full"}
    BY <1>1 DEF ObjectsTypeOK
  <1>3. QED
    BY <1>1, <1>2 DEF RecoveryOutcome

LEMMA UploadTypes ==
  ASSUME ObjectsTypeOK, RecoveryByPlace, NEW u \in Uploads, UploadStep(u)
  PROVE  ObjectsTypeOK'
  <1> USE DEF ObjectsTypeOK, At, MoveTo
  <1>1. CASE CreateRow(u)
    BY <1>1 DEF CreateRow
  <1>2. CASE BeginOriginal(u)
    BY <1>2 DEF BeginOriginal
  <1>3. CASE EndOriginal(u)
    BY <1>3 DEF EndOriginal
  <1>4. CASE ReadFlat(u)
    BY <1>4 DEF ReadFlat
  <1>5. CASE BeginRecovery(u)
    BY <1>5, OutcomeTypes DEF BeginRecovery
  <1>6. CASE EndRecovery(u)
    BY <1>6 DEF EndRecovery
  <1>7. CASE ReplaceFlat(u)
    BY <1>7 DEF ReplaceFlat, Contents
  <1>8. CASE IOError(u)
    <2>1. priorBytes[u] \in Contents \/ UNCHANGED <<recovery, withdrawn>>
      BY <1>8 DEF IOError, RecoveryByPlace, HasRead
    <2> QED
      BY <1>8, <2>1 DEF IOError
  <1>9. CASE MarkUploadFailed(u)
    BY <1>9 DEF MarkUploadFailed
  <1>10. CASE UploadDies(u)
    BY <1>10 DEF UploadDies
  <1>11. CASE WriteRecovery(u)
    BY <1>11 DEF WriteRecovery
  <1>12. QED
    BY <1>1, <1>2, <1>3, <1>4, <1>5, <1>6, <1>7, <1>8, <1>9, <1>10, <1>11 DEF UploadStep

\* What an upload does to its own row and to the files.
LEMMA UploadKeepsRowFirst ==
  ASSUME ObjectsTypeOK, RecoveryByPlace, RowFirst, OriginalByPlace, NEW u \in Uploads,
         UploadStep(u)
  PROVE  RowFirst' /\ OriginalByPlace'
  <1> USE DEF ObjectsTypeOK, RowFirst, OriginalByPlace, At, MoveTo
  <1>1. CASE CreateRow(u)
    BY <1>1 DEF CreateRow
  <1>2. CASE BeginOriginal(u)
    BY <1>2 DEF BeginOriginal
  <1>3. CASE EndOriginal(u)
    BY <1>3 DEF EndOriginal
  <1>4. CASE ReadFlat(u)
    BY <1>4 DEF ReadFlat
  <1>5. CASE BeginRecovery(u)
    BY <1>5, OutcomeTypes DEF BeginRecovery
  <1>6. CASE EndRecovery(u)
    BY <1>6 DEF EndRecovery
  <1>7. CASE ReplaceFlat(u)
    BY <1>7 DEF ReplaceFlat
  <1>8. CASE IOError(u)
    BY <1>8 DEF IOError
  <1>9. CASE MarkUploadFailed(u)
    BY <1>9 DEF MarkUploadFailed
  <1>10. CASE UploadDies(u)
    BY <1>10 DEF UploadDies
  <1>11. CASE WriteRecovery(u)
    BY <1>11 DEF WriteRecovery
  <1>12. QED
    BY <1>1, <1>2, <1>3, <1>4, <1>5, <1>6, <1>7, <1>8, <1>9, <1>10, <1>11 DEF UploadStep

\* Recovery objects and the flat file.
LEMMA UploadKeepsRecovery ==
  ASSUME ObjectsTypeOK, RecoveryByPlace, LegacyIsRead, ServedAreKept, NEW u \in Uploads,
         UploadStep(u)
  PROVE  RecoveryByPlace' /\ LegacyIsRead' /\ ServedAreKept'
  <1> USE ObjectsAssumption
      DEF ObjectsTypeOK, RecoveryByPlace, LegacyIsRead, ServedAreKept, At, MoveTo, Contents,
          HasRead, Writing
  <1>1. CASE CreateRow(u)
    BY <1>1 DEF CreateRow
  <1>2. CASE BeginOriginal(u)
    BY <1>2 DEF BeginOriginal
  <1>3. CASE EndOriginal(u)
    BY <1>3 DEF EndOriginal
  <1>4. CASE ReadFlat(u)
    BY <1>4 DEF ReadFlat
  <1>5. CASE BeginRecovery(u)
    BY <1>5 DEF BeginRecovery, RecoveryOutcome
  <1>6. CASE EndRecovery(u)
    BY <1>6 DEF EndRecovery
  <1>7. CASE ReplaceFlat(u)
    BY <1>7 DEF ReplaceFlat
  <1>8. CASE IOError(u)
    BY <1>8 DEF IOError, Relied
  <1>9. CASE MarkUploadFailed(u)
    BY <1>9 DEF MarkUploadFailed
  <1>10. CASE UploadDies(u)
    BY <1>10 DEF UploadDies
  <1>11. CASE WriteRecovery(u)
    BY <1>11 DEF WriteRecovery
  <1>12. QED
    BY <1>1, <1>2, <1>3, <1>4, <1>5, <1>6, <1>7, <1>8, <1>9, <1>10, <1>11 DEF UploadStep

\* An upload fails for a reason, and reasons are not forgotten.
LEMMA UploadKeepsReasons ==
  ASSUME ObjectsTypeOK, RecoveryByPlace, FailureNeedsFault, NEW u \in Uploads, UploadStep(u)
  PROVE  FailureNeedsFault'
  <1> USE DEF ObjectsTypeOK, FailureNeedsFault, At, MoveTo
  <1>1. CASE BeginRecovery(u)
    BY <1>1, OutcomeTypes DEF BeginRecovery
  <1>2. CASE IOError(u)
    BY <1>2 DEF IOError
  <1>3. CASE MarkUploadFailed(u)
    BY <1>3 DEF MarkUploadFailed
  <1>4. CASE UploadDies(u)
    BY <1>4 DEF UploadDies
  <1>5. CASE CreateRow(u) \/ BeginOriginal(u) \/ EndOriginal(u) \/ ReadFlat(u)
             \/ WriteRecovery(u) \/ EndRecovery(u) \/ ReplaceFlat(u)
    BY <1>5 DEF CreateRow, BeginOriginal, EndOriginal, ReadFlat, WriteRecovery, EndRecovery,
                ReplaceFlat
  <1>6. QED
    BY <1>1, <1>2, <1>3, <1>4, <1>5 DEF UploadStep

\* No upload takes its row back, and none touches a preview.
LEMMA UploadKeepsPreviews ==
  ASSUME ObjectsTypeOK, EmptyBeforeScan, UnrecordedHasRow, PreviewTypes, NEW u \in Uploads,
         UploadStep(u)
  PROVE  PreviewTypes' /\ EmptyBeforeScan' /\ UnrecordedHasRow'
  <1>1. preview' = preview
    BY DEF UploadStep, CreateRow, BeginOriginal, EndOriginal, ReadFlat, BeginRecovery,
           WriteRecovery, EndRecovery, ReplaceFlat, IOError, MarkUploadFailed, UploadDies
  <1>2. \A v \in Uploads : jobRow[v] # "none" => jobRow'[v] # "none"
    BY DEF UploadStep, CreateRow, BeginOriginal, EndOriginal, ReadFlat, BeginRecovery,
           WriteRecovery, EndRecovery, ReplaceFlat, IOError, MarkUploadFailed, UploadDies, ObjectsTypeOK
  <1>3. QED
    BY <1>1, <1>2 DEF PreviewTypes, EmptyBeforeScan, UnrecordedHasRow

LEMMA PreviewStep ==
  ASSUME ObjectsInv, NEW p \in Previews,
         LoadRefs(p) \/ LoadStatuses(p) \/ ScanTree(p) \/ ExecuteRetention(p)
  PROVE  ObjectsInv'
  <1> USE DEF ObjectsInv
  <1>1. UNCHANGED <<upload, priorBytes, jobRow, recovery, withdrawn, flat, served, faults>>
    BY DEF LoadRefs, LoadStatuses, ScanTree, ExecuteRetention
  <1>2. original' = original
    BY DEF LoadRefs, LoadStatuses, ScanTree, ExecuteRetention, AutoDeleteCandidates, ObjectsTypeOK
  <1>3. ObjectsTypeOK' /\ RowFirst' /\ OriginalByPlace' /\ RecoveryByPlace' /\ LegacyIsRead'
        /\ ServedAreKept' /\ FailureNeedsFault'
    BY <1>1, <1>2 DEF ObjectsTypeOK, RowFirst, OriginalByPlace, RecoveryByPlace, LegacyIsRead,
                      ServedAreKept, FailureNeedsFault
  <1>4. CASE LoadRefs(p) \/ LoadStatuses(p)
    <2>1. PreviewTypes'
      BY <1>4 DEF LoadRefs, LoadStatuses, PreviewTypes
    <2>2. \A q \in Previews :
              /\ preview'[q].report = preview[q].report
              /\ q # p => preview'[q] = preview[q]
      BY <1>4 DEF LoadRefs, LoadStatuses, PreviewTypes
    <2>3. preview[p].step # "reported"
      BY <1>4 DEF LoadRefs, LoadStatuses
    <2>4. EmptyBeforeScan'
      BY <2>2, <2>3 DEF EmptyBeforeScan
    <2>5. UnrecordedHasRow'
      BY <1>1, <2>2, <2>3 DEF EmptyBeforeScan, UnrecordedHasRow
    <2>6. QED
      BY <1>3, <2>1, <2>4, <2>5
  <1>5. CASE ScanTree(p)
    <2>1. \A u \in Uploads :
              /\ Classify(p, u) \in Classes
              /\ Classify(p, u) = "unrecorded" => jobRow[u] # "none" /\ u \notin preview[p].rows
      BY DEF Classify, Classes, RowFirst, OriginalByPlace, ObjectsTypeOK
    <2>2. PreviewTypes'
      BY <1>5, <2>1 DEF ScanTree, PreviewTypes
    <2>3. EmptyBeforeScan' /\ UnrecordedHasRow'
      BY <1>1, <1>5, <2>1 DEF ScanTree, PreviewTypes, EmptyBeforeScan, UnrecordedHasRow
    <2>4. QED
      BY <1>3, <2>2, <2>3
  <1>6. CASE ExecuteRetention(p)
    <2>1. PreviewTypes'
      BY <1>6 DEF ExecuteRetention, PreviewTypes, Classes
    <2>2. EmptyBeforeScan' /\ UnrecordedHasRow'
      BY <1>1, <1>6 DEF ExecuteRetention, PreviewTypes, EmptyBeforeScan, UnrecordedHasRow
    <2>3. QED
      BY <1>3, <2>1, <2>2
  <1>7. QED
    BY <1>4, <1>5, <1>6

LEMMA ObjectsStep == ObjectsInv /\ [ObjectsNext]_objectVars => ObjectsInv'
  <1> SUFFICES ASSUME ObjectsInv, [ObjectsNext]_objectVars PROVE ObjectsInv'
    OBVIOUS
  <1>1. ASSUME NEW u \in Uploads, UploadStep(u) PROVE ObjectsInv'
    BY <1>1, UploadTypes, UploadKeepsRowFirst, UploadKeepsRecovery, UploadKeepsReasons,
       UploadKeepsPreviews DEF ObjectsInv
  <1>2. CASE UNCHANGED objectVars
    BY <1>2 DEF objectVars, ObjectsInv, ObjectsTypeOK, PreviewTypes, RowFirst, OriginalByPlace,
       RecoveryByPlace, LegacyIsRead, ServedAreKept, EmptyBeforeScan, UnrecordedHasRow,
       FailureNeedsFault
  <1>3. QED
    BY <1>1, <1>2, PreviewStep DEF ObjectsNext

\* No bytes that the flat file ever held are lost, unless a recovery object was withdrawn under
\* an upload that relied on it, and no preview shows a file without a row, for every set of
\* uploads and previews.
THEOREM ObjectsAreKept == ObjectsSpec => []ObjectsSafety
  <1>1. ObjectsInv => ObjectsSafety
    <2> SUFFICES ASSUME ObjectsInv PROVE ObjectsSafety
      OBVIOUS
    <2>1. BytesKept
      BY DEF ObjectsInv, BytesKept, ServedAreKept, OriginalByPlace, ObjectsTypeOK, Contents
    <2>2. QED
      BY <2>1 DEF ObjectsInv, ObjectsSafety
  <1>2. QED
    BY <1>1, ObjectsInitInv, ObjectsStep, PTL DEF ObjectsSpec

----------------------------------------------------------------------------
(* Escalation.                                                             *)

EscalatorSteps == {"new", "insert", "deliver", "record", "duplicate", "refused", "lost",
                   "delivered", "failed"}

WorkerTypes ==
    /\ escalator \in [Escalators -> [key : Keys, step : EscalatorSteps, outcome : States]]
    /\ pass \in [Passes -> [step : {"idle", "check", "deliver", "record"}, listed : SUBSET Keys,
                            read : States, outcome : States]]

TicketTypes ==
    /\ tickets \in [Keys -> States \cup {NoTicket}]
    /\ resolved \in SUBSET Keys
    /\ inbox \in [Keys -> 0..MaxRecords]
    /\ disturbed \in SUBSET Keys

\* Strengthening: a pass at work has one ticket in hand, which was not delivered when it
\* read its row, and who records has an outcome.
OneInHand ==
    /\ \A p \in Passes :
          /\ pass[p].step = "idle" => pass[p].listed = {}
          /\ pass[p].step # "idle" => pass[p].listed = {Hands(p)} /\ Hands(p) \in Keys
          /\ pass[p].step \in {"deliver", "record"} => pass[p].read \in {"failed", "pending"}
          /\ pass[p].step = "record" => pass[p].outcome \in {"delivered", "failed"}
    /\ \A e \in Escalators :
          escalator[e].step = "record" => escalator[e].outcome \in {"delivered", "failed"}

\* Someone is about to write that the ticket was delivered.
Delivering(k) ==
    \/ \E e \in Escalators : /\ escalator[e].key = k /\ escalator[e].step = "record"
                              /\ escalator[e].outcome = "delivered"
    \/ \E p \in Passes : /\ pass[p].listed = {k} /\ pass[p].step = "record"
                          /\ pass[p].outcome = "delivered"

\* A ticket that nobody disturbed reached the inbox at most once, and from then on either
\* its row says so and nobody has it in hand, or someone is about to write it.
ReachedOnce ==
    \A k \in Keys \ disturbed :
        /\ inbox[k] <= 1
        /\ inbox[k] > 0 => (tickets[k] = "delivered" /\ Holders(k) = {}) \/ Delivering(k)

\* What says delivered, or is about to, has a record, unless the sink hides its failures.
DeliveredReached ==
    /\ DeliveredIsInInbox
    /\ \A k \in Keys : Delivering(k) => inbox[k] > 0

EscalationInv ==
    /\ WorkerTypes /\ TicketTypes
    /\ OneInHand /\ OneTicketPerKey
    /\ ReachedOnce
    /\ Backend = "local" => DeliveredReached

LEMMA EscalationInitInv == EscalationInit => EscalationInv
  <1> SUFFICES ASSUME EscalationInit PROVE EscalationInv
    OBVIOUS
  <1>1. WorkerTypes
    BY DEF EscalationInit, WorkerTypes, EscalatorSteps, States
  <1>2. TicketTypes
    BY EscalationAssumption DEF EscalationInit, TicketTypes
  <1>3. /\ \A e \in Escalators : escalator[e].step = "new"
        /\ \A p \in Passes : pass[p].step = "idle" /\ pass[p].listed = {}
    BY DEF EscalationInit
  <1>4. OneInHand /\ OneTicketPerKey
    BY <1>3 DEF OneInHand, OneTicketPerKey
  <1>5. ReachedOnce
    BY DEF EscalationInit, ReachedOnce
  <1>6. DeliveredReached
    BY <1>3 DEF EscalationInit, DeliveredReached, DeliveredIsInInbox, Delivering, NoTicket
  <1>7. QED
    BY <1>1, <1>2, <1>4, <1>5, <1>6 DEF EscalationInv

\* Two who have a ticket in hand are counted as two.
LEMMA TwoHolders ==
  ASSUME NEW k, NEW x \in Holders(k), NEW y \in Holders(k), x # y
  PROVE  Cardinality(Holders(k)) > 1
  <1>1. Holders(k) \subseteq Escalators \cup Passes
    BY DEF Holders
  <1>2. IsFiniteSet(Holders(k)) /\ Cardinality(Holders(k)) \in Nat
    BY <1>1, EscalationAssumption, FS_Subset, FS_CardinalityType
  <1>3. Cardinality({}) = 0 /\ IsFiniteSet({})
    BY FS_EmptySet
  <1>4. Cardinality({x}) = 1 /\ IsFiniteSet({x})
    BY FS_Singleton
  <1>5. Cardinality({x} \cup {y}) = 2
    BY <1>4, FS_AddElement
  <1>6. Cardinality({x} \cup {y}) <= Cardinality(Holders(k))
    BY <1>2, FS_Subset
  <1>7. QED
    BY <1>2, <1>5, <1>6

\* A delivery or a record that does not disturb was made by the only holder.
LEMMA OnlyHolder ==
  ASSUME NEW k, NEW x \in Holders(k), Overlap(k)
  PROVE  /\ disturbed \subseteq disturbed' /\ disturbed' \subseteq disturbed \cup {k}
         /\ k \notin disturbed' => Holders(k) = {x}
  <1>1. disturbed \subseteq disturbed' /\ disturbed' \subseteq disturbed \cup {k}
    BY DEF Overlap
  <1>2. ASSUME k \notin disturbed', NEW y \in Holders(k), x # y PROVE FALSE
    BY <1>2, TwoHolders DEF Overlap
  <1>3. QED
    BY <1>1, <1>2

\* Steps that leave rows and inbox alone, and take no ticket in hand.
LEMMA QuietStep ==
  ASSUME ReachedOnce, tickets' = tickets, inbox' = inbox, disturbed \subseteq disturbed',
         \A k \in Keys \ disturbed' : /\ Holders(k)' \subseteq Holders(k)
                                      /\ Delivering(k) => Delivering(k)'
  PROVE  ReachedOnce'
  BY DEF ReachedOnce

LEMMA Moves ==
  ASSUME WorkerTypes, NEW e \in Escalators, NEW s \in EscalatorSteps, Escalates(e, s)
  PROVE  /\ escalator' \in [Escalators -> [key : Keys, step : EscalatorSteps, outcome : States]]
         /\ escalator'[e].key = escalator[e].key
         /\ escalator'[e].step = s
         /\ escalator'[e].outcome = escalator[e].outcome
         /\ \A f \in Escalators : f # e => escalator'[f] = escalator[f]
  BY DEF WorkerTypes, Escalates

\* A request looks up its key, or gives up.
LEMMA LookUpStep ==
  ASSUME EscalationInv, NEW e \in Escalators, LookUpKey(e) \/ LookupSkipped(e) \/ DatabaseFails(e)
  PROVE  EscalationInv'
  <1> USE DEF EscalationInv
  <1>1. PICK s \in {"duplicate", "insert", "refused"} :
            /\ Escalates(e, s) /\ escalator[e].step \in {"new", "insert"}
            /\ s = "duplicate" => tickets[escalator[e].key] # NoTicket
            /\ UNCHANGED <<tickets, resolved, inbox, pass, disturbed>>
    BY DEF LookUpKey, LookupSkipped, DatabaseFails
  <1>2. /\ escalator' \in [Escalators -> [key : Keys, step : EscalatorSteps, outcome : States]]
        /\ escalator'[e].key = escalator[e].key
        /\ escalator'[e].step = s
        /\ \A f \in Escalators : f # e => escalator'[f] = escalator[f]
    BY <1>1, Moves DEF EscalatorSteps
  <1>3. WorkerTypes' /\ TicketTypes'
    BY <1>1, <1>2 DEF WorkerTypes, TicketTypes
  <1>4. OneInHand'
    BY <1>1, <1>2 DEF OneInHand, Hands
  <1>5. OneTicketPerKey'
    BY <1>1, <1>2 DEF OneTicketPerKey
  <1>6. \A k \in Keys : /\ Holders(k)' \subseteq Holders(k)
                        /\ Delivering(k) <=> Delivering(k)'
    BY <1>1, <1>2 DEF Holders, Delivering
  <1>7. ReachedOnce'
    BY <1>1, <1>6, QuietStep
  <1>8. DeliveredReached => DeliveredReached'
    BY <1>1, <1>2, <1>6 DEF DeliveredReached, DeliveredIsInInbox
  <1>9. QED
    BY <1>3, <1>4, <1>5, <1>7, <1>8

\* The row is inserted, or the key is taken.
LEMMA InsertStep ==
  ASSUME EscalationInv, NEW e \in Escalators, InsertTicket(e)
  PROVE  EscalationInv'
  <1> USE DEF EscalationInv
  <1> DEFINE k == escalator[e].key
  <1>1. /\ escalator[e].step = "insert" /\ k \in Keys
        /\ UNCHANGED <<resolved, inbox, pass, disturbed>>
    BY DEF InsertTicket, WorkerTypes
  <1>2. CASE KeyTaken(k)
    <2>1. Escalates(e, "refused") /\ tickets' = tickets
      BY <1>2 DEF InsertTicket
    <2>2. DatabaseFails(e)
      BY <1>1, <2>1 DEF DatabaseFails
    <2>3. QED
      BY <2>2, LookUpStep
  <1>3. CASE ~KeyTaken(k)
    <2>1. /\ Escalates(e, "deliver") /\ tickets[k] = NoTicket
          /\ tickets' = [tickets EXCEPT ![k] = "pending"]
      BY <1>3 DEF InsertTicket, KeyTaken
    <2>2. /\ escalator' \in [Escalators -> [key : Keys, step : EscalatorSteps, outcome : States]]
          /\ escalator'[e].key = k
          /\ escalator'[e].step = "deliver"
          /\ \A f \in Escalators : f # e => escalator'[f] = escalator[f]
      BY <2>1, Moves DEF EscalatorSteps
    <2>3. WorkerTypes' /\ TicketTypes'
      BY <1>1, <2>1, <2>2 DEF WorkerTypes, TicketTypes, States
    <2>4. OneInHand'
      BY <1>1, <2>2 DEF OneInHand, Hands
    <2>5. \A f \in Escalators : f # e /\ escalator[f].key = k =>
              escalator[f].step \in {"new", "insert", "refused"}
      BY <2>1 DEF OneTicketPerKey, WorkerTypes, EscalatorSteps
    <2>6. \A j \in Keys : tickets'[j] = NoTicket => tickets[j] = NoTicket /\ j # k
      BY <1>1, <2>1 DEF TicketTypes, NoTicket
    <2>7. OneTicketPerKey'
      <3>1. ASSUME NEW f \in Escalators,
                   escalator'[f].step \in {"deliver", "record", "duplicate", "delivered",
                                           "failed", "lost"}
            PROVE  tickets'[escalator'[f].key] # NoTicket
        BY <1>1, <2>2, <2>6, <3>1 DEF OneTicketPerKey, WorkerTypes
      <3>2. ASSUME NEW f \in Escalators, NEW g \in Escalators, f # g,
                   escalator'[f].key = escalator'[g].key,
                   escalator'[f].step \in {"deliver", "record", "delivered", "failed", "lost"}
            PROVE  escalator'[g].step \in {"new", "insert", "duplicate", "refused"}
        <4>1. CASE f = e
          BY <2>2, <2>5, <3>2, <4>1
        <4>2. CASE g = e
          BY <2>2, <2>5, <3>2, <4>2
        <4>3. CASE f # e /\ g # e
          BY <2>2, <3>2, <4>3 DEF OneTicketPerKey
        <4>4. QED
          BY <4>1, <4>2, <4>3
      <3>3. QED
        BY <3>1, <3>2 DEF OneTicketPerKey
    <2>8. \A j \in Keys : /\ Delivering(j) <=> Delivering(j)'
                          /\ j # k => Holders(j)' = Holders(j) /\ tickets'[j] = tickets[j]
      BY <1>1, <2>1, <2>2 DEF Delivering, Holders, TicketTypes
    <2>9. ReachedOnce'
      <3>1. tickets[k] # "delivered"
        BY <2>1 DEF NoTicket
      <3>2. QED
        BY <1>1, <2>8, <3>1 DEF ReachedOnce
    <2>10. DeliveredReached => DeliveredReached'
      <3>1. \A j \in Keys : tickets'[j] = "delivered" => tickets[j] = "delivered"
        BY <1>1, <2>1 DEF TicketTypes
      <3>2. \A f \in Escalators : escalator'[f].step = "delivered" =>
                escalator[f].step = "delivered" /\ escalator'[f].key = escalator[f].key
        BY <2>2
      <3>3. QED
        BY <1>1, <2>8, <3>1, <3>2 DEF DeliveredReached, DeliveredIsInInbox
    <2>11. QED
      BY <2>3, <2>4, <2>7, <2>9, <2>10
  <1>4. QED
    BY <1>2, <1>3

\* What a sink did: a record that was deposited is reported as delivered, and where the
\* sink does not hide its failures nothing else is.
LEMMA SinkIsTold ==
  ASSUME NEW o \in SinkOutcomes
  PROVE  /\ o.reached \in BOOLEAN /\ o.state \in {"delivered", "failed"}
         /\ o.reached => o.state = "delivered"
         /\ Backend = "local" /\ o.state = "delivered" => o.reached
  <1>1. CASE Backend = "local"
    <2>1. \/ o = [reached |-> TRUE, state |-> "delivered"]
          \/ o = [reached |-> FALSE, state |-> "failed"]
      BY <1>1 DEF SinkOutcomes
    <2>2. CASE o = [reached |-> TRUE, state |-> "delivered"]
      BY <2>2
    <2>3. CASE o = [reached |-> FALSE, state |-> "failed"]
      BY <2>3
    <2>4. QED
      BY <2>1, <2>2, <2>3
  <1>2. CASE Backend # "local"
    <2>1. PICK r \in BOOLEAN : o = [reached |-> r, state |-> "delivered"]
      BY <1>2 DEF SinkOutcomes
    <2>2. QED
      BY <1>2, <2>1
  <1>3. QED
    BY <1>1, <1>2

LEMMA DepositAdds ==
  ASSUME TicketTypes, NEW k \in Keys, NEW o \in SinkOutcomes, Deposit(k, o)
  PROVE  /\ inbox' \in [Keys -> 0..MaxRecords]
         /\ o.reached => inbox'[k] = inbox[k] + 1
         /\ ~o.reached => inbox'[k] = inbox[k]
         /\ \A j \in Keys : j # k => inbox'[j] = inbox[j]
         /\ \A j \in Keys : inbox[j] \in Nat /\ (inbox[j] > 0 => inbox'[j] > 0)
  BY SinkIsTold, EscalationAssumption DEF Deposit, TicketTypes

\* A delivery by x, who had the ticket in hand without having delivered it.
LEMMA DeliveryReaches ==
  ASSUME EscalationInv, NEW k \in Keys, NEW x \in Holders(k), NEW o \in SinkOutcomes,
         Deposit(k, o), Overlap(k), tickets' = tickets,
         \A j \in Keys : /\ Holders(j)' = Holders(j)
                         /\ Delivering(j) => Delivering(j)'
                         /\ j # k => (Delivering(j)' => Delivering(j)),
         Holders(k) = {x} => ~Delivering(k),
         o.state = "delivered" => Delivering(k)',
         Delivering(k)' => Delivering(k) \/ o.state = "delivered"
  PROVE  /\ ReachedOnce'
         /\ Backend = "local" /\ DeliveredReached =>
               \A j \in Keys : /\ tickets'[j] = "delivered" => inbox'[j] > 0
                               /\ Delivering(j)' => inbox'[j] > 0
  <1> USE DEF EscalationInv
  <1>1. ASSUME NEW j \in Keys \ disturbed'
        PROVE  /\ inbox'[j] <= 1
               /\ inbox'[j] > 0 => (tickets'[j] = "delivered" /\ Holders(j)' = {}) \/ Delivering(j)'
    <2>1. j \notin disturbed
      BY <1>1, OnlyHolder
    <2>2. CASE j # k
      BY <2>1, <2>2, DepositAdds DEF ReachedOnce
    <2>3. CASE j = k
      <3>1. Holders(k) = {x} /\ ~Delivering(k)
        BY <1>1, <2>3, OnlyHolder
      <3>2. inbox[k] = 0
        BY <2>1, <2>3, <3>1, DepositAdds DEF ReachedOnce
      <3>3. QED
        BY <2>3, <3>2, DepositAdds, SinkIsTold
    <2>4. QED
      BY <2>2, <2>3
  <1>2. ReachedOnce'
    BY <1>1 DEF ReachedOnce
  <1>3. ASSUME Backend = "local", DeliveredReached, NEW j \in Keys
        PROVE  /\ tickets'[j] = "delivered" => inbox'[j] > 0
               /\ Delivering(j)' => inbox'[j] > 0
    <2>1. tickets'[j] = "delivered" => inbox'[j] > 0
      BY <1>3, DepositAdds DEF DeliveredReached, DeliveredIsInInbox
    <2>2. CASE Delivering(j)
      BY <1>3, <2>2, DepositAdds DEF DeliveredReached
    <2>3. CASE ~Delivering(j) /\ Delivering(j)'
      <3>1. j = k /\ o.reached
        BY <1>3, <2>3, SinkIsTold
      <3>2. QED
        BY <3>1, DepositAdds
    <2>4. QED
      BY <2>1, <2>2, <2>3
  <1>4. QED
    BY <1>2, <1>3

LEMMA DeliverStep ==
  ASSUME EscalationInv, NEW e \in Escalators, DeliverTicket(e)
  PROVE  EscalationInv'
  <1> USE DEF EscalationInv
  <1>0. PICK k \in Keys : k = escalator[e].key
    BY DEF WorkerTypes
  <1>1. PICK o \in SinkOutcomes :
            /\ Deposit(k, o)
            /\ escalator' = [escalator EXCEPT ![e].step = "record", ![e].outcome = o.state]
    BY <1>0 DEF DeliverTicket
  <1>2. /\ escalator[e].step = "deliver" /\ Overlap(k)
        /\ UNCHANGED <<tickets, resolved, pass>>
    BY <1>0 DEF DeliverTicket
  <1>3. /\ escalator' \in [Escalators -> [key : Keys, step : EscalatorSteps, outcome : States]]
        /\ escalator'[e].key = k
        /\ escalator'[e].step = "record"
        /\ escalator'[e].outcome = o.state
        /\ \A f \in Escalators : f # e => escalator'[f] = escalator[f]
    <2>1. o.state \in States /\ "record" \in EscalatorSteps
      BY SinkIsTold DEF EscalatorSteps, States
    <2>2. PICK out \in States : out = o.state
      BY <2>1
    <2>3. /\ escalator \in [Escalators -> [key : Keys, step : EscalatorSteps, outcome : States]]
          /\ escalator' = [escalator EXCEPT ![e] = [escalator[e] EXCEPT !.step = "record", !.outcome = out]]
      BY <1>1, <2>2 DEF WorkerTypes
    <2>4. PICK r : r = [escalator[e] EXCEPT !.step = "record", !.outcome = out]
      OBVIOUS
    <2>5. /\ r \in [key : Keys, step : EscalatorSteps, outcome : States]
          /\ r.key = k /\ r.step = "record" /\ r.outcome = out
      BY <1>0, <2>1, <2>3, <2>4
    <2>6. escalator' = [escalator EXCEPT ![e] = r]
      BY <2>3, <2>4
    <2>7. escalator'[e] = r /\ \A f \in Escalators : f # e => escalator'[f] = escalator[f]
      BY <2>3, <2>6
    <2>8. escalator' \in [Escalators -> [key : Keys, step : EscalatorSteps, outcome : States]]
      BY <2>3, <2>5, <2>6
    <2>9. QED
      BY <2>2, <2>5, <2>7, <2>8
  <1>4. WorkerTypes' /\ TicketTypes'
    <2>1. disturbed' \in SUBSET Keys
      BY <1>2 DEF Overlap, TicketTypes
    <2>2. QED
      BY <1>1, <1>2, <1>3, <2>1, DepositAdds DEF WorkerTypes, TicketTypes
  <1>5. OneInHand'
    BY <1>2, <1>3, SinkIsTold DEF OneInHand, Hands
  <1>6. OneTicketPerKey'
    BY <1>0, <1>2, <1>3 DEF OneTicketPerKey
  <1>7. e \in Holders(k)
    BY <1>0, <1>2 DEF Holders
  <1>8. \A j \in Keys : /\ Holders(j)' = Holders(j)
                        /\ Delivering(j) => Delivering(j)'
                        /\ j # k => (Delivering(j)' => Delivering(j))
    BY <1>0, <1>2, <1>3 DEF Holders, Delivering
  <1>9. /\ o.state = "delivered" => Delivering(k)'
        /\ Delivering(k)' => Delivering(k) \/ o.state = "delivered"
    BY <1>0, <1>2, <1>3 DEF Delivering
  <1>10. Holders(k) = {e} => ~Delivering(k)
    <2>1. ASSUME Delivering(k) PROVE \E x \in Holders(k) : x # e
      <3>1. CASE \E f \in Escalators : /\ escalator[f].key = k /\ escalator[f].step = "record"
        BY <1>2, <3>1 DEF Holders
      <3>2. CASE \E p \in Passes : pass[p].listed = {k} /\ pass[p].step = "record"
        BY <3>2, EscalationAssumption DEF Holders
      <3>3. QED
        BY <2>1, <3>1, <3>2 DEF Delivering
    <2>2. QED
      BY <2>1
  <1>11. /\ ReachedOnce'
         /\ Backend = "local" /\ DeliveredReached =>
               \A j \in Keys : /\ tickets'[j] = "delivered" => inbox'[j] > 0
                               /\ Delivering(j)' => inbox'[j] > 0
    BY <1>1, <1>2, <1>7, <1>8, <1>9, <1>10, DeliveryReaches
  <1>12. Backend = "local" => DeliveredReached'
    <2>1. \A f \in Escalators : escalator'[f].step = "delivered" =>
              escalator[f].step = "delivered" /\ escalator'[f].key = escalator[f].key
      BY <1>3
    <2>2. \A j \in Keys : inbox[j] > 0 => inbox'[j] > 0
      BY <1>1, <1>2, DepositAdds
    <2>3. \A f \in Escalators : escalator[f].key \in Keys
      BY DEF WorkerTypes
    <2>4. QED
      BY <1>11, <2>1, <2>2, <2>3 DEF DeliveredReached, DeliveredIsInInbox
  <1>13. QED
    BY <1>4, <1>5, <1>6, <1>11, <1>12

\* The row is written by x, who had the ticket in hand and has it no longer.
LEMMA RecordIsKept ==
  ASSUME EscalationInv, NEW k \in Keys, NEW x \in Holders(k), Overlap(k), inbox' = inbox,
         \A j \in Keys : /\ Delivering(j)' => Delivering(j)
                         /\ j # k => /\ Holders(j)' = Holders(j) /\ tickets'[j] = tickets[j]
                                     /\ Delivering(j) => Delivering(j)',
         Holders(k) = {x} => Holders(k)' = {} /\ (Delivering(k) => tickets'[k] = "delivered"),
         tickets'[k] = "delivered" => tickets[k] = "delivered" \/ Delivering(k)
  PROVE  /\ ReachedOnce'
         /\ Backend = "local" /\ DeliveredReached =>
               \A j \in Keys : /\ tickets'[j] = "delivered" => inbox'[j] > 0
                               /\ Delivering(j)' => inbox'[j] > 0
  <1> USE DEF EscalationInv
  <1>1. ASSUME NEW j \in Keys \ disturbed'
        PROVE  /\ inbox'[j] <= 1
               /\ inbox'[j] > 0 => (tickets'[j] = "delivered" /\ Holders(j)' = {}) \/ Delivering(j)'
    <2>1. j \notin disturbed
      BY <1>1, OnlyHolder
    <2>2. CASE j # k
      BY <2>1, <2>2 DEF ReachedOnce
    <2>3. CASE j = k
      <3>1. Holders(k) = {x}
        BY <1>1, <2>3, OnlyHolder
      <3>2. inbox[k] > 0 => Delivering(k)
        BY <2>1, <2>3 DEF ReachedOnce
      <3>3. QED
        BY <2>1, <2>3, <3>1, <3>2 DEF ReachedOnce
    <2>4. QED
      BY <2>2, <2>3
  <1>2. ReachedOnce'
    BY <1>1 DEF ReachedOnce
  <1>3. ASSUME Backend = "local", DeliveredReached, NEW j \in Keys
        PROVE  /\ tickets'[j] = "delivered" => inbox'[j] > 0
               /\ Delivering(j)' => inbox'[j] > 0
    <2>1. Delivering(j) \/ tickets[j] = "delivered" => inbox[j] > 0
      BY <1>3 DEF DeliveredReached, DeliveredIsInInbox
    <2>2. QED
      BY <2>1
  <1>4. QED
    BY <1>2, <1>3

LEMMA RecordStep ==
  ASSUME EscalationInv, NEW e \in Escalators, RecordDelivery(e)
  PROVE  EscalationInv'
  <1> USE DEF EscalationInv
  <1>0. PICK k \in Keys : k = escalator[e].key
    BY DEF WorkerTypes
  <1>1. PICK s \in {"delivered", "failed"} : s = escalator[e].outcome
    BY DEF RecordDelivery, OneInHand
  <1>2. /\ escalator[e].step = "record" /\ Overlap(k) /\ Escalates(e, s)
        /\ tickets' = [tickets EXCEPT ![k] = s]
        /\ UNCHANGED <<resolved, inbox, pass>>
    BY <1>0, <1>1 DEF RecordDelivery
  <1>3. /\ escalator' \in [Escalators -> [key : Keys, step : EscalatorSteps, outcome : States]]
        /\ escalator'[e].key = k
        /\ escalator'[e].step = s
        /\ \A f \in Escalators : f # e => escalator'[f] = escalator[f]
    BY <1>0, <1>2, Moves DEF EscalatorSteps
  <1>4. WorkerTypes' /\ TicketTypes'
    <2>1. disturbed' \in SUBSET Keys
      BY <1>2 DEF Overlap, TicketTypes
    <2>2. QED
      BY <1>2, <1>3, <2>1 DEF WorkerTypes, TicketTypes, States
  <1>5. OneInHand'
    BY <1>2, <1>3 DEF OneInHand, Hands
  <1>6. OneTicketPerKey'
    <2>1. \A j \in Keys : tickets[j] # NoTicket => tickets'[j] # NoTicket
      BY <1>2 DEF TicketTypes, NoTicket
    <2>2. \A f \in Escalators : escalator[f].key \in Keys /\ escalator'[f].key = escalator[f].key
      BY <1>0, <1>3 DEF WorkerTypes
    <2>3. \A f \in Escalators : f # e => escalator'[f].step = escalator[f].step
      BY <1>3
    <2>4. QED
      BY <1>2, <1>3, <2>1, <2>2, <2>3 DEF OneTicketPerKey
  <1>7. e \in Holders(k)
    BY <1>0, <1>2 DEF Holders
  <1>8. \A j \in Keys : /\ Delivering(j)' => Delivering(j)
                        /\ j # k => /\ Holders(j)' = Holders(j) /\ tickets'[j] = tickets[j]
                                    /\ Delivering(j) => Delivering(j)'
    BY <1>0, <1>2, <1>3 DEF Holders, Delivering, TicketTypes
  <1>9. Holders(k) = {e} => Holders(k)' = {}
    <2>1. Holders(k)' \subseteq Holders(k)
      BY <1>0, <1>2, <1>3 DEF Holders
    <2>2. e \notin Holders(k)'
      BY <1>3, EscalationAssumption DEF Holders
    <2>3. QED
      BY <2>1, <2>2
  <1>10. Holders(k) = {e} /\ Delivering(k) => tickets'[k] = "delivered"
    <2>1. ASSUME NEW f \in Escalators, escalator[f].key = k, escalator[f].step = "record"
          PROVE  f \in Holders(k)
      BY <2>1 DEF Holders
    <2>2. ASSUME NEW p \in Passes, pass[p].listed = {k}, pass[p].step = "record",
                 Holders(k) = {e}
          PROVE  FALSE
      BY <2>2, EscalationAssumption DEF Holders
    <2>3. tickets'[k] = s
      BY <1>2 DEF TicketTypes
    <2>4. QED
      BY <1>1, <2>1, <2>2, <2>3 DEF Delivering
  <1>11. tickets'[k] = "delivered" => Delivering(k)
    BY <1>0, <1>1, <1>2 DEF Delivering, TicketTypes
  <1>12. /\ ReachedOnce'
         /\ Backend = "local" /\ DeliveredReached =>
               \A j \in Keys : /\ tickets'[j] = "delivered" => inbox'[j] > 0
                               /\ Delivering(j)' => inbox'[j] > 0
    BY <1>2, <1>7, <1>8, <1>9, <1>10, <1>11, RecordIsKept
  <1>13. Backend = "local" => DeliveredReached'
    <2>1. ASSUME Backend = "local", NEW f \in Escalators, escalator'[f].step = "delivered"
          PROVE  inbox'[escalator'[f].key] > 0
      <3>1. CASE f = e
        BY <1>0, <1>1, <1>2, <1>3, <2>1, <3>1 DEF DeliveredReached, Delivering
      <3>2. CASE f # e
        BY <1>2, <1>3, <2>1, <3>2 DEF DeliveredReached, DeliveredIsInInbox
      <3>3. QED
        BY <3>1, <3>2
    <2>2. QED
      BY <1>12, <2>1 DEF DeliveredReached, DeliveredIsInInbox
  <1>14. QED
    BY <1>4, <1>5, <1>6, <1>12, <1>13

LEMMA LoseEscalatorStep ==
  ASSUME EscalationInv, NEW e \in Escalators, LoseEscalator(e)
  PROVE  EscalationInv'
  <1> USE DEF EscalationInv
  <1>0. PICK k \in Keys : k = escalator[e].key
    BY DEF WorkerTypes
  <1>1. /\ escalator[e].step \in {"deliver", "record"} /\ Escalates(e, "lost")
        /\ disturbed' = IF escalator[e].step = "record" THEN disturbed \cup {k} ELSE disturbed
        /\ UNCHANGED <<tickets, resolved, inbox, pass>>
    BY <1>0 DEF LoseEscalator
  <1>2. /\ escalator' \in [Escalators -> [key : Keys, step : EscalatorSteps, outcome : States]]
        /\ escalator'[e].key = k
        /\ escalator'[e].step = "lost"
        /\ \A f \in Escalators : f # e => escalator'[f] = escalator[f]
    BY <1>0, <1>1, Moves DEF EscalatorSteps
  <1>3. WorkerTypes' /\ TicketTypes'
    BY <1>1, <1>2 DEF WorkerTypes, TicketTypes
  <1>4. OneInHand'
    BY <1>1, <1>2 DEF OneInHand, Hands
  <1>5. OneTicketPerKey'
    BY <1>0, <1>1, <1>2 DEF OneTicketPerKey
  <1>6. \A j \in Keys : /\ Holders(j)' \subseteq Holders(j) /\ (Delivering(j)' => Delivering(j))
    BY <1>0, <1>1, <1>2 DEF Holders, Delivering
  <1>7. \A j \in Keys \ disturbed' : Delivering(j) => Delivering(j)'
    BY <1>0, <1>1, <1>2 DEF Delivering
  <1>8. ReachedOnce'
    <2>1. disturbed \subseteq disturbed'
      BY <1>1
    <2>2. QED
      BY <1>1, <1>6, <1>7, <2>1, QuietStep
  <1>9. DeliveredReached => DeliveredReached'
    BY <1>1, <1>2, <1>6 DEF DeliveredReached, DeliveredIsInInbox
  <1>10. QED
    BY <1>3, <1>4, <1>5, <1>8, <1>9

LEMMA InHand ==
  ASSUME NEW p \in Passes, NEW k, pass[p].listed = {k}
  PROVE  Hands(p) = k
  <1>1. \E j \in pass[p].listed : TRUE
    OBVIOUS
  <1>2. Hands(p) \in pass[p].listed
    BY <1>1 DEF Hands
  <1>3. QED
    BY <1>2

\* What a pass does to its own record.
LEMMA PassMoves ==
  ASSUME WorkerTypes, OneInHand, NEW p \in Passes,
         NEW r \in [step : {"idle", "check", "deliver", "record"}, listed : SUBSET Keys,
                    read : States, outcome : States],
         pass' = [pass EXCEPT ![p] = r], escalator' = escalator,
         r.step = "idle" => r.listed = {},
         r.step # "idle" => \E k \in Keys : r.listed = {k},
         r.step \in {"deliver", "record"} => r.read \in {"failed", "pending"},
         r.step = "record" => r.outcome \in {"delivered", "failed"}
  PROVE  /\ WorkerTypes' /\ OneInHand'
         /\ pass'[p] = r /\ \A q \in Passes : q # p => pass'[q] = pass[q]
  <1>1. pass'[p] = r /\ \A q \in Passes : q # p => pass'[q] = pass[q]
    BY DEF WorkerTypes
  <1>2. WorkerTypes'
    BY DEF WorkerTypes
  <1>3. \A q \in Passes : q # p => Hands(q)' = Hands(q)
    BY <1>1 DEF Hands
  <1>4. ASSUME r.step # "idle" PROVE r.listed = {Hands(p)'} /\ Hands(p)' \in Keys
    <2>1. PICK k \in Keys : pass'[p].listed = {k}
      BY <1>1, <1>4
    <2>2. \E j \in pass'[p].listed : TRUE
      BY <2>1
    <2>3. Hands(p)' \in pass'[p].listed
      BY <2>2 DEF Hands
    <2>4. QED
      BY <1>1, <2>1, <2>3
  <1>5. OneInHand'
    <2>1. \A q \in Passes :
          /\ pass'[q].step = "idle" => pass'[q].listed = {}
          /\ pass'[q].step # "idle" => pass'[q].listed = {Hands(q)'} /\ Hands(q)' \in Keys
          /\ pass'[q].step \in {"deliver", "record"} => pass'[q].read \in {"failed", "pending"}
          /\ pass'[q].step = "record" => pass'[q].outcome \in {"delivered", "failed"}
      BY <1>1, <1>3, <1>4 DEF OneInHand
    <2>2. QED
      BY <2>1 DEF OneInHand
  <1>6. QED
    BY <1>1, <1>2, <1>5

LEMMA ListStep ==
  ASSUME EscalationInv, NEW p \in Passes, ListFailed(p)
  PROVE  EscalationInv'
  <1> USE DEF EscalationInv
  <1>1. PICK k \in Keys : /\ pass[p].step = "idle"
                          /\ pass' = [pass EXCEPT ![p].step = "check", ![p].listed = {k}]
                          /\ UNCHANGED <<tickets, resolved, inbox, escalator, disturbed>>
    BY DEF ListFailed
  <1>0. PICK r : r = [pass[p] EXCEPT !.step = "check", !.listed = {k}]
    OBVIOUS
  <1>2. /\ r \in [step : {"idle", "check", "deliver", "record"}, listed : SUBSET Keys,
                  read : States, outcome : States]
        /\ r.step = "check" /\ r.listed = {k} /\ pass' = [pass EXCEPT ![p] = r]
    BY <1>0, <1>1 DEF WorkerTypes
  <1>3. /\ WorkerTypes' /\ OneInHand' /\ pass'[p] = r
        /\ \A q \in Passes : q # p => pass'[q] = pass[q]
    <2>1. escalator' = escalator /\ r.step \notin {"idle", "deliver", "record"}
      BY <1>1, <1>2
    <2>2. QED
      BY <1>2, <2>1, PassMoves
  <1>4. TicketTypes' /\ OneTicketPerKey'
    BY <1>1 DEF TicketTypes, OneTicketPerKey
  <1>5. \A j \in Keys : Holders(j)' = Holders(j) /\ (Delivering(j)' <=> Delivering(j))
    <2> SUFFICES ASSUME NEW j \in Keys
                 PROVE  Holders(j)' = Holders(j) /\ (Delivering(j)' <=> Delivering(j))
      OBVIOUS
    <2>1. \A q \in Passes : \/ pass'[q] = pass[q]
                            \/ {pass[q].step, pass'[q].step} \cap {"deliver", "record"} = {}
      BY <1>1, <1>2, <1>3
    <2>2. Holders(j)' = Holders(j)
      BY <1>1, <2>1 DEF Holders
    <2>3. Delivering(j)' <=> Delivering(j)
      BY <1>1, <2>1 DEF Delivering
    <2>4. QED
      BY <2>2, <2>3
  <1>6. ReachedOnce' /\ (DeliveredReached => DeliveredReached')
    BY <1>1, <1>5, QuietStep DEF DeliveredReached, DeliveredIsInInbox
  <1>7. QED
    BY <1>3, <1>4, <1>6

LEMMA CheckStep ==
  ASSUME EscalationInv, NEW p \in Passes, CheckTicket(p)
  PROVE  EscalationInv'
  <1> USE DEF EscalationInv
  <1>1. PICK k \in Keys : k = Hands(p) /\ pass[p].listed = {k}
    BY DEF CheckTicket, OneInHand
  <1>2. pass[p].step = "check" /\ UNCHANGED <<tickets, resolved, inbox, escalator, disturbed>>
    BY DEF CheckTicket
  <1>3. TicketTypes' /\ OneTicketPerKey'
    BY <1>2 DEF TicketTypes, OneTicketPerKey
  <1>4. CASE StillRetryable(k)
    <2>0. PICK r : r = [pass[p] EXCEPT !.step = "deliver", !.read = tickets[k]]
      OBVIOUS
    <2>1. tickets[k] \in {"failed", "pending"}
      BY <1>4 DEF StillRetryable, Retryable
    <2>2. /\ r \in [step : {"idle", "check", "deliver", "record"}, listed : SUBSET Keys,
                    read : States, outcome : States]
          /\ r.step = "deliver" /\ r.listed = {k} /\ r.read \in {"failed", "pending"}
      BY <1>1, <2>0, <2>1 DEF WorkerTypes, States
    <2>3. pass' = [pass EXCEPT ![p] = r]
      BY <1>1, <1>4, <2>0 DEF CheckTicket
    <2>4. /\ WorkerTypes' /\ OneInHand' /\ pass'[p] = r
          /\ \A q \in Passes : q # p => pass'[q] = pass[q]
      BY <1>2, <2>2, <2>3, PassMoves
    <2>5. \A j \in Keys : /\ Delivering(j)' <=> Delivering(j)
                          /\ j # k => Holders(j)' = Holders(j)
      BY <1>1, <1>2, <2>2, <2>4 DEF Holders, Delivering
    <2>6. ReachedOnce'
      <3>1. tickets[k] # "delivered"
        BY <2>1
      <3>2. QED
        BY <1>2, <2>5, <3>1 DEF ReachedOnce
    <2>7. DeliveredReached => DeliveredReached'
      BY <1>2, <2>5 DEF DeliveredReached, DeliveredIsInInbox
    <2>8. QED
      BY <1>3, <2>4, <2>6, <2>7
  <1>5. CASE ~StillRetryable(k)
    <2>0. PICK r : r = [pass[p] EXCEPT !.step = "idle", !.listed = {}]
      OBVIOUS
    <2>1. /\ r \in [step : {"idle", "check", "deliver", "record"}, listed : SUBSET Keys,
                    read : States, outcome : States]
          /\ r.step = "idle" /\ r.listed = {}
      BY <2>0 DEF WorkerTypes
    <2>2. pass' = [pass EXCEPT ![p] = r]
      BY <1>1, <1>5, <2>0 DEF CheckTicket
    <2>3. /\ WorkerTypes' /\ OneInHand' /\ pass'[p] = r
          /\ \A q \in Passes : q # p => pass'[q] = pass[q]
      BY <1>2, <2>1, <2>2, PassMoves
    <2>4. \A j \in Keys : Holders(j)' = Holders(j) /\ (Delivering(j)' <=> Delivering(j))
      BY <1>2, <2>1, <2>3 DEF Holders, Delivering
    <2>5. ReachedOnce' /\ (DeliveredReached => DeliveredReached')
      BY <1>2, <2>4, QuietStep DEF DeliveredReached, DeliveredIsInInbox
    <2>6. QED
      BY <1>3, <2>3, <2>5
  <1>6. QED
    BY <1>4, <1>5

\* A pass at work is one of those who have its ticket in hand, and no escalator.
LEMMA OtherHolder ==
  ASSUME OneInHand, NEW k \in Keys, Delivering(k), NEW x \in Holders(k), Holders(k) = {x}
  PROVE  \/ x \in Escalators /\ escalator[x].step = "record" /\ escalator[x].outcome = "delivered"
         \/ x \in Passes /\ pass[x].step = "record" /\ pass[x].outcome = "delivered"
  BY DEF Delivering, Holders

LEMMA DeliverAgainStep ==
  ASSUME EscalationInv, NEW p \in Passes, DeliverAgain(p)
  PROVE  EscalationInv'
  <1> USE DEF EscalationInv
  <1>1. PICK k \in Keys : k = Hands(p) /\ pass[p].listed = {k}
    BY DEF DeliverAgain, OneInHand
  <1>2. /\ pass[p].step = "deliver" /\ Overlap(k)
        /\ UNCHANGED <<tickets, resolved, escalator>>
    BY <1>1 DEF DeliverAgain
  <1>3. PICK o \in SinkOutcomes :
            /\ Deposit(k, o)
            /\ pass' = [pass EXCEPT ![p].step = "record", ![p].outcome = o.state]
    BY <1>1 DEF DeliverAgain
  <1>4. PICK r : r = [pass[p] EXCEPT !.step = "record", !.outcome = o.state]
    OBVIOUS
  <1>5. /\ r \in [step : {"idle", "check", "deliver", "record"}, listed : SUBSET Keys,
                  read : States, outcome : States]
        /\ r.step = "record" /\ r.listed = {k} /\ r.read \in {"failed", "pending"}
        /\ r.outcome = o.state
    BY <1>1, <1>2, <1>4, SinkIsTold DEF WorkerTypes, OneInHand, States
  <1>6. pass' = [pass EXCEPT ![p] = r]
    BY <1>3, <1>4
  <1>7. /\ WorkerTypes' /\ OneInHand' /\ pass'[p] = r
        /\ \A q \in Passes : q # p => pass'[q] = pass[q]
    BY <1>2, <1>5, <1>6, SinkIsTold, PassMoves
  <1>8. TicketTypes' /\ OneTicketPerKey'
    <2>1. disturbed' \in SUBSET Keys
      BY <1>2 DEF Overlap, TicketTypes
    <2>2. inbox' \in [Keys -> 0..MaxRecords]
      BY <1>3, DepositAdds
    <2>3. QED
      BY <1>2, <2>1, <2>2 DEF TicketTypes, OneTicketPerKey
  <1>9. p \in Holders(k)
    BY <1>1, <1>2 DEF Holders
  <1>10. \A j \in Keys : /\ Holders(j)' = Holders(j)
                         /\ Delivering(j) => Delivering(j)'
                         /\ j # k => (Delivering(j)' => Delivering(j))
    BY <1>1, <1>2, <1>5, <1>7 DEF Holders, Delivering
  <1>11. /\ o.state = "delivered" => Delivering(k)'
         /\ Delivering(k)' => Delivering(k) \/ o.state = "delivered"
    BY <1>1, <1>2, <1>5, <1>7 DEF Delivering
  <1>12. Holders(k) = {p} => ~Delivering(k)
    BY <1>2, <1>9, OtherHolder, EscalationAssumption
  <1>13. /\ ReachedOnce'
         /\ Backend = "local" /\ DeliveredReached =>
               \A j \in Keys : /\ tickets'[j] = "delivered" => inbox'[j] > 0
                               /\ Delivering(j)' => inbox'[j] > 0
    BY <1>2, <1>3, <1>9, <1>10, <1>11, <1>12, DeliveryReaches
  <1>14. Backend = "local" => DeliveredReached'
    <2>1. \A j \in Keys : inbox[j] > 0 => inbox'[j] > 0
      BY <1>3, DepositAdds
    <2>2. \A f \in Escalators : escalator[f].key \in Keys
      BY DEF WorkerTypes
    <2>3. QED
      BY <1>2, <1>13, <2>1, <2>2 DEF DeliveredReached, DeliveredIsInInbox
  <1>15. QED
    BY <1>7, <1>8, <1>13, <1>14

LEMMA RecordRetryStep ==
  ASSUME EscalationInv, NEW p \in Passes, RecordRetry(p)
  PROVE  EscalationInv'
  <1> USE DEF EscalationInv
  <1>1. PICK k \in Keys : k = Hands(p) /\ pass[p].listed = {k}
    BY DEF RecordRetry, OneInHand
  <1>2. PICK s : s = IF pass[p].outcome = pass[p].read THEN tickets[k] ELSE pass[p].outcome
    OBVIOUS
  <1>3. PICK r : r = [pass[p] EXCEPT !.step = "idle", !.listed = {}]
    OBVIOUS
  <1>4. /\ pass[p].step = "record" /\ Overlap(k)
        /\ tickets' = [tickets EXCEPT ![k] = s] /\ pass' = [pass EXCEPT ![p] = r]
        /\ UNCHANGED <<resolved, inbox, escalator>>
    BY <1>1, <1>2, <1>3 DEF RecordRetry
  <1>5. /\ r \in [step : {"idle", "check", "deliver", "record"}, listed : SUBSET Keys,
                  read : States, outcome : States]
        /\ r.step = "idle" /\ r.listed = {}
    BY <1>3 DEF WorkerTypes
  <1>6. /\ WorkerTypes' /\ OneInHand' /\ pass'[p] = r
        /\ \A q \in Passes : q # p => pass'[q] = pass[q]
    BY <1>4, <1>5, PassMoves
  <1>7. /\ pass[p].outcome \in {"delivered", "failed"} /\ pass[p].read \in {"failed", "pending"}
        /\ s \in States \cup {NoTicket} /\ (tickets[k] # NoTicket => s # NoTicket)
    BY <1>2, <1>4 DEF OneInHand, TicketTypes, States, NoTicket
  <1>8. TicketTypes'
    <2>1. disturbed' \in SUBSET Keys
      BY <1>4 DEF Overlap, TicketTypes
    <2>2. QED
      BY <1>4, <1>7, <2>1 DEF TicketTypes
  <1>9. OneTicketPerKey'
    <2>1. \A j \in Keys : tickets[j] # NoTicket => tickets'[j] # NoTicket
      BY <1>4, <1>7 DEF TicketTypes
    <2>2. \A f \in Escalators : escalator[f].key \in Keys
      BY DEF WorkerTypes
    <2>3. QED
      BY <1>4, <2>1, <2>2 DEF OneTicketPerKey
  <1>10. p \in Holders(k)
    BY <1>1, <1>4 DEF Holders
  <1>11. \A j \in Keys : /\ Delivering(j)' => Delivering(j)
                         /\ j # k => /\ Holders(j)' = Holders(j) /\ tickets'[j] = tickets[j]
                                     /\ Delivering(j) => Delivering(j)'
    BY <1>1, <1>4, <1>5, <1>6 DEF Holders, Delivering, TicketTypes
  <1>12. Holders(k) = {p} => Holders(k)' = {}
    <2>1. Holders(k)' \subseteq Holders(k)
      BY <1>4, <1>5, <1>6 DEF Holders
    <2>2. p \notin Holders(k)'
      BY <1>5, <1>6, EscalationAssumption DEF Holders
    <2>3. QED
      BY <2>1, <2>2
  <1>13. Holders(k) = {p} /\ Delivering(k) => tickets'[k] = "delivered"
    <2>1. ASSUME Holders(k) = {p}, Delivering(k) PROVE pass[p].outcome = "delivered"
      BY <1>10, <2>1, OtherHolder, EscalationAssumption
    <2>2. pass[p].outcome = "delivered" => tickets'[k] = "delivered"
      BY <1>2, <1>4, <1>7 DEF TicketTypes
    <2>3. QED
      BY <2>1, <2>2
  <1>14. tickets'[k] = "delivered" => tickets[k] = "delivered" \/ Delivering(k)
    BY <1>1, <1>2, <1>4 DEF Delivering, TicketTypes
  <1>15. /\ ReachedOnce'
         /\ Backend = "local" /\ DeliveredReached =>
               \A j \in Keys : /\ tickets'[j] = "delivered" => inbox'[j] > 0
                               /\ Delivering(j)' => inbox'[j] > 0
    BY <1>4, <1>10, <1>11, <1>12, <1>13, <1>14, RecordIsKept
  <1>16. Backend = "local" => DeliveredReached'
    BY <1>4, <1>15 DEF DeliveredReached, DeliveredIsInInbox
  <1>17. QED
    BY <1>6, <1>8, <1>9, <1>15, <1>16

LEMMA LosePassStep ==
  ASSUME EscalationInv, NEW p \in Passes, LosePass(p)
  PROVE  EscalationInv'
  <1> USE DEF EscalationInv
  <1>1. PICK k \in Keys : pass[p].listed = {k}
    BY DEF LosePass, OneInHand
  <1>2. PICK r : r = [pass[p] EXCEPT !.step = "idle", !.listed = {}]
    OBVIOUS
  <1>3. /\ pass[p].step \in {"check", "deliver", "record"} /\ pass' = [pass EXCEPT ![p] = r]
        /\ disturbed' = IF pass[p].step = "record" THEN disturbed \cup {k} ELSE disturbed
        /\ UNCHANGED <<tickets, resolved, inbox, escalator>>
    BY <1>1, <1>2 DEF LosePass
  <1>4. /\ r \in [step : {"idle", "check", "deliver", "record"}, listed : SUBSET Keys,
                  read : States, outcome : States]
        /\ r.step = "idle" /\ r.listed = {}
    BY <1>2 DEF WorkerTypes
  <1>5. /\ WorkerTypes' /\ OneInHand' /\ pass'[p] = r
        /\ \A q \in Passes : q # p => pass'[q] = pass[q]
    BY <1>3, <1>4, PassMoves
  <1>6. TicketTypes' /\ OneTicketPerKey'
    BY <1>3 DEF TicketTypes, OneTicketPerKey
  <1>7. \A j \in Keys : /\ Holders(j)' \subseteq Holders(j) /\ (Delivering(j)' => Delivering(j))
    BY <1>3, <1>4, <1>5 DEF Holders, Delivering
  <1>8. \A j \in Keys \ disturbed' : Delivering(j) => Delivering(j)'
    BY <1>1, <1>3, <1>4, <1>5 DEF Delivering
  <1>9. ReachedOnce'
    <2>1. disturbed \subseteq disturbed'
      BY <1>3
    <2>2. QED
      BY <1>3, <1>7, <1>8, <2>1, QuietStep
  <1>10. DeliveredReached => DeliveredReached'
    BY <1>3, <1>7 DEF DeliveredReached, DeliveredIsInInbox
  <1>11. QED
    BY <1>5, <1>6, <1>9, <1>10

LEMMA EscalationStep ==
  EscalationInv /\ [EscalationNext]_escalationVars => EscalationInv'
  <1> SUFFICES ASSUME EscalationInv, [EscalationNext]_escalationVars PROVE EscalationInv'
    OBVIOUS
  <1>1. CASE UNCHANGED <<tickets, inbox, escalator, pass, disturbed>> /\ resolved' \in SUBSET Keys
    <2>1. WorkerTypes' /\ TicketTypes' /\ OneTicketPerKey'
      BY <1>1 DEF EscalationInv, WorkerTypes, TicketTypes, OneTicketPerKey
    <2>2. OneInHand'
      BY <1>1 DEF EscalationInv, OneInHand, Hands
    <2>3. \A k \in Keys : Holders(k)' = Holders(k) /\ (Delivering(k)' <=> Delivering(k))
      BY <1>1 DEF Holders, Delivering
    <2>4. ReachedOnce' /\ (DeliveredReached => DeliveredReached')
      BY <1>1, <2>3, QuietStep DEF EscalationInv, DeliveredReached, DeliveredIsInInbox
    <2>5. QED
      BY <2>1, <2>2, <2>4 DEF EscalationInv
  <1>2. ASSUME NEW k \in Keys, RespondToTicket(k) PROVE EscalationInv'
    BY <1>1, <1>2 DEF RespondToTicket, EscalationInv, TicketTypes
  <1>3. CASE UNCHANGED escalationVars
    BY <1>1, <1>3 DEF escalationVars, EscalationInv, TicketTypes
  <1>4. ASSUME NEW e \in Escalators,
               \/ LookUpKey(e) \/ LookupSkipped(e) \/ InsertTicket(e) \/ DatabaseFails(e)
               \/ DeliverTicket(e) \/ RecordDelivery(e) \/ LoseEscalator(e)
        PROVE  EscalationInv'
    BY <1>4, LookUpStep, InsertStep, DeliverStep, RecordStep, LoseEscalatorStep
  <1>5. ASSUME NEW p \in Passes, PassStep(p) \/ LosePass(p) PROVE EscalationInv'
    BY <1>5, ListStep, CheckStep, DeliverAgainStep, RecordRetryStep, LosePassStep DEF PassStep
  <1>6. QED
    BY <1>2, <1>3, <1>4, <1>5 DEF EscalationNext

LEMMA WhatTheInvGives ==
  EscalationInv => EscalationTypeOK /\ OneTicketPerKey /\ OnceUnlessDisturbed
  <1> SUFFICES ASSUME EscalationInv PROVE EscalationTypeOK /\ OneTicketPerKey /\ OnceUnlessDisturbed
    OBVIOUS
  <1>1. EscalationTypeOK
    BY DEF EscalationInv, WorkerTypes, TicketTypes, EscalatorSteps, EscalationTypeOK
  <1>2. ASSUME NEW k \in Keys, inbox[k] > 1, k \notin disturbed PROVE FALSE
    <2>1. inbox[k] <= 1 /\ inbox[k] \in 0..MaxRecords
      BY <1>2 DEF EscalationInv, ReachedOnce, TicketTypes
    <2>2. QED
      BY <1>2, <2>1, EscalationAssumption
  <1>3. QED
    BY <1>1, <1>2 DEF EscalationInv, OnceUnlessDisturbed

\* Whatever the sink, a key has one ticket, and operators get it once unless deliverers
\* overlapped or one was stopped between the inbox and the row; where the sink is the local
\* inbox a ticket whose row says delivered is in it, and SUPPORT_SINK_BACKEND is all that
\* promise hangs on.
THEOREM TicketsReachOperators == EscalationSpec => []EscalationSafety
  <1>1. EscalationInv => EscalationSafety
    BY WhatTheInvGives DEF EscalationInv, EscalationSafety, DeliveredReached, DeliveredIsInInbox
  <1>2. QED
    BY <1>1, EscalationInitInv, EscalationStep, PTL DEF EscalationSpec

----------------------------------------------------------------------------
(* ReviewQueue.                                                            *)

Verdicts == {"none", "confirmed_good", "confirmed_bad", "dismissed"}

CaseMaps == [Traces -> {"none", "good", "bad"}]

Batches == [step : {"idle", "filled", "select", "update"}, verdict : [Traces -> Verdicts],
            todo : SUBSET Traces, row : Traces \cup {"none"}, updated : SUBSET Traces]

Rebuilding == [step : {"idle", "queried", "loaded", "writing"}, rows : CaseMaps, records : CaseMaps]

RowTypes ==
    /\ review \in [Traces -> ReviewStatuses \cup {"absent"}]
    /\ batch \in [Imports -> Batches]
    /\ decisions \in 0..MaxDecisions

CaseTypes ==
    /\ rebuild \in [ApiRebuilds \cup CliRebuilds -> Rebuilding]
    /\ cases \in CaseMaps /\ curated \subseteq Traces /\ torn \in BOOLEAN

\* Strengthening: a row that an open import has updated is pending for all others, and
\* locked by it alone; an import touches only rows its file has a verdict on.
RowsLocked ==
    /\ \A i \in Imports :
          /\ batch[i].step = "idle" => batch[i].todo = {} /\ batch[i].updated = {}
          /\ batch[i].step = "update" =>
                batch[i].row \in Traces /\ batch[i].verdict[batch[i].row] # "none"
          /\ \A t \in batch[i].todo \cup batch[i].updated : batch[i].verdict[t] # "none"
          /\ \A t \in batch[i].updated : review[t] = "pending"
    /\ \A i, j \in Imports : i # j => batch[i].updated \cap batch[j].updated = {}

\* While nothing is torn one rebuild at a time has the file open, and it has every case
\* that was ever written in hand.
FileInHand ==
    torn \/ \A r \in DOMAIN rebuild : Rewriting(r) =>
                /\ \A k \in DOMAIN rebuild : Rewriting(k) => k = r
                /\ \A t \in curated : rebuild[r].records[t] # "none"

RowsInv == RowTypes /\ RowsLocked
CasesInv == CaseTypes /\ FileInHand /\ CasesKept

\* A decided row stays as it is, or an administrator changes it.
ByHand == \A t \in Traces : review[t] \notin {"absent", "pending", review'[t]}
                            => decisions' = decisions + 1

LEMMA ReviewInitInv == ReviewInit => RowsInv /\ CasesInv
  <1> SUFFICES ASSUME ReviewInit PROVE RowsInv /\ CasesInv
    OBVIOUS
  <1>1. NoCases \in [Traces -> Verdicts] /\ NoCases \in CaseMaps
    BY DEF NoCases, Verdicts, CaseMaps
  <1>2. RowTypes /\ RowsLocked
    BY <1>1, ReviewAssumption DEF ReviewInit, RowTypes, RowsLocked, Batches, ReviewStatuses
  <1>3. CaseTypes
    BY <1>1 DEF ReviewInit, CaseTypes, Rebuilding
  <1>4. FileInHand /\ CasesKept
    BY DEF ReviewInit, FileInHand, CasesKept, Rewriting
  <1>5. QED
    BY <1>2, <1>3, <1>4 DEF RowsInv, CasesInv

\* What one import does to its own batch, with the rows as they are.
LEMMA BatchMoves ==
  ASSUME RowsInv, NEW i \in Imports, NEW b \in Batches, batch' = [batch EXCEPT ![i] = b],
         UNCHANGED <<review, decisions>>,
         b.step # "idle",
         b.step = "update" => b.row \in Traces /\ b.verdict[b.row] # "none",
         \A t \in b.todo \cup b.updated : b.verdict[t] # "none",
         \A t \in b.updated : /\ review[t] = "pending"
                              /\ \A j \in Imports \ {i} : t \notin batch[j].updated
  PROVE  RowsInv' /\ ByHand
  <1>1. batch'[i] = b /\ \A j \in Imports : j # i => batch'[j] = batch[j]
    BY DEF RowsInv, RowTypes
  <1>2. RowTypes'
    BY DEF RowsInv, RowTypes
  <1>3. RowsLocked'
    <2>1. ASSUME NEW j \in Imports
          PROVE  /\ batch'[j].step = "idle" => batch'[j].todo = {} /\ batch'[j].updated = {}
                 /\ batch'[j].step = "update" =>
                       batch'[j].row \in Traces /\ batch'[j].verdict[batch'[j].row] # "none"
                 /\ \A t \in batch'[j].todo \cup batch'[j].updated : batch'[j].verdict[t] # "none"
                 /\ \A t \in batch'[j].updated : review'[t] = "pending"
      BY <1>1 DEF RowsInv, RowsLocked
    <2>2. ASSUME NEW j \in Imports, NEW k \in Imports, j # k
          PROVE  batch'[j].updated \cap batch'[k].updated = {}
      BY <1>1, <2>2 DEF RowsInv, RowsLocked
    <2>3. QED
      BY <2>1, <2>2 DEF RowsLocked
  <1>4. QED
    BY <1>2, <1>3 DEF RowsInv, ByHand

LEMMA RowsByUI ==
  ASSUME RowsInv, ScanTraces \/ \E t \in Traces : DecideInUI(t)
  PROVE  RowsInv' /\ ByHand
  <1> USE DEF RowsInv
  <1>1. CASE ScanTraces
    <2>1. PICK found \in Candidates :
              review' = [t \in Traces |-> IF t \in found /\ review[t] = "absent"
                                          THEN "pending" ELSE review[t]]
      BY <1>1 DEF ScanTraces
    <2>2. UNCHANGED <<batch, decisions>>
      BY <1>1 DEF ScanTraces
    <2>3. RowTypes'
      BY <2>1, <2>2 DEF RowTypes, ReviewStatuses
    <2>4. RowsLocked'
      BY <2>1, <2>2 DEF RowTypes, RowsLocked, Batches
    <2>5. ByHand
      BY <2>1 DEF ByHand, RowTypes
    <2>6. QED
      BY <2>3, <2>4, <2>5
  <1>2. ASSUME NEW t \in Traces, DecideInUI(t) PROVE RowsInv' /\ ByHand
    <2>1. PICK s \in ReviewStatuses : review' = [review EXCEPT ![t] = s]
      BY <1>2 DEF DecideInUI
    <2>2. /\ decisions < MaxDecisions /\ decisions' = decisions + 1 /\ batch' = batch
          /\ \A i \in Imports : t \notin batch[i].updated
      BY <1>2 DEF DecideInUI, RowLocked
    <2>3. RowTypes'
      BY <2>1, <2>2, ReviewAssumption DEF RowTypes
    <2>4. RowsLocked'
      BY <2>1, <2>2 DEF RowTypes, RowsLocked, Batches
    <2>5. QED
      BY <2>2, <2>3, <2>4 DEF ByHand
  <1>3. QED
    BY <1>1, <1>2

LEMMA RowsByImport ==
  ASSUME RowsInv, NEW i \in Imports, ImportStep(i)
  PROVE  RowsInv' /\ ByHand
  <1> USE DEF RowsInv
  <1>1. /\ batch[i] \in Batches
        /\ batch[i].step = "update" =>
              batch[i].row \in Traces /\ batch[i].verdict[batch[i].row] # "none"
        /\ \A t \in batch[i].todo \cup batch[i].updated : batch[i].verdict[t] # "none"
        /\ \A t \in batch[i].updated : /\ review[t] = "pending"
                                       /\ \A j \in Imports \ {i} : t \notin batch[j].updated
    BY DEF RowTypes, RowsLocked
  <1>2. CASE ExportBatch(i)
    <2>0. PICK rows \in SUBSET Traces :
              \E filled \in [rows -> {"confirmed_good", "confirmed_bad", "dismissed"}] :
                  batch' = [batch EXCEPT ![i].step = "filled",
                      ![i].verdict = [t \in Traces |-> IF t \in rows THEN filled[t] ELSE "none"]]
      BY <1>2 DEF ExportBatch
    <2>1. PICK choice \in [rows -> {"confirmed_good", "confirmed_bad", "dismissed"}] :
              batch' = [batch EXCEPT ![i].step = "filled",
                  ![i].verdict = [t \in Traces |-> IF t \in rows THEN choice[t] ELSE "none"]]
      BY <2>0
    <2>2. PICK v : v = [t \in Traces |-> IF t \in rows THEN choice[t] ELSE "none"]
      OBVIOUS
    <2>3. v \in [Traces -> Verdicts]
      BY <2>2 DEF Verdicts
    <2>4. PICK b : b = [batch[i] EXCEPT !.step = "filled", !.verdict = v]
      OBVIOUS
    <2>5. /\ b \in Batches /\ b.step = "filled" /\ b.todo = {} /\ b.updated = {}
          /\ batch' = [batch EXCEPT ![i] = b] /\ UNCHANGED <<review, decisions>>
      <3>1. batch[i].step = "idle" /\ UNCHANGED <<review, decisions>>
        BY <1>2 DEF ExportBatch
      <3>2. batch[i].todo = {} /\ batch[i].updated = {}
        BY <3>1 DEF RowsLocked
      <3>3. batch' = [batch EXCEPT ![i] = b]
        BY <1>1, <2>1, <2>2, <2>4 DEF RowTypes
      <3>4. b \in Batches /\ b.step = "filled" /\ b.todo = {} /\ b.updated = {}
        BY <1>1, <2>3, <2>4, <3>2 DEF Batches
      <3>5. QED
        BY <3>1, <3>3, <3>4
    <2>6. QED
      BY <2>5, BatchMoves
  <1>3. CASE BeginImport(i)
    <2>1. PICK b : b = [batch[i] EXCEPT !.step = "select",
                           !.todo = {t \in Traces : batch[i].verdict[t] # "none"}]
      OBVIOUS
    <2>2. /\ b \in Batches /\ b.step = "select" /\ b.updated = batch[i].updated
          /\ b.verdict = batch[i].verdict /\ \A t \in b.todo : b.verdict[t] # "none"
          /\ batch' = [batch EXCEPT ![i] = b] /\ UNCHANGED <<review, decisions>>
      BY <1>1, <1>3, <2>1 DEF BeginImport, Batches
    <2>3. /\ \A t \in b.todo \cup b.updated : b.verdict[t] # "none"
          /\ \A t \in b.updated : /\ review[t] = "pending"
                                 /\ \A j \in Imports \ {i} : t \notin batch[j].updated
      BY <1>1, <2>2
    <2>4. QED
      BY <2>2, <2>3, BatchMoves
  <1>4. CASE SelectRow(i)
    <2>1. PICK t \in batch[i].todo :
            batch' = [batch EXCEPT
                ![i].todo = @ \ {t},
                ![i].row = IF StatusSeen(i, t) = "pending" THEN t ELSE "none",
                ![i].step = IF StatusSeen(i, t) = "pending" THEN "update" ELSE @]
      BY <1>4 DEF SelectRow
    <2>2. PICK b : b = [batch[i] EXCEPT
                !.todo = @ \ {t},
                !.row = IF StatusSeen(i, t) = "pending" THEN t ELSE "none",
                !.step = IF StatusSeen(i, t) = "pending" THEN "update" ELSE @]
      OBVIOUS
    <2>3. /\ b \in Batches /\ b.updated = batch[i].updated /\ b.verdict = batch[i].verdict
          /\ b.todo \subseteq batch[i].todo /\ b.step \in {"select", "update"}
          /\ b.step = "update" => b.row = t
      BY <1>1, <1>4, <2>1, <2>2 DEF SelectRow, Batches
    <2>4. /\ batch' = [batch EXCEPT ![i] = b] /\ UNCHANGED <<review, decisions>>
      BY <1>4, <2>1, <2>2 DEF SelectRow
    <2>5. t \in Traces /\ b.verdict[t] # "none"
      BY <1>1, <2>1, <2>3 DEF Batches
    <2>6. /\ \A x \in b.todo \cup b.updated : b.verdict[x] # "none"
          /\ \A x \in b.updated : /\ review[x] = "pending"
                                 /\ \A j \in Imports \ {i} : x \notin batch[j].updated
          /\ b.step # "idle"
          /\ b.step = "update" => b.row \in Traces /\ b.verdict[b.row] # "none"
      BY <1>1, <2>3, <2>5
    <2>7. QED
      BY <2>3, <2>4, <2>6, BatchMoves
  <1>5. CASE UpdateRow(i)
    <2>0. PICK mine : mine = IF review[batch[i].row] = "pending"
                             THEN batch[i].updated \cup {batch[i].row} ELSE batch[i].updated
      OBVIOUS
    <2>1. PICK b : b = [batch[i] EXCEPT !.step = "select", !.row = "none", !.updated = mine]
      OBVIOUS
    <2>2. /\ batch[i].step = "update" /\ batch' = [batch EXCEPT ![i] = b]
          /\ \A j \in Imports : batch[i].row \notin batch[j].updated
          /\ UNCHANGED <<review, decisions>>
      BY <1>1, <1>5, <2>0, <2>1 DEF UpdateRow, RowLocked, RowTypes, Batches
    <2>3. /\ mine \subseteq Traces
          /\ mine \subseteq batch[i].updated \cup {batch[i].row}
          /\ \A t \in mine : /\ review[t] = "pending" /\ batch[i].verdict[t] # "none"
                             /\ \A j \in Imports \ {i} : t \notin batch[j].updated
      BY <1>1, <2>0, <2>2 DEF Batches
    <2>4. /\ b \in Batches /\ b.step = "select" /\ b.todo = batch[i].todo
          /\ b.verdict = batch[i].verdict /\ b.updated = mine
      BY <1>1, <2>1, <2>3 DEF Batches
    <2>5. /\ \A t \in b.todo \cup b.updated : b.verdict[t] # "none"
          /\ \A t \in b.updated : /\ review[t] = "pending"
                                 /\ \A j \in Imports \ {i} : t \notin batch[j].updated
      BY <1>1, <2>3, <2>4
    <2>6. QED
      BY <2>2, <2>4, <2>5, BatchMoves
  <1>6. CASE AbortImport(i)
    <2>1. PICK b : b = [batch[i] EXCEPT !.step = "filled", !.updated = {}, !.row = "none",
                                        !.todo = {}]
      OBVIOUS
    <2>2. /\ b \in Batches /\ b.step = "filled" /\ b.updated = {} /\ b.todo = {}
          /\ batch' = [batch EXCEPT ![i] = b] /\ UNCHANGED <<review, decisions>>
      BY <1>1, <1>6, <2>1 DEF AbortImport, Batches
    <2>3. QED
      BY <2>2, BatchMoves
  <1>7. CASE CommitImport(i)
    <2>1. /\ review' = [t \in Traces |-> StatusSeen(i, t)]
          /\ batch' = [batch EXCEPT ![i].step = "filled", ![i].updated = {}]
          /\ decisions' = decisions
      BY <1>7 DEF CommitImport
    <2>2. /\ batch' \in [Imports -> Batches] /\ batch'[i].step = "filled"
          /\ batch'[i].updated = {} /\ batch'[i].todo = batch[i].todo
          /\ batch'[i].verdict = batch[i].verdict
          /\ \A j \in Imports : j # i => batch'[j] = batch[j]
      BY <1>1, <2>1 DEF RowTypes, Batches
    <2>3. \A t \in Traces :
            /\ t \in batch[i].updated => /\ review[t] = "pending"
                                         /\ review'[t] \in ReviewStatuses
            /\ t \notin batch[i].updated => review'[t] = review[t]
      BY <1>1, <2>1 DEF StatusSeen, Batches, Verdicts, ReviewStatuses
    <2>4. RowTypes'
      BY <2>1, <2>2, <2>3 DEF RowTypes
    <2>5. RowsLocked'
      <3>1. ASSUME NEW j \in Imports
            PROVE  /\ batch'[j].step = "idle" => batch'[j].todo = {} /\ batch'[j].updated = {}
                   /\ batch'[j].step = "update" =>
                         batch'[j].row \in Traces /\ batch'[j].verdict[batch'[j].row] # "none"
                   /\ \A t \in batch'[j].todo \cup batch'[j].updated : batch'[j].verdict[t] # "none"
                   /\ \A t \in batch'[j].updated : review'[t] = "pending"
        <4>1. CASE j = i
          BY <1>1, <2>2, <4>1
        <4>2. CASE j # i
          BY <1>1, <2>2, <2>3, <4>2 DEF RowsLocked, RowTypes, Batches
        <4>3. QED
          BY <4>1, <4>2
      <3>2. \A j, k \in Imports : j # k => batch'[j].updated \cap batch'[k].updated = {}
        BY <2>2 DEF RowsLocked
      <3>3. QED
        BY <3>1, <3>2 DEF RowsLocked
    <2>6. ByHand
      BY <2>3 DEF ByHand
    <2>7. QED
      BY <2>4, <2>5, <2>6
  <1>8. QED
    BY <1>2, <1>3, <1>4, <1>5, <1>6, <1>7 DEF ImportStep

\* A rebuild that nobody crossed has in hand what the file held.
LEMMA CasesByRebuild ==
  ASSUME CasesInv, RowTypes, NEW r \in ApiRebuilds \cup CliRebuilds, RebuildStep(r)
  PROVE  CasesInv'
  <1> USE DEF CasesInv, CaseTypes
  <1>1. DOMAIN rebuild = ApiRebuilds \cup CliRebuilds /\ rebuild[r] \in Rebuilding
    OBVIOUS
  <1>2. CASE QueryConfirmed(r)
    <2>1. PICK includeBad \in BOOLEAN, scope \in SUBSET Traces :
            rebuild' = [rebuild EXCEPT
              ![r].step = "queried",
              ![r].rows = [t \in Traces |-> IF t \in scope \cap Promoted(includeBad)
                                            THEN HumanVerdict(review[t]) ELSE "none"]]
      BY <1>2 DEF QueryConfirmed
    <2>2. PICK found : found = [t \in Traces |-> IF t \in scope \cap Promoted(includeBad)
                                                 THEN HumanVerdict(review[t]) ELSE "none"]
      OBVIOUS
    <2>3. found \in CaseMaps
      BY <2>2 DEF CaseMaps, HumanVerdict
    <2>4. /\ rebuild' \in [ApiRebuilds \cup CliRebuilds -> Rebuilding]
          /\ rebuild'[r].step = "queried"
          /\ \A k \in DOMAIN rebuild : k # r => rebuild'[k] = rebuild[k]
      BY <1>1, <2>1, <2>2, <2>3 DEF Rebuilding
    <2>5. rebuild[r].step = "idle" /\ UNCHANGED <<cases, curated, torn>>
      BY <1>2 DEF QueryConfirmed
    <2>6. FileInHand'
      BY <1>1, <2>4, <2>5 DEF FileInHand, Rewriting
    <2>7. CasesKept'
      BY <1>1, <2>4, <2>5 DEF CasesKept
    <2>8. QED
      BY <2>4, <2>5, <2>6, <2>7
  <1>3. CASE LoadExisting(r)
    <2>1. Merge(rebuild[r].rows) \in CaseMaps
      BY <1>1 DEF Merge, CaseMaps, Rebuilding
    <2>2. PICK all : all = Merge(rebuild[r].rows)
      OBVIOUS
    <2>3. /\ rebuild[r].step = "queried"
          /\ rebuild' = [rebuild EXCEPT ![r].step = "loaded", ![r].records = all]
          /\ torn' = (torn \/ \E k \in DOMAIN rebuild : Rewriting(k))
          /\ UNCHANGED <<cases, curated>>
      BY <1>3, <2>2 DEF LoadExisting
    <2>4. /\ rebuild' \in [ApiRebuilds \cup CliRebuilds -> Rebuilding]
          /\ rebuild'[r].step = "loaded" /\ rebuild'[r].records = all
          /\ \A k \in DOMAIN rebuild : k # r => rebuild'[k] = rebuild[k]
      BY <1>1, <2>1, <2>2, <2>3 DEF Rebuilding
    <2>5. torn' \in BOOLEAN
      BY <2>3
    <2>6. ASSUME ~torn' PROVE /\ ~torn /\ \A k \in DOMAIN rebuild : ~Rewriting(k)
                              /\ \A t \in curated : all[t] # "none"
      <3>1. ~torn /\ \A k \in DOMAIN rebuild : ~Rewriting(k)
        BY <2>3, <2>6
      <3>2. \A t \in curated : cases[t] # "none"
        BY <3>1 DEF CasesKept, Rewriting
      <3>3. QED
        BY <2>2, <3>1, <3>2 DEF Merge
    <2>7. FileInHand'
      BY <1>1, <2>3, <2>4, <2>6 DEF FileInHand, Rewriting
    <2>8. CasesKept'
      <3>1. ~torn' => \A t \in curated : cases[t] # "none"
        BY <2>6 DEF CasesKept, Rewriting
      <3>2. QED
        BY <2>3, <3>1 DEF CasesKept
    <2>9. QED
      BY <2>3, <2>4, <2>5, <2>7, <2>8
  <1>4. CASE OpenFile(r)
    <2>1. /\ rebuild[r].step = "loaded" /\ cases' = NoCases
          /\ rebuild' = [rebuild EXCEPT ![r].step = "writing"] /\ UNCHANGED <<curated, torn>>
      BY <1>4 DEF OpenFile
    <2>2. /\ rebuild' \in [ApiRebuilds \cup CliRebuilds -> Rebuilding]
          /\ rebuild'[r].step = "writing" /\ rebuild'[r].records = rebuild[r].records
          /\ \A k \in DOMAIN rebuild : k # r => rebuild'[k] = rebuild[k]
          /\ NoCases \in CaseMaps
      BY <1>1, <2>1 DEF Rebuilding, NoCases, CaseMaps
    <2>3. FileInHand'
      BY <1>1, <2>1, <2>2 DEF FileInHand, Rewriting
    <2>4. CasesKept'
      BY <1>1, <2>2 DEF CasesKept
    <2>5. QED
      BY <2>1, <2>2, <2>3, <2>4
  <1>5. CASE WriteFile(r)
    <2>1. PICK mine \in SUBSET Traces :
            /\ (\A k \in DOMAIN rebuild \ {r} : ~Rewriting(k)) => mine = Traces
            /\ cases' = [t \in Traces |-> IF t \in mine THEN rebuild[r].records[t] ELSE cases[t]]
      BY <1>5 DEF WriteFile
    <2>2. /\ rebuild[r].step = "writing" /\ torn' = torn
          /\ curated' = curated \cup {t \in Traces : cases'[t] # "none"}
          /\ rebuild' = [rebuild EXCEPT ![r] = [step |-> "idle", rows |-> NoCases,
                                                records |-> NoCases]]
      BY <1>5 DEF WriteFile
    <2>3. /\ rebuild' \in [ApiRebuilds \cup CliRebuilds -> Rebuilding]
          /\ rebuild'[r].step = "idle"
          /\ \A k \in DOMAIN rebuild : k # r => rebuild'[k] = rebuild[k]
      BY <1>1, <2>2 DEF Rebuilding, NoCases, CaseMaps
    <2>4. cases' \in CaseMaps /\ curated' \subseteq Traces
      BY <1>1, <2>1, <2>2 DEF Rebuilding, CaseMaps
    <2>5. ASSUME ~torn PROVE /\ \A k \in DOMAIN rebuild : Rewriting(k) => k = r
                             /\ \A t \in curated' : cases'[t] # "none"
      <3>1. /\ \A k \in DOMAIN rebuild : Rewriting(k) => k = r
            /\ \A t \in curated : rebuild[r].records[t] # "none"
        BY <1>1, <2>2, <2>5 DEF FileInHand, Rewriting
      <3>2. mine = Traces
        BY <2>1, <3>1
      <3>3. QED
        BY <2>1, <2>2, <3>1, <3>2
    <2>6. FileInHand'
      BY <1>1, <2>2, <2>3, <2>5 DEF FileInHand, Rewriting
    <2>7. CasesKept'
      BY <2>2, <2>5 DEF CasesKept
    <2>8. QED
      BY <2>2, <2>3, <2>4, <2>6, <2>7
  <1>6. CASE RebuildDies(r)
    <2>1. /\ rebuild[r].step # "idle" /\ curated' = curated
          /\ rebuild' = [rebuild EXCEPT ![r] = [step |-> "idle", rows |-> NoCases,
                                                records |-> NoCases]]
      BY <1>6 DEF RebuildDies
    <2>2. /\ rebuild' \in [ApiRebuilds \cup CliRebuilds -> Rebuilding]
          /\ rebuild'[r].step = "idle"
          /\ \A k \in DOMAIN rebuild : k # r => rebuild'[k] = rebuild[k]
      BY <1>1, <2>1 DEF Rebuilding, NoCases, CaseMaps
    <2>3. CASE rebuild[r].step = "writing"
      <3>1. PICK written \in SUBSET Traces :
              /\ cases' = [t \in Traces |-> IF t \in written THEN rebuild[r].records[t]
                                            ELSE cases[t]]
              /\ torn' = TRUE
        BY <1>6, <2>3 DEF RebuildDies
      <3>2. cases' \in CaseMaps
        BY <1>1, <3>1 DEF Rebuilding, CaseMaps
      <3>3. FileInHand' /\ CasesKept'
        BY <3>1 DEF FileInHand, CasesKept
      <3>4. QED
        BY <2>1, <2>2, <3>1, <3>2, <3>3
    <2>4. CASE rebuild[r].step # "writing"
      <3>1. UNCHANGED <<cases, torn>>
        BY <1>6, <2>4 DEF RebuildDies
      <3>2. FileInHand'
        BY <1>1, <2>1, <2>2, <3>1 DEF FileInHand, Rewriting
      <3>3. CasesKept'
        BY <1>1, <2>1, <2>2, <2>4, <3>1 DEF CasesKept
      <3>4. QED
        BY <2>1, <2>2, <3>1, <3>2, <3>3
    <2>5. QED
      BY <2>3, <2>4
  <1>7. QED
    BY <1>2, <1>3, <1>4, <1>5, <1>6 DEF RebuildStep

LEMMA ReviewStep ==
  RowsInv /\ CasesInv /\ [ReviewNext]_reviewVars => RowsInv' /\ CasesInv' /\ [ByHand]_reviewVars
  <1> SUFFICES ASSUME RowsInv, CasesInv, [ReviewNext]_reviewVars
               PROVE  RowsInv' /\ CasesInv' /\ [ByHand]_reviewVars
    OBVIOUS
  <1>1. UNCHANGED <<rebuild, cases, curated, torn>> => CasesInv'
    BY DEF CasesInv, CaseTypes, FileInHand, CasesKept, Rewriting
  <1>2. UNCHANGED <<review, batch, decisions>> => RowsInv' /\ ByHand
    BY DEF RowsInv, RowTypes, RowsLocked, ByHand
  <1>3. CASE ScanTraces \/ \E t \in Traces : DecideInUI(t)
    BY <1>1, <1>3, RowsByUI DEF ScanTraces, DecideInUI
  <1>4. ASSUME NEW i \in Imports, ImportStep(i) PROVE RowsInv' /\ CasesInv' /\ ByHand
    <2>1. UNCHANGED <<rebuild, cases, curated, torn>>
      BY <1>4 DEF ImportStep, ExportBatch, BeginImport, SelectRow, UpdateRow, CommitImport,
         AbortImport
    <2>2. QED
      BY <1>1, <1>4, <2>1, RowsByImport
  <1>5. ASSUME NEW r \in ApiRebuilds \cup CliRebuilds, RebuildStep(r)
        PROVE  RowsInv' /\ CasesInv' /\ ByHand
    <2>1. UNCHANGED <<review, batch, decisions>>
      BY <1>5 DEF RebuildStep, QueryConfirmed, LoadExisting, OpenFile, WriteFile, RebuildDies
    <2>2. QED
      BY <1>2, <1>5, <2>1, CasesByRebuild DEF RowsInv
  <1>6. CASE UNCHANGED reviewVars
    BY <1>1, <1>2, <1>6 DEF reviewVars
  <1>7. QED
    BY <1>3, <1>4, <1>5, <1>6 DEF ReviewNext

\* A decision is changed only by hand, however imports overlap each other and the admin UI, and
\* rebuilds keep every case while no write is cut off and none crosses another.
THEOREM ReviewIsSafe == ReviewSpec => ReviewSafety
  <1>1. RowsInv /\ CasesInv => ReviewTypeOK /\ CasesKept
    BY DEF RowsInv, CasesInv, RowTypes, CaseTypes, ReviewTypeOK, Batches, CaseMaps
  <1>2. ReviewSpec => [](ReviewTypeOK /\ CasesKept)
    BY <1>1, ReviewInitInv, ReviewStep, PTL DEF ReviewSpec
  <1>3. [ByHand]_reviewVars =>
          [\A t \in Traces : review[t] \notin {"absent", "pending", review'[t]}
                             => decisions' = decisions + 1]_reviewVars
    BY DEF ByHand
  <1>4. ReviewSpec => DecisionsChangeByHand
    BY <1>3, ReviewInitInv, ReviewStep, PTL DEF ReviewSpec, DecisionsChangeByHand
  <1>5. QED
    BY <1>2, <1>4, PTL DEF ReviewSafety

----------------------------------------------------------------------------
(* Backup.                                                                 *)

Forms == {"clear", "encrypted"}

SnapshotTypes ==
    /\ BackupTypeOK
    /\ run \in [step : {"idle", "copy", "copying", "encrypt", "manifest"}, next : 1..4,
               base : SUBSET Documents, digest : [Store -> 0..MaxRuns]]

\* A digest names a run that has started, and the run at work only names its own.
DigestsPast ==
    /\ \A f \in Forms, s \in Store : copies[f][s].digest \in 0..runs \cup {Rotten}
    /\ \A s \in Store : run.digest[s] \in {0, runs}
    /\ \A s \in Store : manifest.digest[s] \in 0..runs
    /\ \A s, t \in InManifest : manifest.digest[s] = manifest.digest[t]

\* What a file holds is what was copied, unless the copy had rotted when it was encrypted.
AsCopied(f, s) == f = "clear" \/ s \notin damaged

\* The index a run has copied is not ahead of the system, ...
IndexBehind ==
    \A f \in Forms : AsCopied(f, "chroma") /\ copies[f]["chroma"].digest = runs =>
        /\ copies[f]["chroma"].docs \subseteq Holds("chroma")
        /\ run.step = "copying" /\ run.next = 4 => copies[f]["chroma"].docs \subseteq run.base

\* ... no file is copied before the index, ...
FilesLast ==
    run.step \in {"copy", "copying"} =>
        \A f \in Forms : copies[f]["uploads"].digest # runs \/ runs = 0

\* ... and so an index and files of one run fit.
RunsFit ==
    \A f, g \in Forms :
        /\ AsCopied(f, "chroma") /\ AsCopied(g, "uploads")
        /\ copies[f]["chroma"].digest = copies[g]["uploads"].digest
        /\ copies[f]["chroma"].digest \notin {0, Rotten}
        => copies[f]["chroma"].docs \subseteq copies[g]["uploads"].docs

\* With encryption a run has no clear file left of the stores it is done with.
ClearedBefore(n) ==
    \A i \in 1..4 : i < n /\ run.digest[Stores[i]] # 0 => copies["clear"][Stores[i]].digest = 0

NothingClear ==
    Encrypting =>
        /\ run.step = "encrypt" => ClearedBefore(run.next)
        /\ run.step = "manifest" => ClearedBefore(5)
        /\ \A s \in Store : manifest.digest[s] = runs /\ runs # 0 =>
              /\ run.step = "idle"
              /\ \A t \in InManifest : copies["clear"][t].digest = 0

\* Without encryption nothing is encrypted.
NothingEncrypted == ~Encrypting => damaged = {} /\ run.step # "encrypt"

BackupInv ==
    /\ SnapshotTypes /\ DigestsPast /\ IndexBehind /\ FilesLast /\ RunsFit /\ NothingClear
    /\ NothingEncrypted

LEMMA StoreNames ==
    /\ Len(Stores) = 4
    /\ Stores[1] = "traces" /\ Stores[2] = "postgres"
    /\ Stores[3] = "chroma" /\ Stores[4] = "uploads"
    /\ \A i \in 1..4 : Stores[i] \in Store
    /\ \A s \in Store : \E i \in 1..4 : s = Stores[i]
  <1>1. \A i \in 1..4 : i = 1 \/ i = 2 \/ i = 3 \/ i = 4
    OBVIOUS
  <1>2. /\ Len(Stores) = 4
        /\ Stores[1] = "traces" /\ Stores[2] = "postgres"
        /\ Stores[3] = "chroma" /\ Stores[4] = "uploads"
    BY DEF Stores
  <1> QED
    BY <1>1, <1>2 DEF Store

LEMMA HoldsMore ==
    ASSUME BackupTypeOK
    PROVE  Holds("chroma") \subseteq Holds("uploads") /\ \A s \in Store : Holds(s) \subseteq Documents
  BY DEF Holds, Store

LEMMA BackupInitInv == BackupInit => BackupInv
  <1> SUFFICES ASSUME BackupInit PROVE BackupInv
    OBVIOUS
  <1>1. MaxRuns \in Nat /\ Encrypting \in BOOLEAN
    BY BackupAssumption
  <1>2. SnapshotTypes
    BY <1>1 DEF BackupInit, SnapshotTypes, BackupTypeOK, NoFile, NoDigests, Rotten
  <1>3. DigestsPast /\ FilesLast /\ IndexBehind
    BY <1>1 DEF BackupInit, DigestsPast, FilesLast, IndexBehind, InManifest, NoFile, NoDigests,
                Store, Forms, Rotten
  <1>4. RunsFit /\ NothingClear
    BY <1>1 DEF BackupInit, RunsFit, NothingClear, NoFile, NoDigests, Store, Forms, Rotten
  <1>5. NothingEncrypted
    BY DEF BackupInit, NothingEncrypted
  <1> QED
    BY <1>2, <1>3, <1>4, <1>5 DEF BackupInv

LEMMA AfterStore ==
    ASSUME SnapshotTypes, NEW d \in 0..MaxRuns, NEW phase \in {"copy", "encrypt"}
    PROVE  /\ Proceed(d, phase).step \in {"copy", "encrypt", "manifest"}
           /\ Proceed(d, phase).next \in 1..4
           /\ Proceed(d, phase).digest \in [Store -> 0..MaxRuns]
           /\ Proceed(d, phase).digest = [run.digest EXCEPT ![CurrentStore] = d]
           /\ Proceed(d, phase).step = "copy" => run.next # 4 /\ phase = "copy"
           /\ Proceed(d, phase).step = "encrypt" =>
                 Proceed(d, phase).next =
                    IF phase = "copy" THEN 1 ELSE run.next + 1
           /\ phase = "encrypt" /\ Proceed(d, phase).step = "manifest" => run.next = 4
           /\ phase = "copy" /\ Encrypting => Proceed(d, phase).step # "manifest"
           /\ phase = "copy" /\ ~Encrypting => Proceed(d, phase).step # "encrypt"
           /\ CurrentStore \in Store
           /\ Proceed(d, phase) \in [step : {"idle", "copy", "copying", "encrypt", "manifest"},
                 next : 1..4, base : SUBSET Documents, digest : [Store -> 0..MaxRuns]]
  BY StoreNames DEF Proceed, CurrentStore, SnapshotTypes, BackupTypeOK

LEMMA BackupTypes == BackupInv /\ [BackupNext]_backupVars => SnapshotTypes'
  <1> SUFFICES ASSUME BackupInv, [BackupNext]_backupVars PROVE SnapshotTypes'
    OBVIOUS
  <1>1. /\ SnapshotTypes /\ MaxRuns \in Nat /\ Rotten = MaxRuns + 1 /\ NoDigests \in [Store -> 0..MaxRuns]
        /\ NoFile \in [docs : SUBSET Documents, digest : 0..Rotten]
        /\ CurrentStore \in Store
    BY BackupAssumption, StoreNames
       DEF BackupInv, Rotten, NoDigests, NoFile, CurrentStore, SnapshotTypes, BackupTypeOK
  <1>2. ASSUME NEW d \in Documents, Ingest(d) PROVE SnapshotTypes'
    BY <1>1, <1>2 DEF SnapshotTypes, BackupTypeOK, Ingest
  <1>3. CASE StartSnapshot
    BY <1>1, <1>3 DEF SnapshotTypes, BackupTypeOK, StartSnapshot
  <1>4. CASE BeginCopy
    BY <1>1, <1>4, HoldsMore DEF SnapshotTypes, BackupTypeOK, BeginCopy
  <1>5. CASE EndCopy
    <2>1. PICK docs \in SUBSET Holds(CurrentStore) :
              copies' = [copies EXCEPT !["clear"][CurrentStore] = [docs |-> docs, digest |-> runs]]
      BY <1>5 DEF EndCopy
    <2>2. docs \subseteq Documents /\ runs \in 0..Rotten /\ runs \in 0..MaxRuns
      BY <1>1, HoldsMore DEF SnapshotTypes, BackupTypeOK
    <2>3. copies' \in [{"clear", "encrypted"} -> [Store -> [docs : SUBSET Documents, digest : 0..Rotten]]]
      BY <1>1, <2>1, <2>2 DEF SnapshotTypes, BackupTypeOK
    <2> QED
      BY <1>1, <1>5, <2>2, <2>3, AfterStore DEF SnapshotTypes, BackupTypeOK, EndCopy
  <1>6. CASE CopyFails
    <2> DEFINE old == copies["clear"][CurrentStore]
               new == IF CurrentStore = "postgres" THEN NoFile
                      ELSE [old EXCEPT !.digest = Rotten]
    <2>1. old \in [docs : SUBSET Documents, digest : 0..Rotten] /\ Rotten \in 0..Rotten
      BY <1>1 DEF SnapshotTypes, BackupTypeOK
    <2>2. new \in [docs : SUBSET Documents, digest : 0..Rotten]
      BY <1>1, <2>1
    <2>3. copies' = copies \/ copies' = [copies EXCEPT !["clear"][CurrentStore] = new]
      BY <1>6 DEF CopyFails
    <2> HIDE DEF new
    <2>4. copies' \in [{"clear", "encrypted"} -> [Store -> [docs : SUBSET Documents, digest : 0..Rotten]]]
      <3>1. copies \in [{"clear", "encrypted"} -> [Store -> [docs : SUBSET Documents, digest : 0..Rotten]]]
        BY <1>1 DEF SnapshotTypes, BackupTypeOK
      <3>2. CurrentStore \in Store
        BY <1>1
      <3> QED
        BY <2>2, <2>3, <3>1, <3>2
    <2>5. /\ 0 \in 0..MaxRuns /\ "copy" \in {"copy", "encrypt"} /\ run' = Proceed(0, "copy")
          /\ UNCHANGED <<live, damaged, manifest, runs>>
      BY <1>1, <1>6 DEF CopyFails
    <2>6. run' \in [step : {"idle", "copy", "copying", "encrypt", "manifest"}, next : 1..4,
                    base : SUBSET Documents, digest : [Store -> 0..MaxRuns]]
      BY <1>1, <2>5, AfterStore
    <2> QED
      BY <1>1, <2>4, <2>5, <2>6 DEF SnapshotTypes, BackupTypeOK
  <1>7. CASE EncryptStore
    <2>1. copies' \in [{"clear", "encrypted"} -> [Store -> [docs : SUBSET Documents, digest : 0..Rotten]]]
      <3> DEFINE Files == [docs : SUBSET Documents, digest : 0..Rotten]
      <3>1. copies \in [{"clear", "encrypted"} -> [Store -> Files]] /\ CurrentStore \in Store
        BY <1>1 DEF SnapshotTypes, BackupTypeOK
      <3>2. copies' \in {copies, EncryptFile(CurrentStore)} /\ NoFile \in Files
        BY <1>1, <1>7 DEF EncryptStore
      <3> DEFINE moved == [copies["clear"][CurrentStore] EXCEPT !.digest = IF @ = Rotten THEN runs ELSE @]
      <3>4. moved \in Files
        <4>1. copies["clear"][CurrentStore] \in Files /\ runs \in 0..Rotten
          BY <1>1 DEF SnapshotTypes, BackupTypeOK
        <4> QED
          BY <4>1
      <3>5. EncryptFile(CurrentStore) = [copies EXCEPT !["encrypted"][CurrentStore] = moved,
                                                      !["clear"][CurrentStore] = NoFile]
        BY DEF EncryptFile
      <3> HIDE DEF Files, moved
      <3>3. EncryptFile(CurrentStore) \in [{"clear", "encrypted"} -> [Store -> Files]]
        BY <3>1, <3>2, <3>4, <3>5
      <3> QED
        BY <3>1, <3>2, <3>3 DEF Files
    <2>2. run.digest[CurrentStore] \in 0..MaxRuns
      BY <1>1 DEF SnapshotTypes
    <2>3. damaged' \subseteq Store
      BY <1>1, <1>7 DEF SnapshotTypes, BackupTypeOK, EncryptStore
    <2>4. run' \in [step : {"idle", "copy", "copying", "encrypt", "manifest"}, next : 1..4,
                    base : SUBSET Documents, digest : [Store -> 0..MaxRuns]]
      BY <1>1, <1>7, <2>2, AfterStore DEF EncryptStore
    <2>5. UNCHANGED <<live, manifest, runs>>
      BY <1>7 DEF EncryptStore
    <2> QED
      BY <1>1, <2>1, <2>3, <2>4, <2>5 DEF SnapshotTypes, BackupTypeOK
  <1>8. CASE WriteManifest
    BY <1>1, <1>8 DEF SnapshotTypes, BackupTypeOK, WriteManifest
  <1>9. CASE RunDies
    <2>1. manifest' \in [state : {"none", "torn", "full"}, digest : [Store -> 0..MaxRuns]]
      BY <1>1, <1>9 DEF SnapshotTypes, BackupTypeOK, RunDies
    <2>2. run' \in [step : {"idle", "copy", "copying", "encrypt", "manifest"}, next : 1..4,
                    base : SUBSET Documents, digest : [Store -> 0..MaxRuns]]
      BY <1>1, <1>9 DEF SnapshotTypes, RunDies
    <2>3. UNCHANGED <<live, copies, damaged, runs>>
      BY <1>9 DEF RunDies
    <2> QED
      BY <1>1, <2>1, <2>2, <2>3 DEF SnapshotTypes, BackupTypeOK
  <1>10. CASE Rot \/ RunDiesWriting
    <2> DEFINE Files == [docs : SUBSET Documents, digest : 0..Rotten]
    <2>1. PICK f \in {"clear", "encrypted"}, s \in Store :
              \/ copies' = [copies EXCEPT ![f][s].digest = Rotten]
              \/ copies' = [copies EXCEPT ![f][s] = NoFile]
      BY <1>1, <1>10 DEF Rot, RunDiesWriting
    <2>2. copies \in [{"clear", "encrypted"} -> [Store -> Files]]
      BY <1>1 DEF SnapshotTypes, BackupTypeOK
    <2>3. [copies[f][s] EXCEPT !.digest = Rotten] \in Files /\ NoFile \in Files
      <3>1. copies[f][s] \in Files
        BY <2>2
      <3>2. Rotten \in 0..Rotten
        BY <1>1
      <3> QED
        BY <1>1, <3>1, <3>2
    <2> HIDE DEF Files
    <2>4. PICK new \in Files : copies' = [copies EXCEPT ![f] = [copies[f] EXCEPT ![s] = new]]
      BY <2>1, <2>2, <2>3
    <2>5. copies' \in [{"clear", "encrypted"} -> [Store -> Files]]
      BY <2>2, <2>4
    <2>6. run' \in [step : {"idle", "copy", "copying", "encrypt", "manifest"}, next : 1..4,
                    base : SUBSET Documents, digest : [Store -> 0..MaxRuns]]
      BY <1>1, <1>10 DEF SnapshotTypes, Rot, RunDiesWriting
    <2>7. UNCHANGED <<live, damaged, manifest, runs>>
      BY <1>10 DEF Rot, RunDiesWriting
    <2> QED
      BY <1>1, <2>5, <2>6, <2>7 DEF SnapshotTypes, BackupTypeOK, Files
  <1>11. CASE UNCHANGED backupVars
    BY <1>1, <1>11 DEF SnapshotTypes, BackupTypeOK, backupVars
  <1> QED
    BY <1>2, <1>3, <1>4, <1>5, <1>6, <1>7, <1>8, <1>9, <1>10, <1>11 DEF BackupNext

\* What a step does to the copies: one file is put in its place, moved or spoilt.
LEMMA Spoilt ==
    ASSUME BackupInv, CopyFails \/ Rot \/ RunDiesWriting, NEW f \in Forms, NEW s \in Store
    PROVE  /\ copies'[f][s].digest \in {copies[f][s].digest, 0, Rotten}
           /\ copies'[f][s].digest = 0 => copies'[f][s] \in {copies[f][s], NoFile}
           /\ copies'[f][s].docs \in {copies[f][s].docs, {}}
           /\ copies'[f][s].digest \notin {0, Rotten} => copies'[f][s] = copies[f][s]
           /\ UNCHANGED <<live, damaged, manifest, runs>>
  <1>1. /\ copies \in [Forms -> [Store -> [docs : SUBSET Documents, digest : 0..Rotten]]]
        /\ Rotten = MaxRuns + 1 /\ MaxRuns \in Nat /\ CurrentStore \in Store
        /\ "clear" \in Forms
    BY BackupAssumption, StoreNames
       DEF BackupInv, SnapshotTypes, BackupTypeOK, Forms, Rotten, CurrentStore
  <1>2. CASE Rot \/ RunDiesWriting
    <2>1. PICK g \in Forms, t \in Store :
              \/ copies' = [copies EXCEPT ![g][t].digest = Rotten]
              \/ copies' = [copies EXCEPT ![g][t] = NoFile]
      BY <1>1, <1>2 DEF Rot, RunDiesWriting, Forms
    <2>2. \/ copies'[f][s] = copies[f][s]
          \/ copies'[f][s] = [copies[f][s] EXCEPT !.digest = Rotten]
          \/ copies'[f][s] = NoFile
      <3>1. CASE copies' = [copies EXCEPT ![g][t].digest = Rotten]
        BY <1>1, <3>1
      <3>2. CASE copies' = [copies EXCEPT ![g][t] = NoFile]
        BY <1>1, <3>2
      <3> QED
        BY <2>1, <3>1, <3>2
    <2>3. UNCHANGED <<live, damaged, manifest, runs>>
      BY <1>2 DEF Rot, RunDiesWriting
    <2>4. copies[f][s] \in [docs : SUBSET Documents, digest : 0..Rotten]
      BY <1>1
    <2> QED
      BY <1>1, <2>2, <2>3, <2>4 DEF NoFile
  <1>3. CASE CopyFails
    <2>1. copies'[f][s] =
              IF copies' = copies THEN copies[f][s]
              ELSE IF f = "clear" /\ s = CurrentStore
              THEN IF s = "postgres" THEN NoFile ELSE [copies[f][s] EXCEPT !.digest = Rotten]
              ELSE copies[f][s]
      <3>1. CASE copies' = copies
        BY <3>1
      <3>2. CASE copies' # copies
        <4>1. copies' = [copies EXCEPT !["clear"][CurrentStore] =
                 IF CurrentStore = "postgres" THEN NoFile ELSE [@ EXCEPT !.digest = Rotten]]
          BY <1>3, <3>2 DEF CopyFails
        <4> QED
          BY <1>1, <3>2, <4>1
      <3> QED
        BY <3>1, <3>2
    <2>2. UNCHANGED <<live, damaged, manifest, runs>>
      BY <1>3 DEF CopyFails
    <2>3. copies[f][s] \in [docs : SUBSET Documents, digest : 0..Rotten]
      BY <1>1
    <2> QED
      BY <1>1, <2>1, <2>2, <2>3 DEF NoFile
  <1> QED
    BY <1>2, <1>3

LEMMA Copied ==
    ASSUME BackupInv, EndCopy
    PROVE  \E docs \in SUBSET Holds(CurrentStore) :
             /\ run.base \subseteq docs
             /\ \A f \in Forms, s \in Store :
                   copies'[f][s] = IF f = "clear" /\ s = CurrentStore
                                   THEN [docs |-> docs, digest |-> runs] ELSE copies[f][s]
  <1>1. copies \in [Forms -> [Store -> [docs : SUBSET Documents, digest : 0..Rotten]]] /\ CurrentStore \in Store
    BY StoreNames DEF BackupInv, SnapshotTypes, BackupTypeOK, Forms, CurrentStore
  <1>2. PICK docs \in SUBSET Holds(CurrentStore) :
             /\ run.base \subseteq docs
             /\ copies' = [copies EXCEPT !["clear"][CurrentStore] = [docs |-> docs, digest |-> runs]]
    BY DEF EndCopy
  <1>3. \A f \in Forms, s \in Store :
            copies'[f][s] = IF f = "clear" /\ s = CurrentStore
                            THEN [docs |-> docs, digest |-> runs] ELSE copies[f][s]
    BY <1>1, <1>2
  <1> QED
    BY <1>2, <1>3

LEMMA Encrypted ==
    ASSUME BackupInv, EncryptStore, NEW f \in Forms, NEW s \in Store
    PROVE  /\ copies'["clear"][s] = IF s # CurrentStore \/ run.digest[s] = 0
                                    THEN copies["clear"][s] ELSE NoFile
           /\ copies'[f][s].digest \in
                  {copies[f][s].digest, 0, copies["clear"][s].digest, runs}
           /\ AsCopied(f, s)' =>
                 \/ copies'[f][s] = NoFile
                 \/ \E g \in Forms : AsCopied(g, s) /\ copies'[f][s] = copies[g][s]
           /\ run' = Proceed(run.digest[CurrentStore], "encrypt")
           /\ run.digest[CurrentStore] \in 0..MaxRuns
  <1>1. /\ copies \in [Forms -> [Store -> [docs : SUBSET Documents, digest : 0..Rotten]]]
        /\ CurrentStore \in Store /\ run.digest \in [Store -> 0..MaxRuns]
        /\ "clear" \in Forms /\ "encrypted" \in Forms
    BY StoreNames DEF BackupInv, SnapshotTypes, BackupTypeOK, Forms, CurrentStore
  <1> DEFINE old == copies["clear"][CurrentStore]
             moved == [old EXCEPT !.digest = IF @ = Rotten THEN runs ELSE @]
  <1>2. /\ run' = Proceed(run.digest[CurrentStore], "encrypt")
        /\ run.digest[CurrentStore] \in 0..MaxRuns
    BY <1>1 DEF EncryptStore
  <1>3. old \in [docs : SUBSET Documents, digest : 0..Rotten]
    BY <1>1
  <1>4. /\ moved.digest \in {old.digest, runs}
        /\ old.digest # Rotten => moved = old
    BY <1>3
  <1> HIDE DEF moved
  <1>5. CASE s # CurrentStore \/ run.digest[s] = 0
    <2>1. copies'[f][s] = copies[f][s] /\ copies'["clear"][s] = copies["clear"][s]
      <3>1. CASE run.digest[CurrentStore] = 0
        BY <3>1 DEF EncryptStore
      <3>2. CASE run.digest[CurrentStore] # 0
        <4>1. /\ s # CurrentStore
              /\ copies' = [copies EXCEPT !["encrypted"][CurrentStore] = moved,
                                          !["clear"][CurrentStore] = NoFile]
          BY <1>5, <3>2 DEF EncryptStore, EncryptFile, moved
        <4> QED
          BY <1>1, <4>1
      <3> QED
        BY <3>1, <3>2
    <2>2. AsCopied(f, s)' => AsCopied(f, s)
      BY <1>5 DEF EncryptStore, AsCopied
    <2> QED
      BY <1>2, <1>5, <2>1, <2>2
  <1>6. CASE s = CurrentStore /\ run.digest[s] # 0
    <2>1. /\ copies' = [copies EXCEPT !["encrypted"][s] = moved, !["clear"][s] = NoFile]
          /\ damaged' = IF old.digest = Rotten THEN damaged \cup {s} ELSE damaged \ {s}
      BY <1>6 DEF EncryptStore, EncryptFile, moved
    <2>2. copies'["clear"][s] = NoFile /\ copies'["encrypted"][s] = moved
      BY <1>1, <1>6, <2>1
    <2>3. f = "clear" \/ f = "encrypted"
      BY DEF Forms
    <2>4. NoFile.digest = 0
      BY DEF NoFile
    <2>5. ASSUME f = "encrypted", AsCopied(f, s)'
          PROVE  AsCopied("clear", s) /\ copies'[f][s] = copies["clear"][s]
      BY <1>4, <1>6, <2>1, <2>2, <2>5 DEF AsCopied
    <2> QED
      BY <1>1, <1>2, <1>4, <1>6, <2>2, <2>3, <2>4, <2>5
  <1> QED
    BY <1>5, <1>6

\* Steps that leave the copies alone.
Bookkeeping == \/ \E d \in Documents : Ingest(d)
               \/ StartSnapshot \/ BeginCopy \/ WriteManifest \/ RunDies \/ UNCHANGED backupVars

LEMMA DigestsStep ==
    ASSUME BackupInv, [BackupNext]_backupVars, SnapshotTypes'
    PROVE  DigestsPast'
  <1>1. /\ SnapshotTypes /\ DigestsPast /\ MaxRuns \in Nat /\ Rotten = MaxRuns + 1
        /\ runs \in Nat /\ CurrentStore \in Store /\ runs <= MaxRuns
    BY BackupAssumption, StoreNames
       DEF BackupInv, SnapshotTypes, BackupTypeOK, Rotten, CurrentStore
  <1>2. CASE Bookkeeping
    <2>1. UNCHANGED copies /\ runs' \in {runs, runs + 1}
      BY <1>1, <1>2 DEF Bookkeeping, Ingest, StartSnapshot, BeginCopy, WriteManifest, RunDies, backupVars
    <2>2. \A f \in Forms, s \in Store : copies'[f][s].digest \in 0..runs' \cup {Rotten}
      BY <1>1, <2>1 DEF DigestsPast
    <2>3. \A s \in Store : run'.digest[s] \in {0, runs'}
      <3>1. CASE StartSnapshot
        BY <3>1 DEF StartSnapshot, NoDigests
      <3>2. CASE ~StartSnapshot
        <4>1. run'.digest = run.digest /\ runs' = runs
          BY <1>1, <1>2, <3>2 DEF Bookkeeping, Ingest, BeginCopy, WriteManifest, RunDies, backupVars, SnapshotTypes
        <4> QED
          BY <1>1, <4>1 DEF DigestsPast
      <3> QED
        BY <3>1, <3>2
    <2>4. \/ manifest'.digest = manifest.digest
          \/ manifest'.digest = run.digest /\ runs' = runs
          \/ manifest'.digest = NoDigests
      BY <1>2 DEF Bookkeeping, Ingest, StartSnapshot, BeginCopy, WriteManifest, RunDies, backupVars
    <2>5. \A s \in Store : manifest'.digest[s] \in 0..runs'
      <3>1. runs' \in Nat /\ 0..runs \subseteq 0..runs'
        BY <1>1, <2>1
      <3> QED
        BY <1>1, <2>4, <3>1 DEF DigestsPast, NoDigests
    <2>6. \A s, t \in InManifest' : manifest'.digest[s] = manifest'.digest[t]
      BY <1>1, <2>4 DEF DigestsPast, InManifest, NoDigests
    <2> QED
      BY <2>2, <2>3, <2>5, <2>6 DEF DigestsPast
  <1>3. CASE CopyFails \/ Rot \/ RunDiesWriting \/ EndCopy \/ EncryptStore
    <2>1. UNCHANGED <<runs, manifest>>
      BY <1>3 DEF CopyFails, Rot, RunDiesWriting, EndCopy, EncryptStore
    <2>2. \A f \in Forms, s \in Store : copies'[f][s].digest \in 0..runs \cup {Rotten}
      <3> SUFFICES ASSUME NEW f \in Forms, NEW s \in Store
                   PROVE  copies'[f][s].digest \in 0..runs \cup {Rotten}
        OBVIOUS
      <3>1. CASE CopyFails \/ Rot \/ RunDiesWriting
        <4>1. copies'[f][s].digest \in {copies[f][s].digest, 0, Rotten}
          BY <3>1, Spoilt
        <4>2. copies[f][s].digest \in 0..runs \cup {Rotten} /\ 0 \in 0..runs
          BY <1>1 DEF DigestsPast
        <4> QED
          BY <4>1, <4>2
      <3>2. CASE EndCopy
        <4>1. PICK docs : copies'[f][s] = IF f = "clear" /\ s = CurrentStore
                                         THEN [docs |-> docs, digest |-> runs] ELSE copies[f][s]
          BY <3>2, Copied
        <4>2. copies[f][s].digest \in 0..runs \cup {Rotten} /\ runs \in 0..runs
          BY <1>1 DEF DigestsPast
        <4> QED
          BY <4>1, <4>2
      <3>3. CASE EncryptStore
        <4>1. copies'[f][s].digest \in
                  {copies[f][s].digest, 0, copies["clear"][s].digest, runs}
          BY <3>3, Encrypted
        <4>2. /\ copies[f][s].digest \in 0..runs \cup {Rotten} /\ 0 \in 0..runs /\ runs \in 0..runs
              /\ copies["clear"][s].digest \in 0..runs \cup {Rotten}
          BY <1>1 DEF DigestsPast, Forms
        <4> QED
          BY <4>1, <4>2
      <3> QED
        BY <1>3, <3>1, <3>2, <3>3
    <2>3. \A s \in Store : run'.digest[s] \in {0, runs}
      <3>1. CASE Rot \/ RunDiesWriting
        <4>1. run'.digest = run.digest
          BY <1>1, <3>1 DEF Rot, RunDiesWriting, SnapshotTypes
        <4> QED
          BY <1>1, <4>1 DEF DigestsPast
      <3>2. CASE CopyFails \/ EndCopy
        <4>1. PICK d \in {0, runs} : run' = Proceed(d, "copy")
          BY <3>2 DEF CopyFails, EndCopy
        <4>2. run'.digest = [run.digest EXCEPT ![CurrentStore] = d]
          BY <1>1, <4>1, AfterStore
        <4> QED
          BY <1>1, <4>2 DEF DigestsPast, SnapshotTypes
      <3>3. CASE EncryptStore
        <4>1. PICK d \in 0..MaxRuns : d = run.digest[CurrentStore] /\ run' = Proceed(d, "encrypt")
          BY <1>1, <3>3 DEF EncryptStore, SnapshotTypes
        <4>2. run'.digest = [run.digest EXCEPT ![CurrentStore] = d]
          BY <1>1, <4>1, AfterStore
        <4> QED
          BY <1>1, <4>1, <4>2 DEF DigestsPast, SnapshotTypes
      <3> QED
        BY <1>3, <3>1, <3>2, <3>3
    <2>4. \A s \in Store : manifest'.digest[s] \in 0..runs'
      BY <1>1, <2>1 DEF DigestsPast
    <2>5. \A s, t \in InManifest' : manifest'.digest[s] = manifest'.digest[t]
      BY <1>1, <2>1 DEF DigestsPast, InManifest
    <2> QED
      BY <2>1, <2>2, <2>3, <2>4, <2>5 DEF DigestsPast
  <1> QED
    BY <1>2, <1>3 DEF BackupNext, Bookkeeping

LEMMA IndexStep ==
    ASSUME BackupInv, [BackupNext]_backupVars, SnapshotTypes'
    PROVE  IndexBehind'
  <1>1. /\ SnapshotTypes /\ DigestsPast /\ IndexBehind /\ MaxRuns \in Nat /\ Rotten = MaxRuns + 1
        /\ runs \in Nat /\ CurrentStore \in Store /\ runs <= MaxRuns /\ runs # Rotten
        /\ "chroma" \in Store /\ Holds("chroma") = {d \in Documents : live[d] = "indexed"}
    BY BackupAssumption, StoreNames
       DEF BackupInv, SnapshotTypes, BackupTypeOK, Rotten, CurrentStore, Store, Holds
  <1> SUFFICES ASSUME NEW f \in Forms, AsCopied(f, "chroma")', copies'[f]["chroma"].digest = runs'
               PROVE  /\ copies'[f]["chroma"].docs \subseteq Holds("chroma")'
                      /\ run'.step = "copying" /\ run'.next = 4
                            => copies'[f]["chroma"].docs \subseteq run'.base
    BY DEF IndexBehind
  <1>2. CASE StartSnapshot
    <2>1. copies'[f]["chroma"].digest \in 0..runs \cup {Rotten} /\ runs' = runs + 1
      BY <1>1, <1>2 DEF StartSnapshot, DigestsPast
    <2>2. runs' <= MaxRuns
      BY DEF SnapshotTypes, BackupTypeOK
    <2> QED
      BY <1>1, <2>1, <2>2
  <1>3. ASSUME copies'[f]["chroma"] = copies[f]["chroma"], UNCHANGED <<damaged, runs>>,
               \/ run' = run
               \/ run'.step # "copying"
        PROVE  /\ copies'[f]["chroma"].docs \subseteq Holds("chroma")
               /\ run'.step = "copying" /\ run'.next = 4
                     => copies'[f]["chroma"].docs \subseteq run'.base
    BY <1>1, <1>3 DEF IndexBehind, AsCopied
  <1>4. ASSUME NEW d \in Documents, Ingest(d) PROVE Holds("chroma") \subseteq Holds("chroma")'
    <2>1. \A e \in Documents : live[e] = "indexed" => live'[e] = "indexed"
      BY <1>1, <1>4 DEF Ingest, SnapshotTypes, BackupTypeOK
    <2>2. Holds("chroma")' = {e \in Documents : live'[e] = "indexed"}
      BY DEF Holds
    <2> QED
      BY <1>1, <2>1, <2>2
  <1>5. UNCHANGED live => Holds("chroma")' = Holds("chroma")
    BY DEF Holds
  <1>6. ASSUME NEW d \in Documents, Ingest(d)
        PROVE  copies' = copies /\ UNCHANGED <<damaged, runs>> /\ run' = run
    BY <1>6 DEF Ingest
  <1>7. CASE \E d \in Documents : Ingest(d)
    BY <1>3, <1>4, <1>6, <1>7
  <1>8. CASE BeginCopy
    <2>1. copies[f]["chroma"].docs \subseteq Holds("chroma")
      BY <1>1, <1>8 DEF BeginCopy, IndexBehind, AsCopied
    <2>2. run.next = 4 => CurrentStore = "uploads"
      BY StoreNames DEF CurrentStore
    <2>3. run' = [run EXCEPT !.step = "copying", !.base = Holds(CurrentStore)]
          /\ UNCHANGED <<live, copies>>
      BY <1>8 DEF BeginCopy
    <2>4. run'.next = run.next /\ run'.base = Holds(CurrentStore)
      BY <1>1, <2>3 DEF SnapshotTypes
    <2>5. Holds("chroma") \subseteq Holds("uploads")
      BY <1>1, HoldsMore DEF SnapshotTypes
    <2> QED
      BY <1>5, <2>1, <2>2, <2>3, <2>4, <2>5
  <1>9. CASE WriteManifest \/ RunDies
    <2>1. run'.step # "copying" /\ UNCHANGED <<live, copies, damaged, runs>>
      BY <1>1, <1>9 DEF WriteManifest, RunDies, SnapshotTypes
    <2> QED
      BY <1>3, <1>5, <2>1
  <1>10. CASE UNCHANGED backupVars
    BY <1>3, <1>5, <1>10 DEF backupVars
  <1>11. CASE CopyFails \/ Rot \/ RunDiesWriting
    <2>1. UNCHANGED <<live, damaged, runs>> /\ (run' = run \/ run'.step # "copying")
      <3>1. /\ UNCHANGED <<live, damaged, runs>>
            /\ run' = run \/ run' = Proceed(0, "copy") \/ run'.step = "idle"
        BY <1>1, <1>11 DEF CopyFails, Rot, RunDiesWriting, SnapshotTypes
      <3>2. 0 \in 0..MaxRuns
        BY <1>1
      <3> QED
        BY <1>1, <3>1, <3>2, AfterStore
    <2>2. copies'[f]["chroma"] \in {copies[f]["chroma"], NoFile}
      <3>1. /\ copies'[f]["chroma"].digest \notin {0, Rotten} => copies'[f]["chroma"] = copies[f]["chroma"]
            /\ copies'[f]["chroma"].digest = 0 => copies'[f]["chroma"] \in {copies[f]["chroma"], NoFile}
        BY <1>1, <1>11, Spoilt
      <3> QED
        BY <1>1, <2>1, <3>1
    <2>3. NoFile.docs = {}
      BY DEF NoFile
    <2> QED
      BY <1>3, <1>5, <2>1, <2>2, <2>3
  <1>12. CASE EndCopy
    <2>1. PICK docs \in SUBSET Holds(CurrentStore) :
             copies'[f]["chroma"] = IF f = "clear" /\ "chroma" = CurrentStore
                                    THEN [docs |-> docs, digest |-> runs] ELSE copies[f]["chroma"]
      BY <1>1, <1>12, Copied
    <2>2. UNCHANGED <<live, damaged, runs>> /\ run'.step # "copying"
      <3>1. UNCHANGED <<live, damaged, runs>> /\ run' = Proceed(runs, "copy") /\ runs \in 0..MaxRuns
        BY <1>1, <1>12 DEF EndCopy
      <3> QED
        BY <1>1, <3>1, AfterStore
    <2>3. CASE f = "clear" /\ "chroma" = CurrentStore
      BY <1>5, <2>1, <2>2, <2>3
    <2>4. CASE ~(f = "clear" /\ "chroma" = CurrentStore)
      BY <1>3, <1>5, <2>1, <2>2, <2>4
    <2> QED
      BY <2>3, <2>4
  <1>13. CASE EncryptStore
    <2>1. UNCHANGED <<live, runs>>
      BY <1>13 DEF EncryptStore
    <2>2. run'.step # "copying"
      BY <1>1, <1>13, Encrypted, AfterStore
    <2>3. NoFile.docs = {}
      BY DEF NoFile
    <2>4. \/ copies'[f]["chroma"] = NoFile
          \/ \E g \in Forms : AsCopied(g, "chroma") /\ copies'[f]["chroma"] = copies[g]["chroma"]
      BY <1>1, <1>13, Encrypted
    <2>5. copies'[f]["chroma"].docs \subseteq Holds("chroma")
      BY <1>1, <2>1, <2>3, <2>4 DEF IndexBehind
    <2> QED
      BY <1>5, <2>1, <2>2, <2>5
  <1> QED
    BY <1>2, <1>7, <1>8, <1>9, <1>10, <1>11, <1>12, <1>13 DEF BackupNext

LEMMA FilesStep ==
    ASSUME BackupInv, [BackupNext]_backupVars, SnapshotTypes'
    PROVE  FilesLast'
  <1>1. /\ SnapshotTypes /\ DigestsPast /\ FilesLast /\ MaxRuns \in Nat /\ Rotten = MaxRuns + 1
        /\ runs \in Nat /\ CurrentStore \in Store /\ runs <= MaxRuns /\ runs # Rotten
        /\ "uploads" \in Store
    BY BackupAssumption, StoreNames
       DEF BackupInv, SnapshotTypes, BackupTypeOK, Rotten, CurrentStore, Store
  <1> SUFFICES ASSUME run'.step \in {"copy", "copying"}, NEW f \in Forms, runs' # 0
               PROVE  copies'[f]["uploads"].digest # runs'
    BY DEF FilesLast
  <1>2. CASE StartSnapshot
    <2>1. copies'[f]["uploads"].digest \in 0..runs \cup {Rotten} /\ runs' = runs + 1
      BY <1>1, <1>2 DEF StartSnapshot, DigestsPast
    <2>2. runs' <= MaxRuns
      BY DEF SnapshotTypes, BackupTypeOK
    <2> QED
      BY <1>1, <2>1, <2>2
  <1>3. CASE (\E d \in Documents : Ingest(d)) \/ BeginCopy \/ UNCHANGED backupVars
    BY <1>1, <1>3 DEF Ingest, BeginCopy, backupVars, FilesLast
  <1>4. CASE WriteManifest \/ RunDies
    BY <1>1, <1>4 DEF WriteManifest, RunDies, SnapshotTypes
  <1>5. CASE CopyFails \/ Rot \/ RunDiesWriting
    <2>1. copies'[f]["uploads"].digest \in {copies[f]["uploads"].digest, 0, Rotten} /\ runs' = runs
      BY <1>1, <1>5, Spoilt
    <2>2. run.step \in {"copy", "copying"}
      BY <1>1, <1>5 DEF CopyFails, Rot, RunDiesWriting, SnapshotTypes
    <2> QED
      BY <1>1, <2>1, <2>2 DEF FilesLast
  <1>6. CASE EndCopy
    <2>1. PICK docs : copies'[f]["uploads"] = IF f = "clear" /\ "uploads" = CurrentStore
                                    THEN [docs |-> docs, digest |-> runs] ELSE copies[f]["uploads"]
      BY <1>1, <1>6, Copied
    <2>2. UNCHANGED <<live, runs>> /\ run' = Proceed(runs, "copy") /\ runs \in 0..MaxRuns
          /\ run.step = "copying"
      BY <1>1, <1>6 DEF EndCopy
    <2>3. run'.step = "copy" => run.next # 4
      BY <1>1, <2>2, AfterStore
    <2>4. run'.step = "copy"
      BY <1>1, <2>2, AfterStore
    <2>5. run.next # 4 => "uploads" # CurrentStore
      BY <1>1, StoreNames DEF CurrentStore, SnapshotTypes
    <2> QED
      BY <1>1, <2>1, <2>2, <2>3, <2>4, <2>5 DEF FilesLast
  <1>7. CASE EncryptStore
    <2>1. run' = Proceed(run.digest[CurrentStore], "encrypt") /\ run.digest[CurrentStore] \in 0..MaxRuns
      BY <1>1, <1>7, Encrypted
    <2> QED
      BY <1>1, <2>1, AfterStore
  <1> QED
    BY <1>2, <1>3, <1>4, <1>5, <1>6, <1>7 DEF BackupNext

LEMMA FitStep ==
    ASSUME BackupInv, [BackupNext]_backupVars, SnapshotTypes'
    PROVE  RunsFit'
  <1>1. /\ SnapshotTypes /\ RunsFit /\ IndexBehind /\ FilesLast
        /\ "chroma" \in Store /\ "uploads" \in Store /\ CurrentStore \in Store
    BY StoreNames DEF BackupInv, Store, CurrentStore, SnapshotTypes, BackupTypeOK
  <1> SUFFICES ASSUME NEW f \in Forms, NEW g \in Forms,
                      AsCopied(f, "chroma")', AsCopied(g, "uploads")',
                      copies'[f]["chroma"].digest = copies'[g]["uploads"].digest,
                      copies'[f]["chroma"].digest \notin {0, Rotten}
               PROVE  copies'[f]["chroma"].docs \subseteq copies'[g]["uploads"].docs
    BY DEF RunsFit, Rotten
  <1>2. CASE UNCHANGED <<copies, damaged>>
    BY <1>1, <1>2 DEF RunsFit, AsCopied
  <1>3. CASE CopyFails \/ Rot \/ RunDiesWriting
    <2>1. /\ UNCHANGED damaged
          /\ copies'[f]["chroma"] = copies[f]["chroma"]
          /\ copies'[g]["uploads"] = copies[g]["uploads"]
      BY <1>1, <1>3, Spoilt
    <2> QED
      BY <1>1, <2>1 DEF RunsFit, AsCopied
  <1>4. CASE EncryptStore
    <2>1. /\ copies'[f]["chroma"].digest # 0 /\ copies'[g]["uploads"].digest # 0
          /\ NoFile.digest = 0
      BY DEF NoFile
    <2>4. PICK h \in Forms : AsCopied(h, "chroma") /\ copies'[f]["chroma"] = copies[h]["chroma"]
      BY <1>1, <1>4, <2>1, Encrypted
    <2>5. PICK k \in Forms : AsCopied(k, "uploads") /\ copies'[g]["uploads"] = copies[k]["uploads"]
      BY <1>1, <1>4, <2>1, Encrypted
    <2> QED
      BY <1>1, <2>4, <2>5 DEF RunsFit
  <1>5. CASE EndCopy
    <2>1. PICK docs \in SUBSET Holds(CurrentStore) :
             /\ run.base \subseteq docs
             /\ \A h \in Forms, s \in Store :
                   copies'[h][s] = IF h = "clear" /\ s = CurrentStore
                                   THEN [docs |-> docs, digest |-> runs] ELSE copies[h][s]
      BY <1>5, Copied
    <2>2. /\ run.step = "copying" /\ UNCHANGED damaged
          /\ AsCopied(f, "chroma") /\ AsCopied(g, "uploads")
      BY <1>5 DEF EndCopy, AsCopied
    <2>3. CASE CurrentStore = "chroma" /\ f = "clear"
      <3>1. copies'[f]["chroma"].digest = runs /\ copies'[g]["uploads"] = copies[g]["uploads"]
        BY <1>1, <2>1, <2>3
      <3> QED
        BY <1>1, <2>2, <3>1 DEF FilesLast
    <2>4. CASE CurrentStore = "uploads" /\ g = "clear"
      <3>1. /\ copies'[g]["uploads"] = [docs |-> docs, digest |-> runs]
            /\ copies'[f]["chroma"] = copies[f]["chroma"]
        BY <1>1, <2>1, <2>4
      <3>2. run.next = 4
        BY <1>1, <2>4, StoreNames DEF CurrentStore, SnapshotTypes
      <3>3. copies[f]["chroma"].docs \subseteq run.base
        BY <1>1, <2>2, <3>1, <3>2 DEF IndexBehind
      <3> QED
        BY <2>1, <3>1, <3>3
    <2>5. CASE ~(CurrentStore = "chroma" /\ f = "clear") /\ ~(CurrentStore = "uploads" /\ g = "clear")
      <3>1. copies'[f]["chroma"] = copies[f]["chroma"] /\ copies'[g]["uploads"] = copies[g]["uploads"]
        BY <1>1, <2>1, <2>5
      <3> QED
        BY <1>1, <2>2, <3>1 DEF RunsFit
    <2> QED
      BY <2>3, <2>4, <2>5
  <1> QED
    BY <1>2, <1>3, <1>4, <1>5
       DEF BackupNext, Ingest, StartSnapshot, BeginCopy, WriteManifest, RunDies, backupVars

LEMMA ClearStep ==
    ASSUME BackupInv, [BackupNext]_backupVars, SnapshotTypes'
    PROVE  NothingClear'
  <1>1. /\ SnapshotTypes /\ DigestsPast /\ NothingClear /\ MaxRuns \in Nat /\ Rotten = MaxRuns + 1
        /\ runs \in Nat /\ CurrentStore \in Store /\ "clear" \in Forms
    BY BackupAssumption, StoreNames
       DEF BackupInv, SnapshotTypes, BackupTypeOK, Rotten, CurrentStore, Forms
  <1> SUFFICES ASSUME Encrypting PROVE
          /\ run'.step = "encrypt" => ClearedBefore(run.next)'
          /\ run'.step = "manifest" => ClearedBefore(5)'
          /\ \A s \in Store : manifest'.digest[s] = runs' /\ runs' # 0 =>
                /\ run'.step = "idle"
                /\ \A t \in InManifest' : copies'["clear"][t].digest = 0
    BY DEF NothingClear
  <1>2. CASE StartSnapshot
    <2>1. run'.step = "copy" /\ runs' = runs + 1 /\ manifest' = manifest
      BY <1>2 DEF StartSnapshot
    <2>2. \A s \in Store : manifest'.digest[s] # runs'
      BY <1>1, <2>1 DEF DigestsPast
    <2> QED
      BY <2>1, <2>2
  <1>3. ASSUME run' = run, UNCHANGED <<manifest, runs>>,
               \A s \in Store : copies["clear"][s].digest = 0 => copies'["clear"][s].digest = 0
        PROVE  NothingClear'
    <2>1. \A n \in {run.next, 5} : ClearedBefore(n) => ClearedBefore(n)'
      BY <1>3, StoreNames DEF ClearedBefore
    <2>2. InManifest' = InManifest /\ InManifest \subseteq Store
      BY <1>3 DEF InManifest
    <2> QED
      BY <1>1, <1>3, <2>1, <2>2 DEF NothingClear, ClearedBefore
  <1>4. CASE (\E d \in Documents : Ingest(d)) \/ UNCHANGED backupVars
    BY <1>3, <1>4 DEF Ingest, backupVars, NothingClear
  <1>5. CASE Rot
    <2>1. PICK f \in Forms, t \in Store : /\ copies[f][t].digest # 0
                                          /\ copies' = [copies EXCEPT ![f][t].digest = Rotten]
      BY <1>5 DEF Rot, Forms
    <2>2. \A s \in Store : f # "clear" \/ s # t => copies'["clear"][s] = copies["clear"][s]
      BY <1>1, <2>1 DEF SnapshotTypes, BackupTypeOK
    <2>3. \A s \in Store : copies["clear"][s].digest = 0 => copies'["clear"][s].digest = 0
      BY <2>1, <2>2
    <2> QED
      BY <1>3, <1>5, <2>3 DEF Rot, NothingClear
  <1>6. run.step # "idle" => \A s \in Store : manifest.digest[s] # runs \/ runs = 0
    BY <1>1 DEF NothingClear
  <1>7. CASE BeginCopy
    <2>1. run.step = "copy" /\ run'.step = "copying" /\ UNCHANGED <<manifest, runs>>
      BY <1>1, <1>7 DEF BeginCopy, SnapshotTypes
    <2> QED
      BY <1>6, <2>1
  <1>8. CASE CopyFails \/ EndCopy
    <2>1. PICK d \in 0..MaxRuns : run' = Proceed(d, "copy")
      <3>1. 0 \in 0..MaxRuns /\ runs \in 0..MaxRuns
        BY <1>1 DEF SnapshotTypes, BackupTypeOK
      <3> QED
        BY <1>8, <3>1 DEF CopyFails, EndCopy
    <2>2. run.step = "copying" /\ UNCHANGED <<manifest, runs>>
      BY <1>8 DEF CopyFails, EndCopy
    <2>3. run'.step # "manifest" /\ (run'.step = "encrypt" => run'.next = 1)
      BY <1>1, <2>1, AfterStore
    <2>4. run'.step = "encrypt" => ClearedBefore(run.next)'
      BY <2>3 DEF ClearedBefore
    <2> QED
      BY <1>6, <2>2, <2>3, <2>4
  <1>9. CASE EncryptStore
    <2>1. run' = Proceed(run.digest[CurrentStore], "encrypt") /\ run.digest[CurrentStore] \in 0..MaxRuns
      BY <1>1, <1>9, Encrypted
    <2>2. run.step = "encrypt" /\ UNCHANGED <<manifest, runs>> /\ ClearedBefore(run.next)
      BY <1>1, <1>9 DEF EncryptStore, NothingClear
    <2>3. run'.digest = run.digest
      BY <1>1, <2>1, AfterStore DEF SnapshotTypes
    <2>4. /\ run'.step = "encrypt" => run'.next = run.next + 1
          /\ run'.step = "manifest" => run.next = 4
          /\ run.next \in 1..4
      BY <1>1, <2>1, AfterStore DEF SnapshotTypes
    <2>5. \A i \in 1..4 : i <= run.next /\ run.digest[Stores[i]] # 0 => copies'["clear"][Stores[i]].digest = 0
      <3> SUFFICES ASSUME NEW i \in 1..4, i <= run.next, run.digest[Stores[i]] # 0
                   PROVE  copies'["clear"][Stores[i]].digest = 0
        OBVIOUS
      <3>1. Stores[i] \in Store
        BY StoreNames
      <3>2. CASE i = run.next
        <4>1. Stores[i] = CurrentStore
          BY <3>2 DEF CurrentStore
        <4>2. copies'["clear"][Stores[i]] = NoFile
          BY <1>1, <1>9, <3>1, <4>1, Encrypted
        <4> QED
          BY <4>2 DEF NoFile
      <3>3. CASE i < run.next
        <4>1. copies["clear"][Stores[i]].digest = 0
          BY <2>2, <3>3 DEF ClearedBefore
        <4>2. copies'["clear"][Stores[i]] \in {copies["clear"][Stores[i]], NoFile}
          BY <1>1, <1>9, <3>1, Encrypted
        <4> QED
          BY <4>1, <4>2 DEF NoFile
      <3> QED
        BY <2>4, <3>2, <3>3
    <2>6. run'.step = "encrypt" => ClearedBefore(run.next)'
      BY <2>3, <2>4, <2>5 DEF ClearedBefore
    <2>7. run'.step = "manifest" => ClearedBefore(5)'
      BY <2>3, <2>4, <2>5 DEF ClearedBefore
    <2> QED
      BY <1>6, <2>2, <2>6, <2>7
  <1>10. CASE WriteManifest
    <2>1. /\ run.step = "manifest" /\ manifest'.digest = run.digest /\ run'.step = "idle"
          /\ UNCHANGED <<copies, runs>> /\ ClearedBefore(5)
      BY <1>1, <1>10 DEF WriteManifest, NothingClear, SnapshotTypes
    <2>2. \A t \in InManifest' : copies'["clear"][t].digest = 0
      <3> SUFFICES ASSUME NEW t \in Store, run.digest[t] # 0 PROVE copies["clear"][t].digest = 0
        BY <2>1 DEF InManifest
      <3>1. PICK i \in 1..4 : t = Stores[i]
        BY StoreNames
      <3> QED
        BY <2>1, <3>1 DEF ClearedBefore
    <2> QED
      BY <2>1, <2>2
  <1>11. CASE RunDies
    <2>1. /\ run.step # "idle" /\ run'.step = "idle" /\ UNCHANGED <<copies, runs>>
          /\ manifest' = manifest \/ manifest'.digest = NoDigests
      BY <1>1, <1>11 DEF RunDies, SnapshotTypes
    <2>2. \A s \in Store : manifest'.digest[s] # runs \/ runs = 0
      BY <1>6, <2>1 DEF NoDigests
    <2> QED
      BY <2>1, <2>2
  <1>12. CASE RunDiesWriting
    <2>1. run.step # "idle" /\ run'.step = "idle" /\ UNCHANGED <<manifest, runs>>
      BY <1>1, <1>12 DEF RunDiesWriting, SnapshotTypes
    <2> QED
      BY <1>6, <2>1
  <1> QED
    BY <1>2, <1>4, <1>5, <1>7, <1>8, <1>9, <1>10, <1>11, <1>12 DEF BackupNext

LEMMA PlainStep ==
    ASSUME BackupInv, [BackupNext]_backupVars
    PROVE  NothingEncrypted'
  <1> SUFFICES ASSUME ~Encrypting PROVE damaged' = {} /\ run'.step # "encrypt"
    BY DEF NothingEncrypted
  <1>1. SnapshotTypes /\ damaged = {} /\ run.step # "encrypt" /\ MaxRuns \in Nat
    BY BackupAssumption DEF BackupInv, NothingEncrypted
  <1>2. damaged' = damaged
    BY <1>1 DEF BackupNext, Ingest, StartSnapshot, BeginCopy, EndCopy, CopyFails, EncryptStore,
                WriteManifest, RunDies, RunDiesWriting, Rot, backupVars
  <1>3. CASE CopyFails \/ EndCopy
    <2>1. PICK d \in 0..MaxRuns : run' = Proceed(d, "copy")
      <3>1. 0 \in 0..MaxRuns /\ runs \in 0..MaxRuns
        BY <1>1 DEF SnapshotTypes, BackupTypeOK
      <3> QED
        BY <1>3, <3>1 DEF CopyFails, EndCopy
    <2> QED
      BY <1>1, <1>2, <2>1, AfterStore
  <1>4. CASE ~(CopyFails \/ EndCopy)
    <2>1. \/ run' = run
          \/ run' = [run EXCEPT !.step = "idle"]
          \/ run' = [run EXCEPT !.step = "copying", !.base = Holds(CurrentStore)]
          \/ run' = [step |-> "copy", next |-> 1, base |-> {}, digest |-> NoDigests]
      BY <1>1, <1>4 DEF BackupNext, Ingest, StartSnapshot, BeginCopy, EncryptStore, WriteManifest,
                RunDies, RunDiesWriting, Rot, backupVars
    <2>2. run'.step \in {run.step, "copy", "copying", "idle"}
      <3>1. run \in [step : {"idle", "copy", "copying", "encrypt", "manifest"}, next : 1..4,
                     base : SUBSET Documents, digest : [Store -> 0..MaxRuns]]
        BY <1>1 DEF SnapshotTypes
      <3>2. [run EXCEPT !.step = "idle"].step = "idle"
        BY <3>1
      <3>3. [run EXCEPT !.step = "copying", !.base = Holds(CurrentStore)].step = "copying"
        BY <3>1
      <3>4. [step |-> "copy", next |-> 1, base |-> {}, digest |-> NoDigests].step = "copy"
        OBVIOUS
      <3>5. CASE run' = run
        BY <3>5
      <3>6. CASE run' = [run EXCEPT !.step = "idle"]
        BY <3>2, <3>6, Zenon
      <3>7. CASE run' = [run EXCEPT !.step = "copying", !.base = Holds(CurrentStore)]
        BY <3>3, <3>7, Zenon
      <3>8. CASE run' = [step |-> "copy", next |-> 1, base |-> {}, digest |-> NoDigests]
        BY <3>4, <3>8, Zenon
      <3> QED
        BY <2>1, <3>5, <3>6, <3>7, <3>8, Zenon
    <2> QED
      BY <1>1, <1>2, <2>2
  <1> QED
    BY <1>3, <1>4

LEMMA BackupStep == BackupInv /\ [BackupNext]_backupVars => BackupInv'
  BY BackupTypes, DigestsStep, IndexStep, FilesStep, FitStep, ClearStep, PlainStep DEF BackupInv

LEMMA SnapshotsGood == BackupInv => BackupSafety
  <1> SUFFICES ASSUME BackupInv PROVE BackupSafety
    OBVIOUS
  <1>1. /\ SnapshotTypes /\ BackupTypeOK /\ DigestsPast /\ RunsFit /\ NothingClear
        /\ MaxRuns \in Nat /\ Rotten = MaxRuns + 1 /\ KeptForm \in Forms /\ Encrypting \in BOOLEAN
        /\ runs \in 0..MaxRuns /\ InManifest \subseteq Store
    BY BackupAssumption
       DEF BackupInv, SnapshotTypes, BackupTypeOK, Rotten, Forms, KeptForm, InManifest
  <1>2. \A s \in InManifest : manifest.digest[s] \notin {0, Rotten}
    BY <1>1 DEF InManifest, BackupTypeOK
  <1>3. IndexedHaveFiles
    <2> SUFFICES ASSUME AuditValid, {"chroma", "uploads"} \subseteq InManifest \ damaged
                 PROVE  copies[KeptForm]["chroma"].docs \subseteq copies[KeptForm]["uploads"].docs
      BY DEF IndexedHaveFiles
    <2>1. /\ copies[KeptForm]["chroma"].digest = manifest.digest["chroma"]
          /\ copies[KeptForm]["uploads"].digest = manifest.digest["uploads"]
          /\ manifest.digest["chroma"] = manifest.digest["uploads"]
      BY <1>1 DEF AuditValid, DigestsPast
    <2> QED
      BY <1>1, <1>2, <2>1 DEF RunsFit, AsCopied
  <1>4. ListedIsEncrypted
    <2> SUFFICES ASSUME Encrypting, \A s \in InManifest : manifest.digest[s] = runs,
                        NEW s \in InManifest
                 PROVE  copies["clear"][s].digest = 0
      BY DEF ListedIsEncrypted
    <2>1. manifest.digest[s] = runs /\ runs # 0 /\ s \in Store
      BY <1>1, <1>2
    <2> QED
      BY <1>1, <2>1 DEF NothingClear
  <1>5. ValidRestores
    <2> SUFFICES ASSUME AuditValid, ~(InManifest \subseteq {"postgres"}),
                        Encrypting => damaged \cap {"chroma", "uploads"} \cap InManifest = {}
                 PROVE  DrillPasses
      BY DEF ValidRestores
    <2>1. ~Encrypting => damaged = {}
      BY DEF BackupInv, NothingEncrypted
    <2>2. \A s \in InManifest \ {"postgres"} : s \in damaged => s = "traces"
      BY <1>1, <2>1 DEF Store
    <2> QED
      BY <1>1, <1>2, <2>2 DEF AuditValid, DrillPasses, Unpacks
  <1> QED
    BY <1>1, <1>3, <1>4, <1>5 DEF BackupSafety

\* However often a run for the directory dies and is repeated while documents are
\* ingested and files rot: a snapshot that audits as valid restores and has the files of
\* its index, but for a tarball that had rotted before it was encrypted, and nothing its
\* last run lists is left in clear (create_snapshot).
THEOREM SnapshotsAreSound == BackupSpec => []BackupSafety
  BY BackupInitInv, BackupStep, SnapshotsGood, PTL DEF BackupSpec

----------------------------------------------------------------------------
(* RegressionRuns.                                                         *)

Tallies == [cases : 0..CaseCount, infra : Nat, skipped : Nat, lost : Nat,
            baseline : Nat, candidate : Nat]

JobRecords ==
    [baseline : {"current"}, candidate : Variants,
     step : {"queued", "save", "install", "measure", "restore", "next", "report", "completed",
             "error"},
     side : {"baseline", "candidate"}, env : Variants \cup {"none"},
     path : Regressions \cup {"config"}, first : Measured, tally : Tallies,
     gaps : BOOLEAN, shared : BOOLEAN]

RuntimeTypes ==
    /\ envId \in Variants \cup {"none"}
    /\ override \in Regressions \cup {"config"}
    /\ settingsOf \in (SUBSET Variants) \cup {Unset}
    /\ getting \in [Threads -> [at : {"out", "make", "read", "apply", "return"},
                               of : Variants \cup {"none"}]]
    /\ foreign \subseteq Regressions /\ raced \subseteq Regressions

\* A measurement under way is of a case that is still to be counted.
CaseInHand(r) ==
    \/ r.step \in {"save", "install", "measure"}
    \/ r.step \in {"restore", "next"} /\ r.side = "baseline"

CasesLeft ==
    \A j \in Regressions :
        /\ CaseInHand(regression[j]) => regression[j].tally.cases < CaseCount
        /\ regression[j].step = "report" => regression[j].tally.cases = CaseCount
        /\ regression[j].step = "queued" => regression[j].tally = NoTally

\* A skip or a broken provider is counted, or will be with the second side of its case.
GapsCount ==
    \A j \in Regressions : regression[j].gaps =>
        \/ regression[j].tally.infra + regression[j].tally.skipped > 0
        \/ /\ regression[j].first \in {"infra", "skipped"}
           /\ IF regression[j].side = "candidate"
              THEN regression[j].step \in {"save", "install", "measure"}
              ELSE regression[j].step \in {"restore", "next"}

\* The process runs what a run asked for.
RunsAs(j) ==
    IF Target(j) = "current" THEN envId = "none" ELSE envId = Target(j) /\ override = j

\* Runs that met know it, and one that met nobody finds what it installed.
Apart ==
    /\ \A j, k \in Regressions : j # k /\ Inside(j) /\ Inside(k)
           => regression[j].shared /\ regression[k].shared
    /\ \A j \in Regressions : regression[j].step \in {"measure", "restore"} /\ ~regression[j].shared
           => RunsAs(j)

\* The settings are those of w, or will be when the threads that make them are done.
SettingsFor(w) ==
    /\ \/ settingsOf \in {Unset, Made(w)}
       \/ settingsOf = {} /\ \E t \in Threads : getting[t].at \in {"read", "apply"}
    /\ \A t \in Threads : getting[t].at \in {"read", "apply"} => settingsOf # Unset
    /\ \A t \in Threads : getting[t].at = "apply" => getting[t].of = w

OneMakes == \A t, u \in Threads : Making(t) /\ Making(u) => t = u

Undisturbed(j) == ~regression[j].shared /\ j \notin raced

\* A run asks for the settings before and during a measurement only, and one that nothing
\* disturbs is given its own.
SettingsApart ==
    /\ \A j \in Regressions : regression[j].step \notin {"save", "measure"} => getting[j].at = "out"
    /\ \A j \in Regressions : regression[j].step = "measure" /\ Undisturbed(j) =>
          /\ SettingsFor(Wanted(j)) /\ OneMakes
          /\ getting[j].at = "return" =>
                settingsOf = Made(Wanted(j)) /\ \A t \in Threads : ~Making(t)
    /\ \A j \in Regressions : j \in foreign => ~Undisturbed(j)

\* As long as no two met, the staged experiment is installed or saved, and users are given
\* it unless a run was raced.
StagedKept ==
    (\A j \in Regressions : ~regression[j].shared) =>
        /\ \A j \in Regressions : Inside(j) =>
              regression[j].env = Staged /\ regression[j].path = "config"
        /\ (\A j \in Regressions : regression[j].step \notin {"measure", "restore"}) =>
              envId = Staged /\ override = "config"
        /\ (\A j \in Regressions : ~Inside(j) /\ j \notin raced) => SettingsFor(Staged)

RowsRight ==
    \A r \in evalRows :
        /\ ~r.shared /\ ~r.raced => ~r.foreign
        /\ r.green => ~r.gaps /\ r.cases = CaseCount /\ CaseCount > 0

RegressionInv ==
    /\ regression \in [Regressions -> JobRecords] /\ RuntimeTypes
    /\ CasesLeft /\ GapsCount /\ Apart /\ SettingsApart /\ StagedKept /\ RowsRight

LEMMA RegressionInitInv == RegressionInit => RegressionInv
  <1> SUFFICES ASSUME RegressionInit PROVE RegressionInv
    OBVIOUS
  <1>1. CaseCount \in Nat /\ Staged \in Variants \cup {"none"}
    BY RegressionAssumption
  <1>2. NoTally \in Tallies
    BY <1>1 DEF NoTally, Tallies
  <1>3. regression \in [Regressions -> JobRecords] /\ RuntimeTypes
    <2>1. regression \in [Regressions ->
             [baseline : {"current"}, candidate : Variants, step : {"queued"},
              side : {"baseline"}, env : {"none"}, path : {"config"}, first : {"passed"},
              tally : {NoTally}, gaps : {FALSE}, shared : {FALSE}]]
      BY DEF RegressionInit
    <2>2. [baseline : {"current"}, candidate : Variants, step : {"queued"},
           side : {"baseline"}, env : {"none"}, path : {"config"}, first : {"passed"},
           tally : {NoTally}, gaps : {FALSE}, shared : {FALSE}] \subseteq JobRecords
      BY <1>2 DEF JobRecords, Measured
    <2>3. regression \in [Regressions -> JobRecords]
      BY <2>1, <2>2
    <2> QED
      BY <1>1, <2>3 DEF RegressionInit, RuntimeTypes
  <1>4. \A j \in Regressions : /\ regression[j].step = "queued" /\ regression[j].tally = NoTally
                               /\ ~regression[j].gaps
    BY DEF RegressionInit
  <1>5. CasesLeft /\ GapsCount /\ Apart /\ RowsRight
    BY <1>4 DEF RegressionInit, CasesLeft, CaseInHand, GapsCount, Apart, Inside, RowsRight
  <1>6. \A t \in Threads : getting[t].at = "out"
    BY DEF RegressionInit
  <1>7. SettingsApart /\ StagedKept
    BY <1>4, <1>6 DEF RegressionInit, SettingsApart, StagedKept, SettingsFor, Inside, Threads
  <1> QED
    BY <1>3, <1>5, <1>7 DEF RegressionInv

\* A run that met nobody is measured under its target.
LEMMA NotAlien ==
    ASSUME RegressionInv, NEW j \in Regressions,
           regression[j].step \in {"measure", "restore"}, ~regression[j].shared
    PROVE  Effective = Wanted(j)
  <1>1. RunsAs(j) /\ j # "config"
    BY RegressionAssumption DEF RegressionInv, Apart
  <1>2. CASE Target(j) = "current"
    BY <1>1, <1>2 DEF RunsAs, Effective, Wanted
  <1>3. CASE Target(j) # "current"
    <2>1. envId = Target(j) /\ override = j /\ Content(j) = Target(j)
      BY <1>1, <1>3 DEF RunsAs, Content
    <2> QED
      BY <1>3, <2>1 DEF Effective, Wanted
  <1> QED
    BY <1>2, <1>3

\* With nobody in a runtime, and none who met another, the process is as it was started.
LEMMA AsStarted ==
    ASSUME RegressionInv, \A j \in Regressions : ~regression[j].shared,
           \A j \in Regressions : regression[j].step \notin {"measure", "restore"}
    PROVE  Effective = Staged
  <1>1. envId = Staged /\ override = "config"
    BY DEF RegressionInv, StagedKept
  <1> QED
    BY <1>1 DEF Effective, Content

LEMMA WantedType ==
    ASSUME regression \in [Regressions -> JobRecords], NEW j \in Regressions
    PROVE  Wanted(j) \in Variants \cup {"none"}
  BY DEF Wanted, Target, JobRecords

\* Settings that were made are not the mark for none.
LEMMA MadeIsSet ==
    ASSUME NEW w \in Variants \cup {"none"}
    PROVE  Made(w) # Unset /\ {} # Unset /\ Made(w) \in SUBSET Variants
  <1>1. "unset" \notin Variants
    BY RegressionAssumption
  <1> QED
    BY <1>1 DEF Made, Unset

LEMMA AddCounts ==
    ASSUME NEW t \in Tallies, NEW b \in Measured, NEW c \in Measured, t.cases < CaseCount
    PROVE  /\ Add(t, b, c) \in Tallies
           /\ Add(t, b, c).cases = t.cases + 1
           /\ Add(t, b, c).infra + Add(t, b, c).skipped >= t.infra + t.skipped
           /\ {b, c} \cap {"infra", "skipped"} # {} =>
                 Add(t, b, c).infra + Add(t, b, c).skipped > 0
  <1>1. /\ t.cases \in 0..CaseCount /\ t.cases + 1 \in 0..CaseCount
        /\ t.infra \in Nat /\ t.skipped \in Nat /\ t.lost \in Nat
        /\ t.baseline \in Nat /\ t.candidate \in Nat
    BY RegressionAssumption DEF Tallies
  <1>2. CASE "skipped" \in {b, c}
    <2>1. Add(t, b, c) = [cases |-> t.cases + 1, infra |-> t.infra, skipped |-> t.skipped + 1,
                          lost |-> t.lost, baseline |-> t.baseline, candidate |-> t.candidate]
      BY <1>1, <1>2 DEF Add, Tallies
    <2> QED
      BY <1>1, <2>1 DEF Tallies
  <1>3. CASE "skipped" \notin {b, c} /\ "infra" \in {b, c}
    <2>1. Add(t, b, c) = [cases |-> t.cases + 1, infra |-> t.infra + 1, skipped |-> t.skipped,
                          lost |-> t.lost, baseline |-> t.baseline, candidate |-> t.candidate]
      BY <1>1, <1>3 DEF Add, Tallies
    <2> QED
      BY <1>1, <2>1 DEF Tallies
  <1>4. CASE "skipped" \notin {b, c} /\ "infra" \notin {b, c}
    <2> DEFINE l == t.lost + IF b = "passed" /\ c = "failed" THEN 1 ELSE 0
               x == t.baseline + IF b = "passed" THEN 1 ELSE 0
               y == t.candidate + IF c = "passed" THEN 1 ELSE 0
    <2>1. Add(t, b, c) = [cases |-> t.cases + 1, infra |-> t.infra, skipped |-> t.skipped,
                          lost |-> l, baseline |-> x, candidate |-> y]
      BY <1>1, <1>4 DEF Add, Tallies
    <2>2. l \in Nat /\ x \in Nat /\ y \in Nat
      BY <1>1
    <2>3. {b, c} \cap {"infra", "skipped"} = {}
      BY <1>4
    <2> HIDE DEF l, x, y
    <2> QED
      BY <1>1, <2>1, <2>2, <2>3 DEF Tallies
  <1> QED
    BY <1>2, <1>3, <1>4

\* A step of one run changes the record of that run; entering a runtime also tells who
\* else is inside that it shares the process.
LEMMA StepOfJob ==
    ASSUME RegressionInv, NEW j \in Regressions, RegressionStep(j)
    PROVE  /\ regression' \in [Regressions -> JobRecords]
           /\ ~SaveRuntime(j) => \A k \in Regressions \ {j} : regression'[k] = regression[k]
           /\ ~MeasureCase(j) => \A k \in Regressions :
                 /\ regression'[k].tally = regression[k].tally
                 /\ regression'[k].gaps = regression[k].gaps
                 /\ regression'[k].first = regression[k].first
           /\ ~SaveRuntime(j) => \A k \in Regressions :
                 /\ regression'[k].shared = regression[k].shared
                 /\ regression'[k].env = regression[k].env
                 /\ regression'[k].path = regression[k].path
           /\ \A k \in Regressions :
                 /\ regression'[k].baseline = regression[k].baseline
                 /\ regression'[k].candidate = regression[k].candidate
           /\ ~NextMeasurement(j) => \A k \in Regressions : regression'[k].side = regression[k].side
           /\ \A k \in Regressions \ {j} : regression'[k].step = regression[k].step
  <1>1. regression \in [Regressions -> JobRecords] /\ RuntimeTypes /\ CasesLeft
    BY DEF RegressionInv
  <1>2. ASSUME NEW s \in {"save", "install", "measure", "restore", "next", "report",
                          "completed", "error"},
               regression' = Step(j, s)
        PROVE  /\ regression' \in [Regressions -> JobRecords]
               /\ \A k \in Regressions \ {j} : regression'[k] = regression[k]
               /\ \A k \in Regressions :
                    /\ regression'[k].baseline = regression[k].baseline
                    /\ regression'[k].candidate = regression[k].candidate
                    /\ regression'[k].tally = regression[k].tally
                    /\ regression'[k].gaps = regression[k].gaps
                    /\ regression'[k].first = regression[k].first
                       /\ regression'[k].shared = regression[k].shared
                    /\ regression'[k].env = regression[k].env
                    /\ regression'[k].path = regression[k].path
                    /\ regression'[k].side = regression[k].side
    <2>1. \A k \in Regressions : regression'[k] = IF k = j THEN [regression[k] EXCEPT !.step = s] ELSE regression[k]
      BY <1>1, <1>2 DEF Step
    <2>2. [regression[j] EXCEPT !.step = s] \in JobRecords
      BY <1>1 DEF JobRecords
    <2>3. regression' = [k \in Regressions |-> regression'[k]]
      BY <1>1, <1>2 DEF Step
    <2>4. \A k \in Regressions :
          /\ regression'[k].baseline = regression[k].baseline
          /\ regression'[k].candidate = regression[k].candidate
          /\ regression'[k].tally = regression[k].tally
          /\ regression'[k].gaps = regression[k].gaps
          /\ regression'[k].first = regression[k].first
          /\ regression'[k].shared = regression[k].shared
          /\ regression'[k].env = regression[k].env
          /\ regression'[k].path = regression[k].path
          /\ regression'[k].side = regression[k].side
      <3> SUFFICES ASSUME NEW r \in JobRecords, NEW q, q = [r EXCEPT !.step = s]
                   PROVE
             /\ q.baseline = r.baseline
             /\ q.candidate = r.candidate
             /\ q.tally = r.tally
             /\ q.gaps = r.gaps
             /\ q.first = r.first
             /\ q.shared = r.shared
             /\ q.env = r.env
             /\ q.path = r.path
             /\ q.side = r.side
        BY <1>1, <2>1
      <3> QED
        BY DEF JobRecords
    <2>5. \A k \in Regressions : regression'[k] \in JobRecords
      BY <1>1, <2>1, <2>2
    <2> QED
      BY <2>1, <2>3, <2>4, <2>5
  <1>3. CASE StartRegression(j) \/ InstallRuntime(j) \/ RestoreRuntime(j) \/ PersistRegression(j)
             \/ RegressionError(j)
    <2>1. PICK s \in {"save", "install", "measure", "restore", "next", "report",
                      "completed", "error"} : regression' = Step(j, s)
      BY <1>3 DEF StartRegression, InstallRuntime, RestoreRuntime, PersistRegression, RegressionError, Reset
    <2> QED
      BY <1>1, <1>2, <2>1
  <1>4. CASE NextMeasurement(j)
    <2>1. PICK d \in {"baseline", "candidate"}, s \in {"report", "save"} :
            regression' = [regression EXCEPT ![j].side = d, ![j].step = s]
      BY <1>4 DEF NextMeasurement
    <2>2. \A k \in Regressions : regression'[k] =
             IF k = j THEN [regression[k] EXCEPT !.side = d, !.step = s] ELSE regression[k]
      BY <1>1, <2>1
    <2>3. \A r \in JobRecords : [r EXCEPT !.side = d, !.step = s] \in JobRecords
      <3> SUFFICES ASSUME NEW r \in JobRecords PROVE [r EXCEPT !.side = d, !.step = s] \in JobRecords
        OBVIOUS
      <3>1. [r EXCEPT !.side = d] \in JobRecords
        BY DEF JobRecords
      <3> QED
        BY <3>1 DEF JobRecords
    <2>4. regression' \in [Regressions -> JobRecords]
      BY <1>1, <2>1, <2>3
    <2>5. \A k \in Regressions :
          /\ regression'[k].baseline = regression[k].baseline
          /\ regression'[k].candidate = regression[k].candidate
          /\ regression'[k].tally = regression[k].tally
          /\ regression'[k].gaps = regression[k].gaps
          /\ regression'[k].first = regression[k].first
          /\ regression'[k].shared = regression[k].shared
          /\ regression'[k].env = regression[k].env
          /\ regression'[k].path = regression[k].path
      <3> SUFFICES ASSUME NEW r \in JobRecords, NEW q, q = [r EXCEPT !.side = d, !.step = s]
                   PROVE
             /\ q.baseline = r.baseline
             /\ q.candidate = r.candidate
             /\ q.tally = r.tally
             /\ q.gaps = r.gaps
             /\ q.first = r.first
             /\ q.shared = r.shared
             /\ q.env = r.env
             /\ q.path = r.path
        BY <1>1, <2>2
      <3> QED
        BY DEF JobRecords
    <2> QED
      BY <1>4, <2>2, <2>4, <2>5
  <1>5. CASE MeasureCase(j)
    <2>1. PICK m \in Measured :
          regression' = [regression EXCEPT
              ![j].step = "restore",
              ![j].gaps = @ \/ m \in {"infra", "skipped"},
              ![j].first = IF regression[j].side = "baseline" THEN m ELSE @,
              ![j].tally = IF regression[j].side = "baseline" THEN @
                           ELSE Add(@, regression[j].first, m)]
      BY <1>5 DEF MeasureCase
    <2> DEFINE r == regression[j]
               t == IF r.side = "baseline" THEN r.tally ELSE Add(r.tally, r.first, m)
               new == [r EXCEPT !.step = "restore", !.gaps = @ \/ m \in {"infra", "skipped"},
                                !.first = IF r.side = "baseline" THEN m ELSE @, !.tally = t]
    <2>2. r \in JobRecords /\ r.tally.cases < CaseCount
      <3>1. regression[j].step = "measure"
        BY <1>5 DEF MeasureCase
      <3>2. CaseInHand(regression[j])
        BY <3>1 DEF CaseInHand
      <3>3. regression[j].tally.cases < CaseCount
        BY <1>1, <3>2 DEF CasesLeft
      <3> QED
        BY <1>1, <3>3
    <2>3. t \in Tallies
      BY <2>2, AddCounts DEF JobRecords
    <2>4. regression' = [regression EXCEPT ![j] = new]
      BY <1>1, <2>1, <2>2 DEF JobRecords
    <2> HIDE DEF t
    <2>5. new \in JobRecords
      BY <2>2, <2>3 DEF JobRecords
    <2>6. /\ new.shared = r.shared /\ new.env = r.env /\ new.path = r.path /\ new.side = r.side
          /\ new.baseline = r.baseline /\ new.candidate = r.candidate
      BY <2>2 DEF JobRecords
    <2> HIDE DEF new
    <2> QED
      BY <1>1, <1>5, <2>4, <2>5, <2>6
  <1>6. CASE SaveRuntime(j)
    <2> DEFINE meets(i) == \E k \in Regressions \ {i} : (k = j \/ Inside(k)) /\ (i = j \/ Inside(i))
               new(i) == LET r == [regression[i] EXCEPT !.shared = @ \/ meets(i)]
                         IN  IF i = j THEN [r EXCEPT !.step = "install", !.env = envId, !.path = override]
                             ELSE r
    <2>1. regression' = [i \in Regressions |-> new(i)]
      BY <1>6 DEF SaveRuntime
    <2>2. \A i \in Regressions :
             /\ new(i) \in JobRecords
             /\ new(i).tally = regression[i].tally /\ new(i).gaps = regression[i].gaps
             /\ new(i).first = regression[i].first
             /\ new(i).side = regression[i].side
             /\ new(i).baseline = regression[i].baseline /\ new(i).candidate = regression[i].candidate
             /\ i # j => new(i).step = regression[i].step
      <3> TAKE i \in Regressions
      <3>1. regression[i] \in JobRecords /\ envId \in Variants \cup {"none"}
            /\ override \in Regressions \cup {"config"} /\ meets(i) \in BOOLEAN
        BY <1>1 DEF RuntimeTypes
      <3>2. PICK shares \in BOOLEAN : shares = (regression[i].shared \/ meets(i))
        BY <3>1, Zenon
      <3>3. PICK r : r = [regression[i] EXCEPT !.shared = shares]
        OBVIOUS
      <3>4. new(i) = IF i = j THEN [r EXCEPT !.step = "install", !.env = envId, !.path = override] ELSE r
        BY <3>2, <3>3
      <3> HIDE DEF new, meets
      <3>5. /\ r \in JobRecords /\ r.step = regression[i].step
            /\ r.tally = regression[i].tally /\ r.gaps = regression[i].gaps
            /\ r.first = regression[i].first
            /\ r.side = regression[i].side
            /\ r.baseline = regression[i].baseline /\ r.candidate = regression[i].candidate
        BY <3>1, <3>3 DEF JobRecords
      <3>6. CASE i # j
        BY <3>4, <3>5, <3>6
      <3>7. CASE i = j
        <4>1. PICK e \in Variants \cup {"none"}, o \in Regressions \cup {"config"} :
                 e = envId /\ o = override
          BY <3>1
        <4>2. new(i) = [r EXCEPT !.step = "install", !.env = e, !.path = o]
          BY <3>4, <3>7, <4>1
        <4>3. new(i) \in JobRecords
          BY <3>5, <4>2 DEF JobRecords
        <4>4. /\ new(i).tally = r.tally /\ new(i).gaps = r.gaps /\ new(i).first = r.first
              /\ new(i).side = r.side
              /\ new(i).baseline = r.baseline /\ new(i).candidate = r.candidate
          BY <4>2
        <4> QED
          BY <3>5, <3>7, <4>3, <4>4
      <3> QED
        BY <3>6, <3>7
    <2> HIDE DEF new
    <2> QED
      BY <1>1, <1>6, <2>1, <2>2
  <1> QED
    BY <1>3, <1>4, <1>5, <1>6 DEF RegressionStep

\* The record of a run after its measurement.
LEMMA Measures ==
    ASSUME RegressionInv, NEW j \in Regressions, MeasureCase(j)
    PROVE  \E m \in Measured :
              /\ regression'[j].step = "restore"
              /\ regression'[j].gaps = (regression[j].gaps \/ m \in {"infra", "skipped"})
              /\ regression'[j].first = IF regression[j].side = "baseline" THEN m ELSE regression[j].first
              /\ regression'[j].tally = IF regression[j].side = "baseline" THEN regression[j].tally
                                        ELSE Add(regression[j].tally, regression[j].first, m)
  <1>1. regression \in [Regressions -> JobRecords]
    BY DEF RegressionInv
  <1>2. PICK m \in Measured :
          regression' = [regression EXCEPT
              ![j].step = "restore",
              ![j].gaps = @ \/ m \in {"infra", "skipped"},
              ![j].first = IF regression[j].side = "baseline" THEN m ELSE @,
              ![j].tally = IF regression[j].side = "baseline" THEN @
                           ELSE Add(@, regression[j].first, m)]
    BY DEF MeasureCase
  <1> DEFINE r == regression[j]
             t == IF r.side = "baseline" THEN r.tally ELSE Add(r.tally, r.first, m)
             new == [r EXCEPT !.step = "restore", !.gaps = @ \/ m \in {"infra", "skipped"},
                              !.first = IF r.side = "baseline" THEN m ELSE @, !.tally = t]
  <1>3. r \in JobRecords
    BY <1>1
  <1>4. regression'[j] = new
    BY <1>1, <1>2, <1>3 DEF JobRecords
  <1> HIDE DEF t
  <1>5. /\ new.step = "restore"
        /\ new.gaps = (r.gaps \/ m \in {"infra", "skipped"})
        /\ new.first = (IF r.side = "baseline" THEN m ELSE r.first) /\ new.tally = t
    BY <1>3 DEF JobRecords
  <1> HIDE DEF new
  <1> QED
    BY <1>4, <1>5 DEF t

LEMMA CasesStep ==
    ASSUME RegressionInv, NEW j \in Regressions, RegressionStep(j)
    PROVE  CasesLeft'
  <1>1. regression \in [Regressions -> JobRecords] /\ CasesLeft /\ CaseCount \in Nat
    BY RegressionAssumption DEF RegressionInv
  <1>2. \A k \in Regressions \ {j} :
           /\ regression'[k].step = regression[k].step /\ regression'[k].tally = regression[k].tally
           /\ regression'[k].side = regression[k].side
    BY StepOfJob DEF SaveRuntime, MeasureCase, NextMeasurement
  <1>3. \A k \in Regressions \ {j} :
           /\ CaseInHand(regression'[k]) => regression'[k].tally.cases < CaseCount
           /\ regression'[k].step = "report" => regression'[k].tally.cases = CaseCount
           /\ regression'[k].step = "queued" => regression'[k].tally = NoTally
    BY <1>1, <1>2 DEF CasesLeft, CaseInHand
  <1>4. /\ CaseInHand(regression'[j]) => regression'[j].tally.cases < CaseCount
        /\ regression'[j].step = "report" => regression'[j].tally.cases = CaseCount
        /\ regression'[j].step = "queued" => regression'[j].tally = NoTally
    <2>1. CASE StartRegression(j)
      <3>1. /\ regression[j].tally = NoTally /\ regression'[j].tally = regression[j].tally
            /\ regression'[j].step = IF CaseCount = 0 THEN "report" ELSE "save"
        <4>1. ~MeasureCase(j) /\ regression[j].step = "queued"
          BY <2>1 DEF StartRegression, MeasureCase
        <4>2. regression'[j].tally = regression[j].tally
          BY <4>1, StepOfJob
        <4> QED
          BY <1>1, <2>1, <4>1, <4>2 DEF StartRegression, CasesLeft, Step, JobRecords
      <3> QED
        BY <1>1, <3>1 DEF NoTally, CaseInHand
    <2>2. CASE SaveRuntime(j) \/ InstallRuntime(j) \/ RestoreRuntime(j)
      <3>1. regression'[j].tally = regression[j].tally /\ regression'[j].side = regression[j].side
        BY <2>2, StepOfJob DEF SaveRuntime, InstallRuntime, RestoreRuntime, MeasureCase, NextMeasurement
      <3>2. /\ CaseInHand(regression'[j]) => CaseInHand(regression[j])
            /\ regression'[j].step \in {"install", "measure", "next"}
        <4>1. CASE SaveRuntime(j)
          <5>1. regression'[j].step = "install" /\ regression[j].step = "save"
            BY <1>1, <4>1 DEF SaveRuntime, JobRecords
          <5> QED
            BY <5>1 DEF CaseInHand
        <4>2. CASE InstallRuntime(j) \/ RestoreRuntime(j)
          BY <1>1, <3>1, <4>2 DEF InstallRuntime, RestoreRuntime, Reset, Step, CaseInHand, JobRecords
        <4> QED
          BY <2>2, <4>1, <4>2
      <3> QED
        BY <1>1, <3>1, <3>2 DEF CasesLeft
    <2>3. CASE MeasureCase(j)
      <3>1. PICK m \in Measured :
              /\ regression'[j].step = "restore"
              /\ regression'[j].tally = IF regression[j].side = "baseline" THEN regression[j].tally
                                        ELSE Add(regression[j].tally, regression[j].first, m)
        BY <2>3, Measures
      <3>2. regression'[j].side = regression[j].side
        BY <2>3, StepOfJob DEF MeasureCase, NextMeasurement
      <3>3. regression[j].tally.cases < CaseCount
        BY <1>1, <2>3 DEF CasesLeft, CaseInHand, MeasureCase
      <3> QED
        BY <3>1, <3>2, <3>3 DEF CaseInHand
    <2>4. CASE NextMeasurement(j)
      <3>1. /\ regression[j].step = "next"
            /\ regression'[j].step = IF regression[j].side = "candidate"
                         /\ regression[j].tally.cases = CaseCount THEN "report" ELSE "save"
        BY <1>1, <2>4 DEF NextMeasurement, JobRecords
      <3>2. regression'[j].tally = regression[j].tally
        BY <2>4, StepOfJob DEF NextMeasurement, MeasureCase
      <3>3. regression[j].tally.cases \in 0..CaseCount /\ regression[j].side \in {"baseline", "candidate"}
        BY <1>1 DEF JobRecords, Tallies
      <3>4. regression[j].side = "baseline" => regression[j].tally.cases < CaseCount
        BY <1>1, <3>1 DEF CasesLeft, CaseInHand
      <3> QED
        BY <1>1, <3>1, <3>2, <3>3, <3>4 DEF CaseInHand
    <2>5. CASE PersistRegression(j) \/ RegressionError(j)
      <3>1. regression'[j].step \in {"completed", "error"}
        BY <1>1, <2>5 DEF PersistRegression, RegressionError, Step, JobRecords
      <3> QED
        BY <3>1 DEF CaseInHand
    <2> QED
      BY <2>1, <2>2, <2>3, <2>4, <2>5 DEF RegressionStep
  <1> QED
    BY <1>3, <1>4 DEF CasesLeft

LEMMA GapsStep ==
    ASSUME RegressionInv, NEW j \in Regressions, RegressionStep(j)
    PROVE  GapsCount'
  <1>1. regression \in [Regressions -> JobRecords] /\ GapsCount /\ CasesLeft
    BY DEF RegressionInv
  <1> DEFINE counted(t) == t.infra + t.skipped > 0
             pending(r) == /\ r.first \in {"infra", "skipped"}
                           /\ IF r.side = "candidate" THEN r.step \in {"save", "install", "measure"}
                              ELSE r.step \in {"restore", "next"}
  <1>2. \A k \in Regressions : regression[k].gaps => counted(regression[k].tally) \/ pending(regression[k])
    BY <1>1 DEF GapsCount
  <1> SUFFICES \A k \in Regressions :
                 regression'[k].gaps => counted(regression'[k].tally) \/ pending(regression'[k])
    BY DEF GapsCount
  <1>3. \A k \in Regressions \ {j} :
           /\ regression'[k].step = regression[k].step /\ regression'[k].tally = regression[k].tally
           /\ regression'[k].side = regression[k].side /\ regression'[k].first = regression[k].first
           /\ regression'[k].gaps = regression[k].gaps
    <2>1. SaveRuntime(j) => ~MeasureCase(j) /\ ~NextMeasurement(j)
      BY DEF SaveRuntime, MeasureCase, NextMeasurement
    <2> QED
      BY <2>1, StepOfJob
  <1>4. regression'[j].gaps => counted(regression'[j].tally) \/ pending(regression'[j])
    <2>1. CASE MeasureCase(j)
      <3>1. PICK m \in Measured :
              /\ regression'[j].step = "restore"
              /\ regression'[j].gaps = (regression[j].gaps \/ m \in {"infra", "skipped"})
              /\ regression'[j].first = IF regression[j].side = "baseline" THEN m ELSE regression[j].first
              /\ regression'[j].tally = IF regression[j].side = "baseline" THEN regression[j].tally
                                        ELSE Add(regression[j].tally, regression[j].first, m)
        BY <2>1, Measures
      <3>2. regression'[j].side = regression[j].side /\ regression[j].step = "measure"
        BY <2>1, StepOfJob DEF MeasureCase, NextMeasurement
      <3>3. /\ regression[j].tally \in Tallies /\ regression[j].first \in Measured
            /\ regression[j].side \in {"baseline", "candidate"}
            /\ regression[j].tally.cases < CaseCount
        BY <1>1, <3>2 DEF JobRecords, CasesLeft, CaseInHand
      <3>4. CASE regression[j].side = "baseline"
        <4>1. regression[j].gaps => counted(regression[j].tally)
          BY <1>2, <3>2, <3>4
        <4> QED
          BY <3>1, <3>2, <3>4, <4>1
      <3>5. CASE regression[j].side = "candidate"
        <4> DEFINE old == regression[j].tally
                   first == regression[j].first
                   new == Add(old, first, m)
        <4>1. /\ new \in Tallies /\ new.infra + new.skipped >= old.infra + old.skipped
              /\ {first, m} \cap {"infra", "skipped"} # {} => new.infra + new.skipped > 0
          BY <3>3, AddCounts
        <4>2. /\ new.infra \in Nat /\ new.skipped \in Nat /\ old.infra \in Nat /\ old.skipped \in Nat
          BY <3>3, <4>1 DEF Tallies
        <4>3. regression[j].gaps => counted(old) \/ first \in {"infra", "skipped"}
          BY <1>2
        <4>4. regression'[j].tally = new
          BY <3>1, <3>5
        <4>5. first \in {"infra", "skipped"} \/ m \in {"infra", "skipped"} => counted(new)
          BY <4>1
        <4> HIDE DEF new
        <4>6. counted(old) => counted(new)
          BY <4>1, <4>2
        <4> QED
          BY <3>1, <4>3, <4>4, <4>5, <4>6
      <3> QED
        BY <3>3, <3>4, <3>5
    <2>2. CASE ~MeasureCase(j)
      <3>1. /\ regression'[j].gaps = regression[j].gaps /\ regression'[j].tally = regression[j].tally
            /\ regression'[j].first = regression[j].first
        BY <2>2, StepOfJob
      <3> SUFFICES ASSUME pending(regression[j]) PROVE pending(regression'[j])
        BY <1>2, <3>1
      <3>2. regression[j].step \in {"save", "install", "measure", "restore", "next"}
            /\ regression[j].side \in {"baseline", "candidate"}
        BY <1>1 DEF JobRecords
      <3>3. ~StartRegression(j) /\ ~PersistRegression(j) /\ ~RegressionError(j)
        BY <3>2 DEF StartRegression, PersistRegression, RegressionError
      <3>4. CASE SaveRuntime(j) \/ InstallRuntime(j) \/ RestoreRuntime(j)
        <4>1. regression'[j].side = regression[j].side
          BY <3>4, StepOfJob DEF SaveRuntime, InstallRuntime, RestoreRuntime, NextMeasurement
        <4>2. \/ regression[j].step = "save" /\ regression'[j].step = "install"
              \/ regression[j].step = "install" /\ regression'[j].step = "measure"
              \/ regression[j].step = "restore" /\ regression'[j].step = "next"
          <5>1. CASE SaveRuntime(j)
            <6>1. PICK r : /\ DOMAIN r = DOMAIN regression[j]
                           /\ regression'[j] = [r EXCEPT !.step = "install", !.env = envId, !.path = override]
              BY <5>1 DEF SaveRuntime
            <6>2. "step" \in DOMAIN r
              BY <1>1, <6>1 DEF JobRecords
            <6> QED
              BY <5>1, <6>1, <6>2 DEF SaveRuntime
          <5>2. CASE InstallRuntime(j)
            BY <1>1, <5>2 DEF InstallRuntime, Reset, Step, JobRecords
          <5>3. CASE RestoreRuntime(j)
            BY <1>1, <5>3 DEF RestoreRuntime, Reset, Step, JobRecords
          <5> QED
            BY <3>4, <5>1, <5>2, <5>3
        <4> QED
          BY <3>1, <4>1, <4>2
      <3>5. CASE NextMeasurement(j)
        <4>1. /\ regression[j].step = "next"
              /\ regression'[j].side = IF regression[j].side = "baseline" THEN "candidate" ELSE "baseline"
              /\ regression[j].side = "baseline" => regression'[j].step = "save"
          BY <1>1, <3>5 DEF NextMeasurement, JobRecords
        <4> QED
          BY <3>1, <3>2, <4>1
      <3> QED
        BY <2>2, <3>3, <3>4, <3>5 DEF RegressionStep
    <2> QED
      BY <2>1, <2>2
  <1> QED
    BY <1>2, <1>3, <1>4

\* How a step moves its run through a runtime.
LEMMA RuntimeMoves ==
    ASSUME RegressionInv, NEW j \in Regressions, RegressionStep(j)
    PROVE  /\ regression'[j].step = "install" => SaveRuntime(j)
           /\ regression'[j].step = "measure" => InstallRuntime(j)
           /\ regression'[j].step = "restore" => MeasureCase(j)
  <1>1. regression \in [Regressions -> JobRecords]
    BY DEF RegressionInv
  <1>2. CASE StartRegression(j) \/ InstallRuntime(j) \/ RestoreRuntime(j) \/ PersistRegression(j)
             \/ RegressionError(j)
    BY <1>1, <1>2
       DEF StartRegression, InstallRuntime, RestoreRuntime, PersistRegression, RegressionError, Reset, Step,
           JobRecords
  <1>3. CASE NextMeasurement(j)
    BY <1>1, <1>3 DEF NextMeasurement, JobRecords
  <1>4. CASE SaveRuntime(j)
    BY <1>1, <1>4 DEF SaveRuntime, JobRecords
  <1>5. CASE MeasureCase(j)
    BY <1>5, Measures
  <1> QED
    BY <1>2, <1>3, <1>4, <1>5 DEF RegressionStep

LEMMA Sharing ==
    ASSUME RegressionInv, NEW j \in Regressions, RegressionStep(j), NEW k \in Regressions
    PROVE  /\ regression[k].shared => regression'[k].shared
           /\ SaveRuntime(j) /\ k # j /\ Inside(k) => regression'[k].shared /\ regression'[j].shared
           /\ SaveRuntime(j) => regression'[j].env = envId /\ regression'[j].path = override
  <1>1. regression \in [Regressions -> JobRecords]
    BY DEF RegressionInv
  <1>2. CASE ~SaveRuntime(j)
    BY <1>2, StepOfJob
  <1>3. CASE SaveRuntime(j)
    <2> DEFINE meets(i) == \E l \in Regressions \ {i} : (l = j \/ Inside(l)) /\ (i = j \/ Inside(i))
    <2>1. \A i \in Regressions :
             regression'[i] = LET r == [regression[i] EXCEPT !.shared = @ \/ meets(i)]
                              IN  IF i = j THEN [r EXCEPT !.step = "install", !.env = envId, !.path = override]
                                  ELSE r
      BY <1>3 DEF SaveRuntime
    <2>2. k # j /\ Inside(k) => meets(k) /\ meets(j)
      OBVIOUS
    <2> HIDE DEF meets
    <2>3. ASSUME NEW i \in Regressions
          PROVE  /\ regression'[i].shared = (regression[i].shared \/ meets(i))
                 /\ i = j => regression'[i].env = envId /\ regression'[i].path = override
      <3>1. PICK r : r = [regression[i] EXCEPT !.shared = @ \/ meets(i)]
        OBVIOUS
      <3>2. regression'[i] = IF i = j THEN [r EXCEPT !.step = "install", !.env = envId, !.path = override]
                             ELSE r
        BY <2>1, <3>1
      <3>3. regression[i] \in JobRecords
        BY <1>1
      <3>4. /\ DOMAIN r = DOMAIN regression[i] /\ r.shared = (regression[i].shared \/ meets(i))
            /\ {"step", "env", "path", "shared"} \subseteq DOMAIN r
        BY <3>1, <3>3 DEF JobRecords
      <3> QED
        BY <3>2, <3>4
    <2> QED
      BY <2>2, <2>3
  <1> QED
    BY <1>2, <1>3

LEMMA SameTarget ==
    ASSUME RegressionInv, NEW j \in Regressions, RegressionStep(j), NEW k \in Regressions,
           k # j \/ ~NextMeasurement(j)
    PROVE  Target(k)' = Target(k) /\ Wanted(k)' = Wanted(k)
  <1>1. /\ regression'[k].side = regression[k].side
        /\ regression'[k].baseline = regression[k].baseline
        /\ regression'[k].candidate = regression[k].candidate
    <2>1. k # j => ~SaveRuntime(j) \/ ~NextMeasurement(j)
      BY DEF SaveRuntime, NextMeasurement
    <2> QED
      BY <2>1, StepOfJob
  <1> QED
    BY <1>1 DEF Target, Wanted

LEMMA ApartStep ==
    ASSUME RegressionInv, NEW j \in Regressions, RegressionStep(j)
    PROVE  Apart'
  <1>1. regression \in [Regressions -> JobRecords] /\ Apart
    BY DEF RegressionInv
  <1>2. \A k \in Regressions : /\ k # j => regression'[k].step = regression[k].step
                               /\ regression[k].shared => regression'[k].shared
    BY StepOfJob, Sharing
  <1>3. Inside(j)' => Inside(j) \/ SaveRuntime(j)
    BY RuntimeMoves DEF Inside, InstallRuntime, MeasureCase
  <1>4. ASSUME NEW k \in Regressions, NEW l \in Regressions, k # l, Inside(k)', Inside(l)'
        PROVE  regression'[k].shared /\ regression'[l].shared
    <2>1. (k # j => Inside(k)) /\ (l # j => Inside(l))
      BY <1>2, <1>4 DEF Inside
    <2>2. CASE Inside(k) /\ Inside(l)
      BY <1>1, <1>2, <1>4, <2>2 DEF Apart
    <2>3. CASE k = j /\ ~Inside(j)
      BY <1>3, <1>4, <2>1, <2>3, Sharing
    <2>4. CASE l = j /\ ~Inside(j)
      BY <1>3, <1>4, <2>1, <2>4, Sharing
    <2> QED
      BY <2>1, <2>2, <2>3, <2>4
  <1>5. ASSUME NEW k \in Regressions, regression'[k].step \in {"measure", "restore"},
               ~regression'[k].shared
        PROVE  RunsAs(k)'
    <2>1. ~regression[k].shared
      BY <1>2, <1>5
    <2>2. CASE k # j
      <3>1. Inside(k) /\ regression[k].step \in {"measure", "restore"}
        BY <1>2, <1>5, <2>2 DEF Inside
      <3>2. ~Inside(j) /\ ~SaveRuntime(j)
        BY <1>1, <1>5, <2>1, <2>2, <3>1, Sharing DEF Apart
      <3>3. UNCHANGED <<envId, override>>
        BY <3>2 DEF RegressionStep, Inside, StartRegression, SaveRuntime, InstallRuntime, MeasureCase,
                    RestoreRuntime, NextMeasurement, PersistRegression, RegressionError, processVars
      <3>4. RunsAs(k)
        BY <1>1, <2>1, <3>1 DEF Apart
      <3>5. Target(k)' = Target(k) /\ Wanted(k)' = Wanted(k)
        BY <2>2, SameTarget
      <3> QED
        BY <3>3, <3>4, <3>5 DEF RunsAs
    <2>3. CASE k = j /\ InstallRuntime(j)
      <3>1. ~NextMeasurement(j)
        BY <2>3 DEF InstallRuntime, NextMeasurement
      <3>2. Target(j)' = Target(j)
        BY <3>1, SameTarget
      <3> QED
        BY <2>3, <3>2 DEF InstallRuntime, RunsAs
    <2>4. CASE k = j /\ MeasureCase(j)
      <3>1. ~NextMeasurement(j) /\ regression[j].step = "measure"
        BY <2>4 DEF MeasureCase, NextMeasurement
      <3>2. Target(j)' = Target(j) /\ Wanted(j)' = Wanted(j)
        BY <3>1, SameTarget
      <3>3. RunsAs(j)
        BY <1>1, <2>1, <2>4, <3>1 DEF Apart
      <3> QED
        BY <2>4, <3>2, <3>3 DEF MeasureCase, RunsAs, processVars
    <2> QED
      BY <1>5, <2>2, <2>3, <2>4, RuntimeMoves
  <1> QED
    BY <1>4, <1>5 DEF Apart

LEMMA SettingsApartStep ==
    ASSUME RegressionInv, NEW j \in Regressions, RegressionStep(j)
    PROVE  SettingsApart'
  <1>1. /\ regression \in [Regressions -> JobRecords] /\ RuntimeTypes /\ Apart /\ SettingsApart
        /\ Regressions \subseteq Threads
    BY DEF RegressionInv, Threads
  <1>2. /\ UNCHANGED getting /\ raced \subseteq raced'
        /\ \A k \in Regressions : regression[k].shared => regression'[k].shared
        /\ \A k \in Regressions \ {j} : regression'[k].step = regression[k].step
    <2>1. UNCHANGED getting /\ raced \subseteq raced'
      BY DEF RegressionStep, StartRegression, SaveRuntime, InstallRuntime, MeasureCase,
             RestoreRuntime, NextMeasurement, PersistRegression, RegressionError, processVars, Reset
    <2> QED
      BY <2>1, StepOfJob, Sharing
  <1>3. \A k \in Regressions : Undisturbed(k)' => Undisturbed(k)
    BY <1>2 DEF Undisturbed
  <1>4. ASSUME NEW k \in Regressions, regression'[k].step \notin {"save", "measure"}
        PROVE  getting'[k].at = "out"
    <2>1. CASE regression[k].step \notin {"save", "measure"}
      BY <1>1, <1>2, <2>1 DEF SettingsApart
    <2>2. CASE regression[k].step \in {"save", "measure"}
      <3>1. k = j /\ (SaveRuntime(j) \/ MeasureCase(j))
        BY <1>2, <1>4, <2>2
           DEF RegressionStep, StartRegression, SaveRuntime, InstallRuntime, MeasureCase,
               RestoreRuntime, NextMeasurement, PersistRegression, RegressionError
      <3> QED
        BY <1>2, <3>1 DEF SaveRuntime, MeasureCase
    <2> QED
      BY <2>1, <2>2
  <1>5. ASSUME NEW k \in Regressions, regression'[k].step = "measure", Undisturbed(k)'
        PROVE  /\ SettingsFor(Wanted(k))' /\ OneMakes'
               /\ getting'[k].at = "return" =>
                     settingsOf' = Made(Wanted(k))' /\ \A t \in Threads : ~Making(t)'
    <2>1. CASE k # j
      <3>1. regression[k].step = "measure" /\ Inside(k) /\ Undisturbed(k)
        BY <1>2, <1>3, <1>5, <2>1 DEF Inside
      <3>2. ~Inside(j) /\ ~SaveRuntime(j)
        BY <1>1, <1>5, <2>1, <3>1, Sharing DEF Apart, Undisturbed
      <3>3. UNCHANGED settingsOf
        BY <3>2 DEF RegressionStep, Inside, StartRegression, SaveRuntime, InstallRuntime, MeasureCase,
                    RestoreRuntime, NextMeasurement, PersistRegression, RegressionError, processVars
      <3>4. Wanted(k)' = Wanted(k)
        BY <2>1, SameTarget
      <3>5. /\ SettingsFor(Wanted(k)) /\ OneMakes
            /\ getting[k].at = "return" =>
                  settingsOf = Made(Wanted(k)) /\ \A t \in Threads : ~Making(t)
        BY <1>1, <3>1 DEF SettingsApart
      <3> QED
        BY <1>2, <3>3, <3>4, <3>5 DEF SettingsFor, OneMakes, Making, Made
    <2>2. CASE k = j
      <3>1. InstallRuntime(j)
        BY <1>5, <2>2, RuntimeMoves
      <3>2. settingsOf' = Unset /\ getting[j].at = "out" /\ ~OthersMake(j)
        <4>1. regression[j].step = "install" /\ settingsOf' = Unset
              /\ raced' = raced \cup {i \in {j} : OthersMake(i)}
          BY <3>1 DEF InstallRuntime, Reset
        <4> QED
          BY <1>1, <1>5, <2>2, <4>1 DEF SettingsApart, Undisturbed
      <3>3. \A t \in Threads : ~Making(t)
        BY <3>2 DEF OthersMake, Making
      <3> QED
        BY <1>2, <2>2, <3>2, <3>3 DEF SettingsFor, OneMakes, Making
    <2> QED
      BY <2>1, <2>2
  <1>6. ASSUME NEW k \in Regressions, k \in foreign' PROVE ~Undisturbed(k)'
    <2>1. CASE k \in foreign
      BY <1>1, <1>3, <2>1 DEF SettingsApart
    <2>2. CASE k \notin foreign
      <3>1. MeasureCase(j) /\ k = j /\ Effective # Wanted(j)
        BY <1>6, <2>2 DEF RegressionStep, StartRegression, SaveRuntime, InstallRuntime, MeasureCase,
               RestoreRuntime, NextMeasurement, PersistRegression, RegressionError
      <3>2. regression[j].shared
        BY <3>1, NotAlien DEF MeasureCase
      <3> QED
        BY <1>3, <3>1, <3>2 DEF Undisturbed
    <2> QED
      BY <2>1, <2>2
  <1> QED
    BY <1>4, <1>5, <1>6 DEF SettingsApart

LEMMA StagedStep ==
    ASSUME RegressionInv, NEW j \in Regressions, RegressionStep(j)
    PROVE  StagedKept'
  <1>1. regression \in [Regressions -> JobRecords] /\ StagedKept
    BY DEF RegressionInv
  <1> SUFFICES ASSUME \A k \in Regressions : ~regression'[k].shared
               PROVE  /\ \A k \in Regressions : Inside(k)' =>
                            regression'[k].env = Staged /\ regression'[k].path = "config"
                      /\ (\A k \in Regressions : regression'[k].step \notin {"measure", "restore"}) =>
                            envId' = Staged /\ override' = "config"
                      /\ (\A k \in Regressions : ~Inside(k)' /\ k \notin raced') => SettingsFor(Staged)'
    BY DEF StagedKept
  <1>2. \A k \in Regressions : ~regression[k].shared
    BY Sharing
  <1>3. /\ \A k \in Regressions : Inside(k) =>
              regression[k].env = Staged /\ regression[k].path = "config"
        /\ (\A k \in Regressions : regression[k].step \notin {"measure", "restore"}) =>
              envId = Staged /\ override = "config"
        /\ (\A k \in Regressions : ~Inside(k) /\ k \notin raced) => SettingsFor(Staged)
    BY <1>1, <1>2 DEF StagedKept
  <1>4. \A k \in Regressions \ {j} : regression'[k].step = regression[k].step
    BY StepOfJob
  <1>5. CASE SaveRuntime(j)
    <2>1. \A k \in Regressions \ {j} : ~Inside(k)
      BY <1>5, Sharing
    <2>2. \A k \in Regressions : regression[k].step \notin {"measure", "restore"}
      BY <1>5, <2>1 DEF SaveRuntime, Inside
    <2>3. regression'[j].env = envId /\ regression'[j].path = override
      BY <1>5, Sharing
    <2>4. \A k \in Regressions : Inside(k)' => k = j
      BY <1>4, <2>1 DEF Inside
    <2>5. UNCHANGED <<envId, override>>
      BY <1>5 DEF SaveRuntime, processVars
    <2>6. Inside(j)'
      <3>1. PICK r : /\ DOMAIN r = DOMAIN regression[j]
                     /\ regression'[j] = [r EXCEPT !.step = "install", !.env = envId, !.path = override]
        BY <1>5 DEF SaveRuntime
      <3>2. "step" \in DOMAIN r
        BY <1>1, <3>1 DEF JobRecords
      <3> QED
        BY <3>1, <3>2 DEF Inside
    <2> QED
      BY <1>3, <2>2, <2>3, <2>4, <2>5, <2>6
  <1>6. CASE ~SaveRuntime(j)
    <2>1. \A k \in Regressions : /\ regression'[k].env = regression[k].env
                                 /\ regression'[k].path = regression[k].path
      BY <1>6, StepOfJob
    <2>2. \A k \in Regressions : Inside(k)' => Inside(k)
      <3>1. Inside(j)' => Inside(j)
        BY <1>6, RuntimeMoves DEF Inside, InstallRuntime, MeasureCase
      <3> QED
        BY <1>4, <3>1 DEF Inside
    <2>3. ASSUME \A k \in Regressions : regression'[k].step \notin {"measure", "restore"}
          PROVE  envId' = Staged /\ override' = "config"
      <3>1. CASE RestoreRuntime(j)
        BY <1>3, <3>1 DEF RestoreRuntime, Inside
      <3>2. CASE StartRegression(j) \/ NextMeasurement(j) \/ PersistRegression(j) \/ RegressionError(j)
        <4>1. regression[j].step \notin {"measure", "restore"} /\ UNCHANGED <<envId, override>>
          BY <3>2 DEF StartRegression, NextMeasurement, PersistRegression, RegressionError, processVars
        <4> QED
          BY <1>3, <1>4, <2>3, <4>1
      <3>3. ~MeasureCase(j)
        BY <2>3, Measures
      <3>4. ~InstallRuntime(j)
        BY <1>1, <2>3 DEF InstallRuntime, Reset, Step, JobRecords
      <3> QED
        BY <1>6, <3>1, <3>2, <3>3, <3>4 DEF RegressionStep
    <2>4. ASSUME \A k \in Regressions : ~Inside(k)' /\ k \notin raced' PROVE SettingsFor(Staged)'
      <3>1. UNCHANGED getting /\ raced \subseteq raced'
        BY DEF RegressionStep, StartRegression, SaveRuntime, InstallRuntime, MeasureCase,
               RestoreRuntime, NextMeasurement, PersistRegression, RegressionError, processVars, Reset
      <3>2. CASE RestoreRuntime(j)
        <4>1. /\ settingsOf' = Unset /\ regression[j].step = "restore"
              /\ raced' = raced \cup {i \in {j} : OthersMake(i)}
          BY <3>2 DEF RestoreRuntime, Reset
        <4>2. ~OthersMake(j) /\ getting[j].at = "out"
          BY <2>4, <4>1 DEF RegressionInv, SettingsApart
        <4>3. \A t \in Threads : getting[t].at \notin {"read", "apply"}
          BY <4>2 DEF OthersMake, Making
        <4> QED
          BY <3>1, <4>1, <4>3 DEF SettingsFor
      <3>3. CASE ~RestoreRuntime(j)
        <4>1. ~InstallRuntime(j) /\ ~MeasureCase(j)
          <5>1. InstallRuntime(j) => regression'[j].step = "measure"
            BY <1>1 DEF InstallRuntime, Reset, Step, JobRecords
          <5>2. MeasureCase(j) => regression'[j].step = "restore"
            BY Measures
          <5> QED
            BY <2>4, <5>1, <5>2 DEF Inside
        <4>2. UNCHANGED settingsOf /\ ~Inside(j)
          BY <1>6, <3>3, <4>1 DEF RegressionStep, StartRegression, NextMeasurement, PersistRegression,
                                  RegressionError, processVars, Inside
        <4>3. \A k \in Regressions : ~Inside(k) /\ k \notin raced
          BY <1>4, <2>4, <3>1, <4>2 DEF Inside
        <4>4. SettingsFor(Staged)
          BY <1>3, <4>3
        <4> QED
          BY <3>1, <4>2, <4>4 DEF SettingsFor
      <3> QED
        BY <3>2, <3>3
    <2> QED
      BY <1>3, <2>1, <2>2, <2>3, <2>4
  <1> QED
    BY <1>5, <1>6

\* What passes the gate was measured case by case, on both sides.
LEMMA GateNeedsAll ==
    ASSUME NEW t \in Tallies, GatePasses(t)
    PROVE  t.cases > 0 /\ t.infra + t.skipped = 0
  BY DEF GatePasses, Tallies

LEMMA RowsStep ==
    ASSUME RegressionInv, NEW j \in Regressions, RegressionStep(j)
    PROVE  RowsRight'
  <1>1. /\ regression \in [Regressions -> JobRecords] /\ CasesLeft /\ GapsCount /\ SettingsApart /\ RowsRight
        /\ CaseCount \in Nat
    BY RegressionAssumption DEF RegressionInv
  <1>2. CASE PersistRegression(j)
    <2> DEFINE r == regression[j]
    <2>1. r.step = "report" /\ r \in JobRecords
      BY <1>1, <1>2 DEF PersistRegression
    <2>2. j \in foreign => r.shared \/ j \in raced
      BY <1>1 DEF SettingsApart, Undisturbed
    <2>3. GatePasses(r.tally) => r.tally.cases > 0 /\ r.tally.infra + r.tally.skipped = 0
      BY <2>1, GateNeedsAll DEF JobRecords
    <2>4. r.tally.cases = CaseCount
      BY <1>1, <2>1 DEF CasesLeft
    <2>5. GatePasses(r.tally) => ~r.gaps
      <3> SUFFICES ASSUME GatePasses(r.tally), r.gaps PROVE FALSE
        OBVIOUS
      <3>1. r.tally.infra + r.tally.skipped > 0
        BY <1>1, <2>1 DEF GapsCount
      <3> QED
        BY <2>3, <3>1
    <2>6. \A row \in evalRows' \ evalRows :
             /\ row.shared = r.shared /\ row.gaps = r.gaps
             /\ row.foreign = (j \in foreign) /\ row.raced = (j \in raced)
             /\ row.green = GatePasses(r.tally) /\ row.cases = r.tally.cases
      BY <1>2 DEF PersistRegression
    <2>7. \A row \in evalRows' \ evalRows :
             /\ ~row.shared /\ ~row.raced => ~row.foreign
             /\ row.green => ~row.gaps /\ row.cases = CaseCount /\ CaseCount > 0
      BY <2>2, <2>3, <2>4, <2>5, <2>6
    <2> QED
      BY <1>1, <2>7 DEF RowsRight
  <1>3. CASE ~PersistRegression(j)
    <2>1. evalRows' = evalRows
      BY <1>3 DEF RegressionStep, StartRegression, SaveRuntime, InstallRuntime, MeasureCase,
                  RestoreRuntime, NextMeasurement, RegressionError
    <2> QED
      BY <1>1, <2>1 DEF RowsRight
  <1> QED
    BY <1>2, <1>3

LEMMA RuntimeTypesStep ==
    ASSUME RegressionInv, NEW j \in Regressions, RegressionStep(j)
    PROVE  RuntimeTypes'
  <1>1. regression \in [Regressions -> JobRecords] /\ RuntimeTypes
    BY DEF RegressionInv
  <1>2. envId' \in Variants \cup {"none"} /\ override' \in Regressions \cup {"config"}
    <2>1. CASE InstallRuntime(j)
      <3>1. Target(j) \in Variants \cup {"current"}
        BY <1>1 DEF Target, JobRecords
      <3> QED
        BY <1>1, <2>1, <3>1 DEF InstallRuntime, RuntimeTypes
    <2>2. CASE RestoreRuntime(j)
      BY <1>1, <2>2 DEF RestoreRuntime, JobRecords
    <2>3. CASE ~InstallRuntime(j) /\ ~RestoreRuntime(j)
      <3>1. UNCHANGED <<envId, override>>
        BY <2>3 DEF RegressionStep, StartRegression, SaveRuntime, MeasureCase, NextMeasurement,
                    PersistRegression, RegressionError, processVars
      <3> QED
        BY <1>1, <3>1 DEF RuntimeTypes
    <2> QED
      BY <2>1, <2>2, <2>3
  <1>3. /\ settingsOf' \in {settingsOf, Unset} /\ UNCHANGED getting
        /\ foreign' \subseteq foreign \cup {j} /\ raced' \subseteq raced \cup {j}
    BY DEF RegressionStep, StartRegression, SaveRuntime, InstallRuntime, MeasureCase,
           RestoreRuntime, NextMeasurement, PersistRegression, RegressionError, processVars, Reset
  <1> QED
    BY <1>1, <1>2, <1>3 DEF RuntimeTypes

\* Threads in get_settings, one step at a time: settings that were for w stay so, if w is
\* what a thread reads.
LEMMA SettingsStep ==
    ASSUME RuntimeTypes, NEW t \in Threads, GetSettings(t), NEW w \in Variants \cup {"none"},
           SettingsFor(w),
           Effective = w /\ \A k \in Regressions : regression[k].step \notin {"install", "restore"}
    PROVE  SettingsFor(w)'
  <1>1. /\ getting \in [Threads -> [at : {"out", "make", "read", "apply", "return"},
                                   of : Variants \cup {"none"}]]
        /\ Made(w) # Unset /\ {} # Unset
    BY MadeIsSet DEF RuntimeTypes
  <1>2. \A u \in Threads \ {t} : getting'[u] = getting[u]
    BY <1>1 DEF GetSettings, AskSettings, PublishSettings, ReadOverrides, ApplyOverrides,
                ReturnSettings, GetAt
  <1>3. CASE AskSettings(t)
    <2>1. /\ getting[t].at = "out" /\ getting'[t].at \in {"make", "return"} /\ UNCHANGED settingsOf
      BY <1>1, <1>3 DEF AskSettings, GetAt
    <2> QED
      BY <1>2, <2>1 DEF SettingsFor
  <1>4. CASE PublishSettings(t)
    <2>1. getting'[t].at = "read" /\ settingsOf' = {}
      BY <1>1, <1>4 DEF PublishSettings, GetAt
    <2> QED
      BY <1>1, <1>2, <2>1 DEF SettingsFor
  <1>5. CASE ReadOverrides(t)
    <2>1. /\ getting[t].at = "read" /\ getting'[t].at = "apply" /\ getting'[t].of = w
          /\ UNCHANGED settingsOf
      BY <1>1, <1>5 DEF ReadOverrides
    <2> QED
      BY <1>1, <1>2, <2>1 DEF SettingsFor
  <1>6. CASE ApplyOverrides(t)
    <2>1. /\ getting[t].at = "apply" /\ getting[t].of = w /\ getting'[t].at = "return"
          /\ settingsOf # Unset /\ settingsOf' = settingsOf \cup Made(w)
      BY <1>1, <1>6 DEF ApplyOverrides, GetAt, SettingsFor
    <2>2. settingsOf' = Made(w)
      BY <2>1 DEF SettingsFor
    <2> QED
      BY <1>1, <1>2, <2>1, <2>2 DEF SettingsFor
  <1>7. CASE ReturnSettings(t)
    <2>1. getting[t].at = "return" /\ getting'[t].at = "out" /\ UNCHANGED settingsOf
      BY <1>1, <1>7 DEF ReturnSettings
    <2> QED
      BY <1>2, <2>1 DEF SettingsFor
  <1> QED
    BY <1>3, <1>4, <1>5, <1>6, <1>7 DEF GetSettings

\* A run that nothing disturbs has the settings to itself.
LEMMA SettingsApartServes ==
    ASSUME RegressionInv, NEW t \in Threads, GetSettings(t)
    PROVE  SettingsApart'
  <1>1. /\ regression \in [Regressions -> JobRecords] /\ RuntimeTypes /\ Apart /\ SettingsApart
        /\ getting \in [Threads -> [at : {"out", "make", "read", "apply", "return"},
                                   of : Variants \cup {"none"}]]
        /\ Regressions \subseteq Threads
    BY DEF RegressionInv, RuntimeTypes, Threads
  <1>2. /\ UNCHANGED regression /\ raced \subseteq raced'
        /\ \A u \in Threads \ {t} : getting'[u] = getting[u]
    BY <1>1 DEF GetSettings, AskSettings, PublishSettings, ReadOverrides, ApplyOverrides,
                ReturnSettings, GetAt
  <1>3. \A k \in Regressions : /\ Undisturbed(k)' => Undisturbed(k)
                               /\ Wanted(k)' = Wanted(k)
    BY <1>2 DEF Undisturbed, Wanted, Target
  <1>4. ASSUME NEW k \in Regressions, regression'[k].step \notin {"save", "measure"}
        PROVE  getting'[k].at = "out"
    <2>1. getting[k].at = "out" /\ (k = t => ~AskSettings(t))
      BY <1>1, <1>2, <1>4 DEF SettingsApart, AskSettings, MayAsk
    <2>2. k # t
      BY <2>1 DEF GetSettings, PublishSettings, ReadOverrides, ApplyOverrides, ReturnSettings
    <2> QED
      BY <1>1, <1>2, <2>1, <2>2
  <1>5. ASSUME NEW k \in Regressions, regression[k].step = "measure", Undisturbed(k)'
        PROVE  /\ SettingsFor(Wanted(k))' /\ OneMakes'
               /\ getting'[k].at = "return" =>
                     settingsOf' = Made(Wanted(k)) /\ \A u \in Threads : ~Making(u)'
    <2>1. PICK w \in Variants \cup {"none"} : w = Wanted(k)
      BY <1>1, WantedType
    <2>2. /\ SettingsFor(w) /\ OneMakes
          /\ getting[k].at = "return" => settingsOf = Made(w) /\ \A u \in Threads : ~Making(u)
      BY <1>1, <1>3, <1>5, <2>1 DEF SettingsApart
    <2>3. Effective = w /\ \A i \in Regressions : regression[i].step \notin {"install", "restore"}
      <3>1. ~regression[k].shared
        BY <1>3, <1>5 DEF Undisturbed
      <3>2. Effective = w
        BY <1>5, <2>1, <3>1, NotAlien
      <3> QED
        BY <1>1, <1>5, <3>1, <3>2 DEF Apart, Inside
    <2>4. SettingsFor(w)' /\ Made(w) # Unset /\ {} # Unset
      BY <1>1, <2>2, <2>3, SettingsStep, MadeIsSet
    <2>5. /\ OneMakes'
          /\ getting'[k].at = "return" => settingsOf' = Made(w) /\ \A u \in Threads : ~Making(u)'
      <3>1. CASE AskSettings(t)
        <4>1. /\ getting[t].at = "out" /\ UNCHANGED settingsOf
              /\ getting'[t].at = IF settingsOf = Unset THEN "make" ELSE "return"
          BY <1>1, <3>1 DEF AskSettings, GetAt
        <4>2. ~OthersMake(t)
          BY <1>5, <3>1 DEF AskSettings, Undisturbed
        <4>3. \A u \in Threads \ {t} : ~Making(u) /\ ~Making(u)'
          BY <1>2, <4>2 DEF OthersMake, Making
        <4>4. \A u \in Threads : getting[u].at \notin {"read", "apply"}
          BY <4>1, <4>3 DEF Making
        <4>5. settingsOf \in {Unset, Made(w)}
          BY <2>2, <4>4 DEF SettingsFor
        <4>6. ASSUME getting'[k].at = "return" PROVE settingsOf' = Made(w) /\ ~Making(t)'
          <5>1. settingsOf # Unset
            BY <1>1, <1>2, <2>2, <2>4, <4>1, <4>6
          <5> QED
            BY <4>1, <4>5, <5>1 DEF Making
        <4> QED
          BY <4>3, <4>6 DEF OneMakes
      <3>2. CASE ~AskSettings(t)
        <4>1. \A u \in Threads : Making(u)' => Making(u)
          BY <1>1, <1>2, <3>2 DEF GetSettings, PublishSettings, ReadOverrides, ApplyOverrides,
                                  ReturnSettings, GetAt, Making
        <4>2. ASSUME getting'[k].at = "return", getting[k].at = "return"
              PROVE  settingsOf' = Made(w) /\ \A u \in Threads : ~Making(u)'
          <5>1. settingsOf = Made(w) /\ \A u \in Threads : ~Making(u)
            BY <2>2, <4>2
          <5>2. ReturnSettings(t)
            BY <3>2, <5>1 DEF GetSettings, PublishSettings, ReadOverrides, ApplyOverrides, Making
          <5> QED
            BY <4>1, <5>1, <5>2 DEF ReturnSettings
        <4>3. ASSUME getting'[k].at = "return", getting[k].at # "return"
              PROVE  settingsOf' = Made(w) /\ \A u \in Threads : ~Making(u)'
          <5>1. k = t
            BY <1>1, <1>2, <4>3
          <5>2. ApplyOverrides(t)
            BY <1>1, <3>2, <4>3, <5>1
               DEF GetSettings, PublishSettings, ReadOverrides, ReturnSettings, GetAt
          <5>3. getting[t].at = "apply" /\ getting[t].of = w /\ settingsOf # Unset
            BY <2>2, <5>2 DEF ApplyOverrides, SettingsFor
          <5>4. settingsOf' = Made(w)
            BY <2>2, <5>2, <5>3 DEF ApplyOverrides, SettingsFor
          <5>5. \A u \in Threads \ {t} : ~Making(u)
            BY <2>2, <5>3 DEF OneMakes, Making
          <5>6. ~Making(t)'
            BY <4>3, <5>1 DEF Making
          <5> QED
            BY <4>1, <5>4, <5>5, <5>6
        <4> QED
          BY <2>2, <4>1, <4>2, <4>3 DEF OneMakes
      <3> QED
        BY <3>1, <3>2
    <2>6. SettingsFor(Wanted(k))'
      <3>1. Wanted(k)' = w
        BY <1>3, <2>1
      <3> QED
        BY <2>4, <3>1 DEF SettingsFor
    <2> QED
      BY <2>1, <2>5, <2>6
  <1>6. ASSUME NEW k \in Regressions, k \in foreign' PROVE ~Undisturbed(k)'
    <2>1. CASE k \in foreign
      BY <1>1, <1>3, <2>1 DEF SettingsApart
    <2>2. CASE k \notin foreign
      <3>1. ReturnSettings(t) /\ k = t /\ regression[k].step = "measure" /\ settingsOf # Made(Wanted(k))
        BY <1>6, <2>2 DEF GetSettings, AskSettings, PublishSettings, ReadOverrides, ApplyOverrides,
                          ReturnSettings
      <3>2. ~Undisturbed(k)
        BY <1>1, <3>1 DEF SettingsApart, ReturnSettings
      <3> QED
        BY <1>3, <3>2
    <2> QED
      BY <2>1, <2>2
  <1> QED
    BY <1>2, <1>3, <1>4, <1>5, <1>6 DEF SettingsApart

\* Threads that ask for the settings, users' and runs', change nothing else.
LEMMA ServeStep ==
    ASSUME RegressionInv, NEW t \in Threads, GetSettings(t)
    PROVE  RegressionInv'
  <1>1. /\ regression \in [Regressions -> JobRecords] /\ RuntimeTypes
        /\ Staged \in Variants \cup {"none"}
    BY RegressionAssumption DEF RegressionInv
  <1>2. UNCHANGED <<regression, envId, override, evalRows>> /\ raced \subseteq raced'
    BY DEF GetSettings, AskSettings, PublishSettings, ReadOverrides, ApplyOverrides, ReturnSettings
  <1>3. regression' \in [Regressions -> JobRecords] /\ CasesLeft' /\ GapsCount' /\ RowsRight'
    BY <1>2 DEF RegressionInv, CasesLeft, CaseInHand, GapsCount, RowsRight
  <1>4. Apart'
    <2>1. \A j \in Regressions : RunsAs(j)' = RunsAs(j)
      BY <1>2 DEF RunsAs, Target
    <2> QED
      BY <1>2, <2>1 DEF RegressionInv, Apart, Inside
  <1>5. RuntimeTypes'
    <2>1. settingsOf' \in (SUBSET Variants) \cup {Unset}
      <3>1. CASE ApplyOverrides(t)
        <4>1. Made(getting[t].of) \in SUBSET Variants
          BY <1>1, MadeIsSet DEF RuntimeTypes
        <4> QED
          BY <1>1, <3>1, <4>1 DEF ApplyOverrides, RuntimeTypes
      <3>2. CASE ~ApplyOverrides(t)
        BY <1>1, <3>2 DEF GetSettings, AskSettings, PublishSettings, ReadOverrides, ReturnSettings,
                          RuntimeTypes
      <3> QED
        BY <3>1, <3>2
    <2>2. getting' \in [Threads -> [at : {"out", "make", "read", "apply", "return"},
                                   of : Variants \cup {"none"}]]
      <3>1. Effective \in Variants \cup {"none"}
        BY <1>1 DEF Effective, RuntimeTypes
      <3> QED
        BY <1>1, <3>1 DEF GetSettings, AskSettings, PublishSettings, ReadOverrides, ApplyOverrides,
                          ReturnSettings, GetAt, RuntimeTypes
    <2>3. foreign' \subseteq Regressions /\ raced' \subseteq Regressions
      BY <1>1 DEF GetSettings, AskSettings, PublishSettings, ReadOverrides, ApplyOverrides,
                  ReturnSettings, RuntimeTypes
    <2> QED
      BY <1>1, <1>2, <2>1, <2>2, <2>3 DEF RuntimeTypes
  <1>6. StagedKept'
    <2> SUFFICES ASSUME \A k \in Regressions : ~regression'[k].shared
                 PROVE  /\ \A k \in Regressions : Inside(k)' =>
                              regression'[k].env = Staged /\ regression'[k].path = "config"
                        /\ (\A k \in Regressions : regression'[k].step \notin {"measure", "restore"}) =>
                              envId' = Staged /\ override' = "config"
                        /\ (\A k \in Regressions : ~Inside(k)' /\ k \notin raced') => SettingsFor(Staged)'
      BY DEF StagedKept
    <2>1. /\ \A k \in Regressions : ~regression[k].shared
          /\ \A k \in Regressions : Inside(k)' = Inside(k)
      BY <1>2 DEF Inside
    <2>2. ASSUME \A k \in Regressions : ~Inside(k) /\ k \notin raced'
          PROVE  SettingsFor(Staged)'
      <3>1. SettingsFor(Staged)
        BY <1>2, <2>1, <2>2 DEF RegressionInv, StagedKept
      <3>2. Effective = Staged
        BY <2>1, <2>2, AsStarted DEF Inside
      <3>3. \A k \in Regressions : regression[k].step \notin {"install", "restore"}
        BY <2>2 DEF Inside
      <3> QED
        BY <1>1, <3>1, <3>2, <3>3, SettingsStep
    <2> QED
      BY <1>2, <2>1, <2>2 DEF RegressionInv, StagedKept
  <1> QED
    BY <1>3, <1>4, <1>5, <1>6, SettingsApartServes DEF RegressionInv

LEMMA RegressionInvStep == RegressionInv /\ [RegressionNext]_regressionVars => RegressionInv'
  <1> SUFFICES ASSUME RegressionInv, [RegressionNext]_regressionVars PROVE RegressionInv'
    OBVIOUS
  <1>1. ASSUME NEW j \in Regressions, RegressionStep(j) PROVE RegressionInv'
    BY <1>1, StepOfJob, RuntimeTypesStep, CasesStep, GapsStep, ApartStep, SettingsApartStep, StagedStep,
       RowsStep
       DEF RegressionInv
  <1>2. CASE UNCHANGED regressionVars
    <2>1. \A j \in Regressions : RunsAs(j)' = RunsAs(j) /\ Wanted(j)' = Wanted(j)
      BY <1>2 DEF RunsAs, Target, Wanted, regressionVars
    <2>2. /\ regression' \in [Regressions -> JobRecords] /\ RuntimeTypes' /\ CasesLeft' /\ GapsCount'
          /\ Apart' /\ RowsRight'
      BY <1>2, <2>1 DEF regressionVars, RegressionInv, RuntimeTypes, CasesLeft, CaseInHand, GapsCount,
                        Apart, RowsRight, Inside
    <2>3. SettingsApart' /\ StagedKept'
      BY <1>2, <2>1 DEF regressionVars, RegressionInv, SettingsApart, StagedKept, SettingsFor, OneMakes,
                        Making, Undisturbed, Inside, Made
    <2> QED
      BY <2>2, <2>3 DEF RegressionInv
  <1> QED
    BY <1>1, <1>2, ServeStep DEF RegressionNext

LEMMA RegressionsGood == RegressionInv => RegressionSafety
  <1> SUFFICES ASSUME RegressionInv PROVE RegressionSafety
    OBVIOUS
  <1>1. regression \in [Regressions -> JobRecords] /\ RuntimeTypes
    BY DEF RegressionInv
  <1>2. RegressionTypeOK
    <2>1. ASSUME NEW j \in Regressions
          PROVE  /\ regression[j].step \in {"queued", "save", "install", "measure", "restore", "next",
                                            "report", "completed", "error"}
                 /\ regression[j].tally.cases \in 0..CaseCount
                 /\ regression[j].env \in Variants \cup {"none"}
                 /\ regression[j].path \in Regressions \cup {"config"}
      <3>1. regression[j] \in JobRecords
        BY <1>1
      <3>2. regression[j].tally \in Tallies
        BY <3>1 DEF JobRecords
      <3>3. regression[j].tally.cases \in 0..CaseCount
        BY <3>2 DEF Tallies
      <3> QED
        BY <3>1, <3>3 DEF JobRecords
    <2>2. \A t \in Threads : /\ getting[t].at \in {"out", "make", "read", "apply", "return"}
                             /\ getting[t].of \in Variants \cup {"none"}
      BY <1>1 DEF RuntimeTypes
    <2> QED
      BY <1>1, <2>1, <2>2 DEF RegressionTypeOK, RuntimeTypes
  <1>3. AloneMeasuresItsTargets /\ GreenIsComplete
    BY DEF RegressionInv, RowsRight, AloneMeasuresItsTargets, GreenIsComplete
  <1>4. StagedBetweenRuns
    <2> SUFFICES ASSUME \A j \in Regressions : ~Inside(j) /\ ~regression[j].shared /\ j \notin raced,
                        \A t \in Threads : ~Making(t)
                 PROVE  Effective = Staged /\ settingsOf \in {Unset, Made(Staged)}
      BY DEF StagedBetweenRuns
    <2>1. Effective = Staged
      BY AsStarted DEF Inside
    <2>2. SettingsFor(Staged)
      BY DEF RegressionInv, StagedKept
    <2> QED
      BY <2>1, <2>2 DEF SettingsFor, Making
  <1> QED
    BY <1>2, <1>3, <1>4 DEF RegressionSafety

\* However many regression runs overlap while users are served, all of them making the
\* cached settings without a lock: one that met no other run, and no thread in the middle of
\* making the settings, was measured under its own targets; runs that never met and were
\* never raced leave the staged experiment behind; and green means every case was measured
\* on both sides (get_settings, _experiment_runtime, decide_regression_gate).
THEOREM RegressionsTellTheTruth == RegressionSpec => []RegressionSafety
  BY RegressionInitInv, RegressionInvStep, RegressionsGood, PTL DEF RegressionSpec

----------------------------------------------------------------------------
(* ExperimentRollout.                                                      *)

Deployment == [trial : Trials, run : 1..MaxGreen, active : BOOLEAN]

AdminRequest == [op : {"none", "deploy", "rollback", "assign"}, trial : Trials \cup {Nothing},
                 customer : Customers \cup {Nothing}, step : {"new", "files"}]

Statuses == {"absent", "draft", "deployed", "completed", "archived", "torn"}

\* What the variables hold, the requests of administrators and the watcher included.
RolloutTyped ==
    /\ green \in [Trials -> 0..MaxGreen]
    /\ deployments \in Seq(Deployment)
    /\ trialStatus \in [Trials -> Statuses]
    /\ runtimeFile \in Trials \cup {Nothing} /\ left \in BOOLEAN
    /\ admin \in [Admins -> AdminRequest]
    /\ watch \in [step : {"idle", "judge"}, listed : SUBSET [trial : Trials, run : 1..MaxGreen]]
    /\ table \in [Customers -> Trials \cup {Nothing}]
    /\ rollout \in [Customers -> Trials \cup {Nothing}]

\* A request between its two steps has an experiment, and a tenant if it assigns one.
RequestsNamed ==
    \A a \in Admins : admin[a].step = "files" =>
        /\ admin[a].op \in {"deploy", "rollback", "assign"}
        /\ admin[a].trial \in Trials
        /\ admin[a].op = "assign" => admin[a].customer \in Customers

\* The file's experiment is deployed, or a rollback of it is about to remove the file.
FileKept ==
    runtimeFile # Nothing =>
        \/ left
        \/ Active(runtimeFile) # {}
        \/ runtimeFile \in crossed
        \/ \E b \in Admins : /\ admin[b].step = "files" /\ admin[b].op = "rollback"
                             /\ admin[b].trial = runtimeFile

\* What a deployment is about to write into the file is still deployed.
DeployPending ==
    \A a \in Admins : admin[a].step = "files" /\ admin[a].op = "deploy" =>
        Active(admin[a].trial) # {} \/ admin[a].trial \in crossed

\* A cached assignment is the table's, or an assignment of the tenant will correct it.
CacheKept ==
    \A c \in Customers : rollout[c] # Nothing =>
        \/ rollout[c] = table[c]
        \/ c \in crossed
        \/ \E a \in Admins : /\ admin[a].step = "files" /\ admin[a].op = "assign"
                             /\ admin[a].customer = c

\* What an assignment is about to write into the cache is still in the table.
AssignPending ==
    \A a \in Admins : admin[a].step = "files" /\ admin[a].op = "assign" =>
        table[admin[a].customer] = admin[a].trial \/ admin[a].customer \in crossed

RolloutInvariant ==
    /\ RolloutTyped
    /\ RequestsNamed
    /\ FileKept
    /\ DeployPending
    /\ CacheKept
    /\ AssignPending
    /\ ~unmeasured

\* A YAML that is saved, or torn, has a status.
LEMMA StatusTyped ==
    ASSUME RolloutTyped, NEW x \in Trials, NEW s \in Statuses,
           Save(x, s) \/ Status(x, s) \/ YamlFails(x)
    PROVE  trialStatus' \in [Trials -> Statuses]
<1>1. UNCHANGED trialStatus \/ \E t \in Statuses : trialStatus' = [trialStatus EXCEPT ![x] = t]
  BY DEF Save, Status, YamlFails, Statuses
<1> QED
  BY <1>1 DEF RolloutTyped

\* Multiplication keeps the order.
LEMMA Times ==
    ASSUME NEW b \in Nat, NEW T \in Nat, NEW q \in Int, T <= q
    PROVE  T * b <= q * b
  OBVIOUS

\* Integer division rounds down.
LEMMA DivUp ==
    ASSUME NEW n \in Nat, NEW b \in Nat \ {0}
    PROVE  n \div b \in Int /\ n >= b * (n \div b)
  OBVIOUS

\* A rounded-down percentage that reaches the threshold is a loss that reaches it.
LEMMA DivReaches ==
    ASSUME NEW n \in Nat, NEW b \in Nat \ {0}, NEW T \in Nat, n \div b >= T
    PROVE  n >= T * b
  BY Times, DivUp

\* The greatest of one or two integers is one of them.
LEMMA MaxOfTwo ==
    ASSUME NEW m \in Int, NEW n \in Int
    PROVE  Max({m, n}) \in {m, n}
<1>1. \E x \in {m, n} : \A y \in {m, n} : x >= y
  <2>1. CASE m >= n
    BY <2>1
  <2>2. CASE n >= m
    BY <2>2
  <2> QED
    BY <2>1, <2>2
<1> QED
  BY <1>1 DEF Max

\* A pass of the watcher that decides for a rollback has an evaluator that lost the
\* threshold.
LEMMA DriftIsMeasured ==
    ASSUME NEW j \in Judgements, j.drift
    PROVE  j.drop # {}
<1>1. PICK base \in MeanScores, cand \in MeanScores :
        j = [drift |-> ComputeDrift(base, cand),
             drop |-> {e \in DOMAIN base \cap DOMAIN cand :
                   base[e] > 0 /\ (base[e] - cand[e]) * 100 >= DropThreshold * base[e]}]
  BY DEF Judgements
<1> DEFINE Lost == {f \in DOMAIN base \cap DOMAIN cand : base[f] # 0 /\ base[f] > cand[f]}
           Loss(e) == ((base[e] - cand[e]) * 100) \div base[e]
<1>2. ComputeDrift(base, cand)
  BY <1>1
<1>3. /\ DOMAIN base \subseteq OnlineEvaluators /\ DOMAIN cand \subseteq OnlineEvaluators
      /\ \A e \in DOMAIN base : base[e] \in 0..MaxScore
      /\ \A e \in DOMAIN cand : cand[e] \in 0..MaxScore
  BY DEF MeanScores
<1>4. \A e \in Lost : /\ base[e] \in Nat \ {0} /\ cand[e] \in Nat
                      /\ (base[e] - cand[e]) * 100 \in Nat
  BY <1>3, RolloutAssumption DEF RolloutAssumption
<1>5. \A e \in Lost : Loss(e) \in Int
  BY <1>4, DivUp
<1>6. Drops(base, cand) = {Loss(e) : e \in Lost}
  BY DEF Drops
<1>7. PICK m \in Lost, n \in Lost : Lost = {m, n}
  <2>1. Lost # {}
    BY <1>2, <1>6 DEF ComputeDrift
  <2>2. Lost \subseteq {"citation_coverage", "refusal_detected"}
    BY <1>3 DEF OnlineEvaluators
  <2> HIDE DEF Lost
  <2>3. PICK m \in Lost : TRUE
    BY <2>1
  <2>4. CASE Lost = {m}
    <3>1. Lost = {m, m}
      BY <2>4
    <3> QED
      BY <3>1
  <2>5. CASE Lost # {m}
    <3>1. PICK n \in Lost : n # m
      BY <2>3, <2>5
    <3>2. Lost = {m, n}
      BY <2>2, <2>3, <3>1
    <3> QED
      BY <3>1, <3>2
  <2> QED
    BY <2>4, <2>5
<1> HIDE DEF Lost
<1>8. Drops(base, cand) = {Loss(m), Loss(n)}
  BY <1>6, <1>7
<1>9. PICK e \in Lost : Max(Drops(base, cand)) = Loss(e)
  <2>1. Loss(m) \in Int /\ Loss(n) \in Int
    BY <1>5
  <2> HIDE DEF Loss
  <2> QED
    BY <2>1, <1>7, <1>8, MaxOfTwo
<1>10. Loss(e) >= DropThreshold
  BY <1>2, <1>9 DEF ComputeDrift
<1>11. (base[e] - cand[e]) * 100 >= DropThreshold * base[e]
  BY <1>4, <1>10, DivReaches, RolloutAssumption DEF RolloutAssumption
<1>12. e \in DOMAIN base \cap DOMAIN cand /\ base[e] > 0
  BY <1>4 DEF Lost
<1> QED
  BY <1>1, <1>11, <1>12

\* Marking the rows of one experiment's run changes nothing of the others.
LEMMA RowsOfOthers ==
    ASSUME RolloutTyped, NEW x, NEW n, RollBackRows(x, n)
    PROVE  /\ deployments' \in Seq(Deployment)
           /\ \A y : y # x => Active(y)' = Active(y)
<1> USE DEF RollBackRows, RolloutTyped
<1>1. deployments \in Seq(Deployment)
  OBVIOUS
<1>2. /\ DOMAIN deployments = 1..Len(deployments) /\ Len(deployments) \in Nat
      /\ \A i \in DOMAIN deployments : deployments[i] \in Deployment
  BY <1>1
<1>3. /\ DOMAIN deployments' = DOMAIN deployments
      /\ \A i \in DOMAIN deployments :
            /\ deployments'[i] \in Deployment
            /\ deployments'[i].trial = deployments[i].trial
            /\ deployments[i].trial # x => deployments'[i] = deployments[i]
  BY <1>2 DEF Deployment
<1>4. deployments' \in Seq(Deployment)
  <2>1. deployments' \in [1..Len(deployments) -> Deployment]
    BY <1>2, <1>3
  <2> QED
    BY <2>1, <1>2, IsASeq
<1> QED
  BY <1>3, <1>4 DEF Active

\* A new row leaves what is deployed deployed.
LEMMA RowAdded ==
    ASSUME RolloutTyped, NEW d \in Deployment, deployments' = Append(deployments, d)
    PROVE  /\ deployments' \in Seq(Deployment)
           /\ \A y : Active(y) # {} => Active(y)' # {}
           /\ d.active => Active(d.trial)' # {}
<1>1. /\ deployments' \in Seq(Deployment)
      /\ Len(deployments') = Len(deployments) + 1
      /\ \A i \in 1..Len(deployments) : deployments'[i] = deployments[i]
      /\ deployments'[Len(deployments) + 1] = d
      /\ DOMAIN deployments = 1..Len(deployments)
      /\ DOMAIN deployments' = 1..(Len(deployments) + 1)
      /\ Len(deployments) \in Nat
  BY AppendProperties DEF RolloutTyped
<1>2. Len(deployments) + 1 \in DOMAIN deployments' /\ DOMAIN deployments \subseteq DOMAIN deployments'
  BY <1>1
<1> QED
  BY <1>1, <1>2 DEF Active

LEMMA RolloutStarts == RolloutInit => RolloutInvariant
<1> SUFFICES ASSUME RolloutInit PROVE RolloutInvariant
  OBVIOUS
<1> USE DEF RolloutInit
<1>1. RolloutTyped
  <2>1. deployments \in Seq(Deployment)
    OBVIOUS
  <2>2. Free \in AdminRequest
    BY DEF Free, AdminRequest
  <2>3. trialStatus \in [Trials -> Statuses] /\ left \in BOOLEAN
    BY DEF Statuses
  <2>4. /\ green \in [Trials -> 0..MaxGreen]
        /\ watch \in [step : {"idle", "judge"}, listed : SUBSET [trial : Trials, run : 1..MaxGreen]]
    BY RolloutAssumption DEF RolloutAssumption
  <2> QED
    BY <2>1, <2>2, <2>3, <2>4 DEF RolloutTyped
<1>2. \A a \in Admins : admin[a].step = "new"
  BY DEF Free
<1> QED
  BY <1>1, <1>2 DEF RolloutInvariant, RequestsNamed, FileKept, DeployPending, CacheKept,
                    AssignPending

\* Occupying a request, or freeing it, changes that request only.
LEMMA OnlyThisRequest ==
    ASSUME RolloutTyped, NEW a \in Admins, NEW r \in AdminRequest,
           admin' = [admin EXCEPT ![a] = r]
    PROVE  /\ admin' \in [Admins -> AdminRequest]
           /\ admin'[a] = r
           /\ \A b \in Admins \ {a} : admin'[b] = admin[b]
  BY DEF RolloutTyped

LEMMA RolloutStep == RolloutInvariant /\ [RolloutNext]_rolloutVars => RolloutInvariant'
<1> SUFFICES ASSUME RolloutInvariant, [RolloutNext]_rolloutVars PROVE RolloutInvariant'
  OBVIOUS
<1> USE DEF RolloutInvariant
<1>1. ASSUME NEW x \in Trials,
             NewExperiment(x) \/ GreenRun(x) \/ ArchiveExperiment(x) \/ ApplyDeploy(x)
      PROVE  RolloutInvariant'
  <2>1. UNCHANGED <<deployments, runtimeFile, left, admin, watch, unmeasured, table, rollout,
                  crossed>>
    BY <1>1 DEF NewExperiment, GreenRun, ArchiveExperiment, ApplyDeploy
  <2>2. /\ green' \in [Trials -> 0..MaxGreen]
        /\ trialStatus' \in [Trials -> Statuses]
    <3>1. CASE GreenRun(x)
      BY <3>1, RolloutAssumption DEF GreenRun, RolloutTyped, RolloutAssumption
    <3>2. CASE NewExperiment(x)
      BY <3>2, StatusTyped DEF NewExperiment, RolloutTyped, Statuses
    <3>3. CASE ArchiveExperiment(x)
      BY <3>3, StatusTyped DEF ArchiveExperiment, RolloutTyped, Statuses
    <3>4. CASE ApplyDeploy(x)
      BY <3>4, StatusTyped DEF ApplyDeploy, RolloutTyped, Statuses
    <3> QED
      BY <1>1, <3>1, <3>2, <3>3, <3>4
  <2> QED
    BY <2>1, <2>2 DEF RolloutTyped, RequestsNamed, FileKept, DeployPending, CacheKept,
                      AssignPending, Active
<1>2. ASSUME NEW a \in Admins, NEW x \in Trials, DeployCommit(a, x)
      PROVE  RolloutInvariant'
  <2> DEFINE r == [op |-> "deploy", trial |-> x, customer |-> Nothing, step |-> "files"]
             d == [trial |-> x, run |-> green[x], active |-> TRUE]
  <2>1. /\ admin[a].step = "new" /\ green[x] > 0
        /\ deployments' = Append(deployments, d)
        /\ admin' = [admin EXCEPT ![a] = r]
        /\ crossed \subseteq crossed'
        /\ UNCHANGED <<green, trialStatus, runtimeFile, left, watch, unmeasured, table, rollout>>
    BY <1>2 DEF DeployCommit, Occupy, Cross
  <2>2. d \in Deployment /\ d.active /\ d.trial = x
    BY <2>1, RolloutAssumption DEF Deployment, RolloutTyped, RolloutAssumption
  <2>3. r \in AdminRequest /\ r.step = "files" /\ r.op = "deploy" /\ r.trial = x
    BY DEF AdminRequest
  <2> HIDE DEF r, d
  <2>4. /\ deployments' \in Seq(Deployment)
        /\ \A y : Active(y) # {} => Active(y)' # {}
        /\ Active(x)' # {}
    BY <2>1, <2>2, RowAdded
  <2>5. /\ admin' \in [Admins -> AdminRequest]
        /\ admin'[a] = r
        /\ \A b \in Admins \ {a} : admin'[b] = admin[b]
    BY <2>1, <2>3, OnlyThisRequest
  <2>6. RolloutTyped'
    BY <2>1, <2>4, <2>5 DEF RolloutTyped
  <2>7. RequestsNamed'
    BY <2>3, <2>5 DEF RequestsNamed
  <2>8. FileKept'
    BY <2>1, <2>4, <2>5 DEF FileKept
  <2>9. DeployPending'
    BY <2>1, <2>3, <2>4, <2>5 DEF DeployPending
  <2>10. CacheKept'
    BY <2>1, <2>5 DEF CacheKept
  <2>11. AssignPending'
    BY <2>1, <2>3, <2>5 DEF AssignPending
  <2> QED
    BY <2>1, <2>6, <2>7, <2>8, <2>9, <2>10, <2>11
<1>3. ASSUME NEW a \in Admins, NEW x \in Trials, RollbackCommit(a, x)
      PROVE  RolloutInvariant'
  <2> DEFINE r == [op |-> "rollback", trial |-> x, customer |-> Nothing, step |-> "files"]
             n == deployments[Max(Active(x))].run
  <2>1. /\ admin[a].step = "new"
        /\ RollBackRows(x, n)
        /\ admin' = [admin EXCEPT ![a] = r]
        /\ crossed' = IF Crossing(x) THEN crossed \cup {x} ELSE crossed
        /\ UNCHANGED <<green, trialStatus, runtimeFile, left, watch, unmeasured, table, rollout>>
    BY <1>3 DEF RollbackCommit, Occupy, Cross
  <2>2. crossed \subseteq crossed' /\ (Crossing(x) => x \in crossed')
    BY <2>1
  <2>3. r \in AdminRequest /\ r.step = "files" /\ r.op = "rollback" /\ r.trial = x
    BY DEF AdminRequest
  <2> HIDE DEF r, n
  <2>4. /\ deployments' \in Seq(Deployment)
        /\ \A y : y # x => Active(y)' = Active(y)
    BY <2>1, RowsOfOthers
  <2>5. /\ admin' \in [Admins -> AdminRequest]
        /\ admin'[a] = r
        /\ \A b \in Admins \ {a} : admin'[b] = admin[b]
    BY <2>1, <2>3, OnlyThisRequest
  <2>6. RolloutTyped'
    BY <2>1, <2>4, <2>5 DEF RolloutTyped
  <2>7. RequestsNamed'
    BY <2>3, <2>5 DEF RequestsNamed
  <2>8. FileKept'
    <3>1. CASE runtimeFile = x
      BY <2>1, <2>3, <2>5, <3>1 DEF FileKept
    <3>2. CASE runtimeFile # x
      BY <2>1, <2>2, <2>4, <2>5, <3>2 DEF FileKept
    <3> QED
      BY <3>1, <3>2
  <2>9. DeployPending'
    <3> SUFFICES ASSUME NEW b \in Admins, admin'[b].step = "files", admin'[b].op = "deploy"
                 PROVE  Active(admin[b].trial)' # {} \/ admin'[b].trial \in crossed'
      BY DEF DeployPending
    <3>1. b # a /\ admin'[b] = admin[b]
      BY <2>3, <2>5
    <3>2. CASE admin[b].trial = x
      BY <2>2, <3>1, <3>2 DEF Crossing
    <3>3. CASE admin[b].trial # x
      BY <2>2, <2>4, <3>1, <3>3 DEF DeployPending
    <3> QED
      BY <3>2, <3>3
  <2>10. CacheKept'
    BY <2>1, <2>2, <2>5 DEF CacheKept
  <2>11. AssignPending'
    BY <2>1, <2>2, <2>3, <2>5 DEF AssignPending
  <2> QED
    BY <2>1, <2>6, <2>7, <2>8, <2>9, <2>10, <2>11
<1>4. ASSUME NEW a \in Admins, NEW x \in Trials, NEW c \in Customers, AssignCommit(a, x, c)
      PROVE  RolloutInvariant'
  <2> DEFINE r == [op |-> "assign", trial |-> x, customer |-> c, step |-> "files"]
  <2>1. /\ admin[a].step = "new"
        /\ table' = [table EXCEPT ![c] = x]
        /\ admin' = [admin EXCEPT ![a] = r]
        /\ crossed \subseteq crossed'
        /\ \A b \in Admins : admin[b].step = "files" /\ admin[b].customer = c => c \in crossed'
        /\ UNCHANGED <<green, deployments, trialStatus, runtimeFile, left, watch, unmeasured, rollout>>
    BY <1>4 DEF AssignCommit, Occupy
  <2>2. /\ r \in AdminRequest /\ r.step = "files" /\ r.op = "assign" /\ r.trial = x
        /\ r.customer = c
    BY DEF AdminRequest
  <2> HIDE DEF r
  <2>3. /\ admin' \in [Admins -> AdminRequest]
        /\ admin'[a] = r
        /\ \A b \in Admins \ {a} : admin'[b] = admin[b]
    BY <2>1, <2>2, OnlyThisRequest
  <2>4. /\ table' \in [Customers -> Trials \cup {Nothing}]
        /\ table'[c] = x
        /\ \A e \in Customers \ {c} : table'[e] = table[e]
    BY <2>1 DEF RolloutTyped
  <2>5. RolloutTyped'
    BY <2>1, <2>3, <2>4 DEF RolloutTyped
  <2>6. RequestsNamed'
    BY <2>2, <2>3 DEF RequestsNamed
  <2>7. FileKept'
    BY <2>1, <2>3 DEF FileKept, Active
  <2>8. DeployPending'
    BY <2>1, <2>2, <2>3 DEF DeployPending, Active
  <2>9. CacheKept'
    <3> SUFFICES ASSUME NEW e \in Customers, rollout[e] # Nothing
                 PROVE  \/ rollout[e] = table'[e]
                        \/ e \in crossed'
                        \/ \E b \in Admins : /\ admin'[b].step = "files"
                                             /\ admin'[b].op = "assign"
                                             /\ admin'[b].customer = e
      BY <2>1 DEF CacheKept
    <3>1. CASE e = c
      BY <2>2, <2>3, <3>1
    <3>2. CASE e # c
      BY <2>1, <2>3, <2>4, <3>2 DEF CacheKept
    <3> QED
      BY <3>1, <3>2
  <2>10. AssignPending'
    <3> SUFFICES ASSUME NEW b \in Admins, admin'[b].step = "files", admin'[b].op = "assign"
                 PROVE  \/ table'[admin'[b].customer] = admin'[b].trial
                        \/ admin'[b].customer \in crossed'
      BY DEF AssignPending
    <3>1. CASE b = a
      BY <2>2, <2>3, <2>4, <3>1
    <3>2. CASE b # a /\ admin[b].customer = c
      BY <2>1, <2>3, <3>2
    <3>3. CASE b # a /\ admin[b].customer # c
      BY <2>1, <2>3, <2>4, <3>3 DEF AssignPending, RequestsNamed
    <3> QED
      BY <3>1, <3>2, <3>3
  <2> QED
    BY <2>1, <2>5, <2>6, <2>7, <2>8, <2>9, <2>10
<1>5. ASSUME NEW a \in Admins, DeployFiles(a) \/ RollbackFiles(a) \/ AssignCache(a)
      PROVE  RolloutInvariant'
  <2>1. Free \in AdminRequest /\ Free.step = "new" /\ Free.op = "none"
    BY DEF Free, AdminRequest
  <2>2. /\ admin' = [admin EXCEPT ![a] = Free]
        /\ admin[a].step = "files"
        /\ UNCHANGED <<green, deployments, watch, unmeasured, table, crossed>>
    BY <1>5 DEF DeployFiles, RollbackFiles, AssignCache
  <2>3. /\ admin' \in [Admins -> AdminRequest]
        /\ admin'[a] = Free
        /\ \A b \in Admins \ {a} : admin'[b] = admin[b]
    BY <2>1, <2>2, OnlyThisRequest
  <2>4. RequestsNamed' /\ DeployPending' /\ AssignPending'
    BY <2>1, <2>2, <2>3 DEF RequestsNamed, DeployPending, AssignPending, Active
  <2>5. CASE DeployFiles(a)
    <3>1. PICK x \in Trials : /\ x = admin[a].trial /\ admin[a].op = "deploy"
                              /\ Status(x, "deployed") \/ YamlFails(x)
                              /\ \/ \E f \in {x, Nothing} : runtimeFile' = f /\ left' = FALSE
                                 \/ UNCHANGED <<runtimeFile, left>>
                              /\ rollout' = rollout
      BY <2>2, <2>5 DEF DeployFiles, PutFile, RequestsNamed
    <3>5. trialStatus' \in [Trials -> Statuses]
      BY <3>1, StatusTyped DEF Statuses
    <3>2. RolloutTyped'
      BY <2>2, <2>3, <3>1, <3>5 DEF RolloutTyped
    <3>3. FileKept'
      <4>1. CASE UNCHANGED <<runtimeFile, left>>
        BY <2>2, <2>3, <3>1, <4>1 DEF FileKept, Active
      <4>2. CASE runtimeFile' = x
        BY <2>2, <3>1, <4>2 DEF FileKept, DeployPending, Active
      <4>3. CASE runtimeFile' = Nothing
        BY <4>3 DEF FileKept
      <4> QED
        BY <3>1, <4>1, <4>2, <4>3
    <3>4. CacheKept'
      BY <2>2, <2>3, <3>1 DEF CacheKept
    <3> QED
      BY <2>2, <2>4, <3>2, <3>3, <3>4
  <2>6. CASE RollbackFiles(a)
    <3>1. PICK x \in Trials : /\ x = admin[a].trial /\ admin[a].op = "rollback"
                              /\ Status(x, "completed") \/ YamlFails(x)
                              /\ \/ runtimeFile' = Nothing /\ left' = FALSE
                                 \/ FileStays(x)
                              /\ rollout' = rollout
      BY <2>2, <2>6 DEF RollbackFiles, PutFile, FileAfterRollback, RequestsNamed
    <3>5. trialStatus' \in [Trials -> Statuses]
      BY <3>1, StatusTyped DEF Statuses
    <3>2. RolloutTyped'
      BY <2>2, <2>3, <3>1, <3>5 DEF RolloutTyped, FileStays
    \* The rollback that leaves its own file is over; those of others are as they were.
    <3>3. FileKept'
      <4>1. CASE runtimeFile' = Nothing
        BY <4>1 DEF FileKept
      <4>2. CASE FileStays(x) /\ runtimeFile = x
        BY <4>2 DEF FileStays, FileKept
      <4>3. CASE FileStays(x) /\ runtimeFile # x
        BY <2>2, <2>3, <3>1, <4>3 DEF FileStays, FileKept, Active
      <4> QED
        BY <3>1, <4>1, <4>2, <4>3
    <3>4. CacheKept'
      BY <2>2, <2>3, <3>1 DEF CacheKept
    <3> QED
      BY <2>2, <2>4, <3>2, <3>3, <3>4
  <2>7. CASE AssignCache(a)
    <3> DEFINE c == admin[a].customer
    <3>1. /\ admin[a].op = "assign" /\ admin[a].trial \in Trials /\ c \in Customers
          /\ rollout' = [rollout EXCEPT ![c] = admin[a].trial]
          /\ UNCHANGED <<trialStatus, runtimeFile, left>>
      BY <2>2, <2>7 DEF AssignCache, Cached, RequestsNamed
    <3>2. RolloutTyped'
      BY <2>2, <2>3, <3>1 DEF RolloutTyped
    <3>3. FileKept'
      BY <2>2, <2>3, <3>1 DEF FileKept, Active
    <3>4. /\ rollout'[c] = admin[a].trial
          /\ \A e \in Customers \ {c} : rollout'[e] = rollout[e]
      BY <3>1 DEF RolloutTyped
    <3>5. table[c] = admin[a].trial \/ c \in crossed
      BY <2>2, <3>1 DEF AssignPending
    <3>6. ASSUME NEW e \in Customers, rollout'[e] # Nothing
          PROVE  \/ rollout'[e] = table'[e]
                 \/ e \in crossed'
                 \/ \E b \in Admins : /\ admin'[b].step = "files"
                                      /\ admin'[b].op = "assign"
                                      /\ admin'[b].customer = e
      <4>1. CASE e = c
        BY <2>2, <3>4, <3>5, <4>1
      <4>2. CASE e # c
        BY <2>2, <2>3, <3>4, <3>6, <4>2 DEF CacheKept
      <4> QED
        BY <4>1, <4>2
    <3>7. CacheKept'
      BY <3>6 DEF CacheKept
    <3> QED
      BY <2>2, <2>4, <3>2, <3>3, <3>7
  <2> QED
    BY <1>5, <2>5, <2>6, <2>7
<1>6. CASE ListActive \/ WatchFails
  <2>1. UNCHANGED <<green, deployments, trialStatus, runtimeFile, left, admin, unmeasured, table,
                  rollout, crossed>>
    BY <1>6 DEF ListActive, WatchFails
  <2>2. watch' \in [step : {"idle", "judge"}, listed : SUBSET [trial : Trials, run : 1..MaxGreen]]
    <3>1. \A i \in DOMAIN deployments : deployments[i] \in Deployment
      BY DEF RolloutTyped
    <3>2. \A i \in DOMAIN deployments :
            [trial |-> deployments[i].trial, run |-> deployments[i].run]
                \in [trial : Trials, run : 1..MaxGreen]
      BY <3>1 DEF Deployment
    <3> QED
      BY <1>6, <3>2 DEF ListActive, WatchFails
  <2> QED
    BY <2>1, <2>2 DEF RolloutTyped, RequestsNamed, FileKept, DeployPending, CacheKept,
                      AssignPending, Active
<1>7. ASSUME NEW d \in watch.listed, JudgeDeployment(d)
      PROVE  RolloutInvariant'
  <2>1. UNCHANGED <<green, trialStatus, runtimeFile, left, admin, table, rollout>>
    BY <1>7 DEF JudgeDeployment
  <2>2. watch' \in [step : {"idle", "judge"}, listed : SUBSET [trial : Trials, run : 1..MaxGreen]]
    BY <1>7 DEF JudgeDeployment, RolloutTyped
  <2>3. /\ deployments' \in Seq(Deployment)
        /\ crossed \subseteq crossed'
        /\ \A y : Active(y)' = Active(y) \/ y \in crossed'
        /\ ~unmeasured'
    <3>1. PICK judgement \in Judgements :
            IF judgement.drift
            THEN /\ RollBackRows(d.trial, d.run)
                 /\ crossed' = crossed \cup {d.trial}
                 /\ unmeasured' = (unmeasured \/ judgement.drop = {})
            ELSE UNCHANGED <<deployments, crossed, unmeasured>>
      BY <1>7 DEF JudgeDeployment
    <3>2. CASE judgement.drift
      <4>1. judgement.drop # {}
        BY <3>2, DriftIsMeasured
      <4>2. /\ deployments' \in Seq(Deployment)
            /\ \A y : y # d.trial => Active(y)' = Active(y)
        BY <3>1, <3>2, RowsOfOthers
      <4> QED
        BY <3>1, <3>2, <4>1, <4>2
    <3>3. CASE ~judgement.drift
      BY <3>1, <3>3 DEF RolloutTyped, Active
    <3> QED
      BY <3>2, <3>3
  <2>4. RolloutTyped'
    BY <2>1, <2>2, <2>3 DEF RolloutTyped
  <2>5. RequestsNamed' /\ CacheKept' /\ AssignPending'
    BY <2>1, <2>3 DEF RequestsNamed, CacheKept, AssignPending
  <2>6. FileKept'
    BY <2>1, <2>3 DEF FileKept
  <2>7. DeployPending'
    BY <2>1, <2>3 DEF DeployPending
  <2> QED
    BY <2>3, <2>4, <2>5, <2>6, <2>7
<1>8. CASE RestartApi
  <2>1. /\ rollout' = [c \in Customers |-> Nothing]
        /\ admin' = [a \in Admins |-> Free]
        /\ watch' = [step |-> "idle", listed |-> {}]
        /\ crossed' = crossed \cup {admin[a].trial : a \in {b \in Admins : admin[b].op = "rollback"}}
        /\ UNCHANGED <<green, deployments, trialStatus, runtimeFile, left, unmeasured, table>>
    BY <1>8 DEF RestartApi
  <2>2. Free \in AdminRequest /\ Free.step = "new"
    BY DEF Free, AdminRequest
  <2>3. RolloutTyped'
    BY <2>1, <2>2 DEF RolloutTyped
  <2>4. RequestsNamed' /\ DeployPending' /\ AssignPending' /\ CacheKept'
    BY <2>1, <2>2 DEF RequestsNamed, DeployPending, AssignPending, CacheKept
  <2>5. FileKept'
    BY <2>1 DEF FileKept, Active
  <2> QED
    BY <2>1, <2>3, <2>4, <2>5
<1>9. CASE UNCHANGED rolloutVars
  BY <1>9 DEF rolloutVars, RolloutTyped, RequestsNamed, FileKept, DeployPending, CacheKept,
              AssignPending, Active
<1> QED
  BY <1>1, <1>2, <1>3, <1>4, <1>5, <1>6, <1>7, <1>8, <1>9 DEF RolloutNext

\* The runtime file names an experiment that is deployed, or one whose rollback could not
\* remove it, an automatic rollback has a measured loss behind it, and a cached assignment
\* is the table's, however many administrators, experiments, tenants and runs there are
\* (admin_deploy_experiment, admin_rollback_experiment, rollback_watcher,
\* set_assignment_cache_entry).
THEOREM RolloutsAreTracked == RolloutSpec => []RolloutSafety
<1>1. RolloutInvariant => RolloutSafety
  <2> SUFFICES ASSUME RolloutInvariant PROVE RolloutSafety
    OBVIOUS
  <2> USE DEF RolloutInvariant
  <2>1. RolloutTypeOK
    <3>1. \A i \in DOMAIN deployments : deployments[i] \in Deployment
      BY DEF RolloutTyped
    <3> QED
      BY <3>1 DEF RolloutTypeOK, RolloutTyped, Deployment, Statuses
  <2>2. FileNamesDeployed
    BY DEF FileNamesDeployed, FileKept, Crossing
  <2>3. CacheFollowsTable
    BY DEF CacheFollowsTable, CacheKept
  <2> QED
    BY <2>1, <2>2, <2>3 DEF RolloutSafety, AutoRollbackMeasured
<1> QED
  BY <1>1, RolloutStarts, RolloutStep, PTL DEF RolloutSpec

----------------------------------------------------------------------------
(* Channels.                                                               *)

ChannelsTyped ==
    /\ mailbox \in Seq(Mails)
    /\ seen \subseteq ToSet(mailbox)
    /\ poller \in [step : {"asleep", "cycle", "process", "flag"}, todo : SUBSET Mails,
                   mail : Mails \cup {NoMail}]
    /\ answers \in [Mails \cup Letters -> Nat]
    /\ cut \subseteq Mails
    /\ post \in [Letters -> [step : {"new", "processing", "unacknowledged", "done"},
                             posts : Nat, acked : BOOLEAN]]
    /\ botLock \in Messages \cup {"free"}
    /\ chat \in [Messages -> [step : {"new", "lock", "building", "session", "refused", "answered"},
                              session : Messages \cup {"none"}]]
    /\ sessionOf \in Messages \cup {"none"}

\* The mail in hand, and the listed mails: none of these is seen yet.
PollerHolds ==
    /\ poller.todo \cap seen = {} /\ poller.todo \subseteq ToSet(mailbox)
    /\ poller.step \in {"process", "flag"} => poller.mail \in seen
    /\ poller.step \in {"asleep", "cycle"} => poller.mail = NoMail

\* What is not seen is not answered, what is in hand before its processing is not, and
\* after it is answered once.
AnswersSoFar ==
    /\ \A m \in Mails \ seen : answers[m] = 0
    /\ poller.step = "process" => answers[poller.mail] = 0
    /\ poller.step = "flag" => answers[poller.mail] = 1
    /\ \A m \in Mails : answers[m] <= 1
    /\ \A m \in seen : answers[m] > 0 \/ m \in cut \/ poller.mail = m

\* A letter in processing has been answered in its earlier deliveries at most.
LettersSoFar ==
    \A l \in Letters :
        /\ answers[l] <= post[l].posts
        /\ post[l].step = "processing" => answers[l] < post[l].posts
        /\ post[l].acked => answers[l] > 0

\* Every answered message was in the session of the chat.
ChatsSoFar ==
    \A m \in Messages : chat[m].step = "answered" =>
        sessionOf # "none" /\ chat[m].session = sessionOf

ChannelsInvariant ==
    ChannelsTyped /\ PollerHolds /\ AnswersSoFar /\ LettersSoFar /\ ChatsSoFar

LEMMA ChannelsStart == ChannelsInit => ChannelsInvariant
<1> SUFFICES ASSUME ChannelsInit PROVE ChannelsInvariant
  OBVIOUS
<1> USE ChannelsAssumption DEF ChannelsInit, ChannelsAssumption
<1>1. ChannelsTyped
  BY DEF ChannelsTyped, Asleep, ToSet
<1>2. PollerHolds
  BY DEF PollerHolds, Asleep
<1>3. AnswersSoFar /\ LettersSoFar /\ ChatsSoFar
  BY DEF AnswersSoFar, LettersSoFar, ChatsSoFar, Asleep
<1> QED
  BY <1>1, <1>2, <1>3 DEF ChannelsInvariant

\* One more answer is counted for one mail or letter only.
LEMMA OneMoreAnswer ==
    ASSUME ChannelsTyped, NEW m \in Mails \cup Letters, answers' = [answers EXCEPT ![m] = @ + 1]
    PROVE  /\ answers' \in [Mails \cup Letters -> Nat]
           /\ answers'[m] = answers[m] + 1
           /\ \A n \in (Mails \cup Letters) \ {m} : answers'[n] = answers[n]
BY DEF ChannelsTyped

LEMMA ChannelsStep == ChannelsInvariant /\ [ChannelsNext]_channelVars => ChannelsInvariant'
<1> SUFFICES ASSUME ChannelsInvariant, [ChannelsNext]_channelVars PROVE ChannelsInvariant'
  OBVIOUS
<1> USE DEF ChannelsInvariant
<1>0. ToSet(mailbox) \subseteq Mails
  BY DEF ChannelsTyped, ToSet
<1>1. ASSUME NEW m \in Mails, ArriveMail(m)
      PROVE  ChannelsInvariant'
  <2>1. /\ mailbox' = Append(mailbox, m)
        /\ UNCHANGED <<seen, poller, answers, cut, post, botVars>>
    BY <1>1 DEF ArriveMail
  <2>2. mailbox' \in Seq(Mails) /\ ToSet(mailbox) \subseteq ToSet(mailbox')
    <3>1. /\ mailbox' \in Seq(Mails)
          /\ Len(mailbox') = Len(mailbox) + 1
          /\ \A i \in 1..Len(mailbox) : mailbox'[i] = mailbox[i]
          /\ DOMAIN mailbox = 1..Len(mailbox) /\ DOMAIN mailbox' = 1..(Len(mailbox) + 1)
          /\ Len(mailbox) \in Nat
      BY <2>1, AppendProperties DEF ChannelsTyped
    <3>2. DOMAIN mailbox \subseteq DOMAIN mailbox'
      BY <3>1
    <3> QED
      BY <3>1, <3>2 DEF ToSet
  <2> QED
    BY <2>1, <2>2 DEF ChannelsTyped, PollerHolds, AnswersSoFar, LettersSoFar, ChatsSoFar, botVars
<1>2. CASE SearchUnseen
  <2>1. /\ poller.step = "asleep"
        /\ poller' = [step |-> "cycle", mail |-> NoMail, todo |-> ToSet(mailbox) \ seen]
        /\ UNCHANGED <<mailbox, seen, answers, cut, post, botVars>>
    BY <1>2 DEF SearchUnseen
  <2>2. ChannelsTyped'
    BY <1>0, <2>1 DEF ChannelsTyped, botVars
  <2>3. PollerHolds'
    BY <2>1 DEF PollerHolds
  <2>4. AnswersSoFar'
    BY <1>0, <2>1, ChannelsAssumption DEF AnswersSoFar, PollerHolds, ChannelsAssumption, ChannelsTyped
  <2> QED
    BY <2>1, <2>2, <2>3, <2>4 DEF LettersSoFar, ChatsSoFar, botVars
<1>3. CASE FetchMail
  <2>1. PICK i \in DOMAIN mailbox :
          /\ mailbox[i] \in poller.todo
          /\ seen' = SeenAfterFetch(mailbox[i])
          /\ poller' = [step |-> "process", mail |-> mailbox[i], todo |-> poller.todo \ {mailbox[i]}]
    BY <1>3 DEF FetchMail
  <2>2. poller.step = "cycle" /\ UNCHANGED <<mailbox, answers, cut, post, botVars>>
    BY <1>3 DEF FetchMail
  <2> DEFINE m == mailbox[i]
  <2>3. m \in Mails /\ m \in ToSet(mailbox) /\ m \notin seen /\ seen' = seen \cup {m}
    BY <1>0, <2>1 DEF ToSet, PollerHolds, SeenAfterFetch
  <2>4. /\ poller'.step = "process" /\ poller'.mail = m /\ poller'.todo = poller.todo \ {m}
    BY <2>1
  <2>5. poller' \in [step : {"asleep", "cycle", "process", "flag"}, todo : SUBSET Mails,
                     mail : Mails \cup {NoMail}]
    BY <2>1, <2>3 DEF ChannelsTyped
  <2> HIDE DEF m
  <2>6. ChannelsTyped'
    BY <2>2, <2>3, <2>5 DEF ChannelsTyped, botVars
  <2>7. PollerHolds'
    BY <2>2, <2>3, <2>4 DEF PollerHolds
  <2>8. AnswersSoFar'
    BY <1>0, <2>2, <2>3, <2>4, ChannelsAssumption
       DEF AnswersSoFar, PollerHolds, ChannelsAssumption, ChannelsTyped
  <2> QED
    BY <2>2, <2>6, <2>7, <2>8 DEF LettersSoFar, ChatsSoFar, botVars
<1>4. CASE ProcessMail
  <2> DEFINE m == poller.mail
  <2>1. /\ poller.step = "process"
        /\ answers' = [answers EXCEPT ![m] = @ + 1]
        /\ poller' = [poller EXCEPT !.step = "flag"]
        /\ UNCHANGED <<mailbox, seen, cut, post, botVars>>
    BY <1>4 DEF ProcessMail, Answered
  <2>2. m \in seen /\ m \in Mails /\ m \notin Letters
    BY <1>0, <2>1, ChannelsAssumption DEF PollerHolds, ChannelsTyped, ChannelsAssumption
  <2>3. /\ answers' \in [Mails \cup Letters -> Nat]
        /\ answers'[m] = answers[m] + 1
        /\ \A n \in (Mails \cup Letters) \ {m} : answers'[n] = answers[n]
    BY <2>1, <2>2, OneMoreAnswer
  <2>4. /\ poller'.step = "flag" /\ poller'.mail = m /\ poller'.todo = poller.todo
        /\ poller' \in [step : {"asleep", "cycle", "process", "flag"}, todo : SUBSET Mails,
                        mail : Mails \cup {NoMail}]
    BY <2>1 DEF ChannelsTyped
  <2>5. answers[m] = 0
    BY <2>1 DEF AnswersSoFar
  <2> HIDE DEF m
  <2>6. ChannelsTyped'
    BY <2>1, <2>3, <2>4 DEF ChannelsTyped, botVars
  <2>7. PollerHolds'
    BY <2>1, <2>2, <2>4 DEF PollerHolds
  <2>8. AnswersSoFar'
    <3>1. answers'[m] = 1
      BY <2>3, <2>5
    <3>2. \A n \in seen : n \in Mails
      BY <1>0 DEF ChannelsTyped
    <3>3. \A n \in seen' : answers'[n] > 0 \/ n \in cut' \/ poller'.mail = n
      BY <2>1, <2>3, <2>4, <3>2 DEF AnswersSoFar, m
    <3> QED
      BY <2>1, <2>2, <2>3, <2>4, <3>1, <3>3 DEF AnswersSoFar
  <2>9. LettersSoFar'
    BY <2>1, <2>2, <2>3 DEF LettersSoFar
  <2> QED
    BY <2>1, <2>6, <2>7, <2>8, <2>9 DEF ChatsSoFar, botVars
<1>5. CASE ProcessingFails
  <2> DEFINE m == poller.mail
  <2>1. /\ poller.step = "process"
        /\ UNCHANGED answers \/ answers' = [answers EXCEPT ![m] = @ + 1]
        /\ cut' = cut \cup {m}
        /\ poller' = Asleep
        /\ UNCHANGED <<mailbox, seen, post, botVars>>
    BY <1>5 DEF ProcessingFails
  <2>2. m \in seen /\ m \in Mails /\ m \notin Letters
    BY <1>0, <2>1, ChannelsAssumption DEF PollerHolds, ChannelsTyped, ChannelsAssumption
  <2>3. answers[m] = 0
    BY <2>1 DEF AnswersSoFar
  <2>4. /\ answers' \in [Mails \cup Letters -> Nat]
        /\ answers'[m] \in {0, 1}
        /\ \A n \in (Mails \cup Letters) \ {m} : answers'[n] = answers[n]
    <3>1. CASE UNCHANGED answers
      BY <2>3, <3>1 DEF ChannelsTyped
    <3>2. CASE answers' = [answers EXCEPT ![m] = @ + 1]
      <4>1. m \in Mails \cup Letters
        BY <2>2
      <4> HIDE DEF m
      <4>2. /\ answers' \in [Mails \cup Letters -> Nat]
            /\ answers'[m] = answers[m] + 1
            /\ \A n \in (Mails \cup Letters) \ {m} : answers'[n] = answers[n]
        BY <3>2, <4>1, OneMoreAnswer
      <4> QED
        BY <2>3, <4>2
    <3> QED
      BY <2>1, <3>1, <3>2
  <2>5. poller'.step = "asleep" /\ poller'.mail = NoMail /\ poller'.todo = {}
    BY <2>1 DEF Asleep
  <2> HIDE DEF m
  <2>6. ChannelsTyped'
    BY <2>1, <2>2, <2>4 DEF ChannelsTyped, botVars, Asleep
  <2>7. PollerHolds'
    BY <2>5 DEF PollerHolds
  <2>8. AnswersSoFar'
    <3>1. \A n \in seen : n \in Mails
      BY <1>0 DEF ChannelsTyped
    <3>2. \A n \in seen' : answers'[n] > 0 \/ n \in cut' \/ poller'.mail = n
      BY <2>1, <2>4, <3>1 DEF AnswersSoFar, m
    <3> QED
      BY <2>1, <2>2, <2>4, <2>5, <3>2 DEF AnswersSoFar
  <2>9. LettersSoFar'
    BY <2>1, <2>2, <2>4 DEF LettersSoFar
  <2> QED
    BY <2>1, <2>6, <2>7, <2>8, <2>9 DEF ChatsSoFar, botVars
<1>6. CASE FlagMail
  <2>1. /\ poller.step = "flag"
        /\ seen' = seen \cup {poller.mail}
        /\ poller' = [poller EXCEPT !.step = "cycle", !.mail = NoMail]
        /\ UNCHANGED <<mailbox, answers, cut, post, botVars>>
    BY <1>6 DEF FlagMail
  <2>2. seen' = seen /\ poller.mail \in seen
    BY <2>1 DEF PollerHolds
  <2>3. /\ poller'.step = "cycle" /\ poller'.mail = NoMail /\ poller'.todo = poller.todo
        /\ poller' \in [step : {"asleep", "cycle", "process", "flag"}, todo : SUBSET Mails,
                        mail : Mails \cup {NoMail}]
    BY <2>1 DEF ChannelsTyped
  <2>4. ChannelsTyped'
    BY <2>1, <2>2, <2>3 DEF ChannelsTyped, botVars
  <2>5. PollerHolds'
    BY <2>1, <2>2, <2>3 DEF PollerHolds
  <2>6. AnswersSoFar'
    BY <2>1, <2>2, <2>3 DEF AnswersSoFar
  <2> QED
    BY <2>1, <2>4, <2>5, <2>6 DEF LettersSoFar, ChatsSoFar, botVars
<1>7. CASE EndCycle
  <2>1. /\ poller.step \in {"cycle", "flag"}
        /\ poller' = Asleep
        /\ UNCHANGED <<mailbox, seen, answers, cut, post, botVars>>
    BY <1>7 DEF EndCycle
  <2>2. poller'.step = "asleep" /\ poller'.mail = NoMail /\ poller'.todo = {}
    BY <2>1 DEF Asleep
  <2>3. ChannelsTyped'
    BY <2>1 DEF ChannelsTyped, botVars, Asleep
  <2>4. AnswersSoFar'
    <3>1. \A n \in seen : n \in Mails
      BY <1>0 DEF ChannelsTyped
    <3>2. poller.step = "cycle" => poller.mail = NoMail
      BY DEF PollerHolds
    <3>3. \A n \in seen : answers[n] > 0 \/ n \in cut
      BY <2>1, <3>1, <3>2, ChannelsAssumption DEF AnswersSoFar, ChannelsAssumption
    <3> QED
      BY <2>1, <2>2, <3>3 DEF AnswersSoFar
  <2> QED
    BY <2>1, <2>2, <2>3, <2>4 DEF PollerHolds, LettersSoFar, ChatsSoFar, botVars
<1>8. ASSUME NEW l \in Letters, LetterStep(l)
      PROVE  ChannelsInvariant'
  <2> DEFINE Posts == [step : {"new", "processing", "unacknowledged", "done"},
                       posts : Nat, acked : BOOLEAN]
  <2>1. /\ post \in [Letters -> Posts] /\ post[l] \in Posts /\ answers[l] \in Nat
        /\ l \notin Mails /\ UNCHANGED <<mailVars, botVars>>
    BY <1>8, ChannelsAssumption DEF ChannelsTyped, LetterStep, PostLetter, ProcessLetter,
                LetterUnacknowledged, ChannelsAssumption
  <2>2. PICK v \in Posts :
          /\ post' = [post EXCEPT ![l] = v]
          /\ \/ answers' = answers
             \/ /\ answers' = [answers EXCEPT ![l] = @ + 1]
                /\ post[l].step = "processing" /\ v.step # "processing"
          /\ \/ /\ v.step = "processing" /\ v.posts = post[l].posts + 1 /\ answers' = answers
             \/ v.step # "processing" /\ v.posts = post[l].posts
          /\ v.acked => post[l].acked \/ answers' = [answers EXCEPT ![l] = @ + 1]
    <3>1. CASE PostLetter(l)
      <4> DEFINE w == [post[l] EXCEPT !.step = "processing", !.posts = post[l].posts + 1]
      <4>1. w \in Posts /\ w.step = "processing" /\ w.posts = post[l].posts + 1
            /\ w.acked = post[l].acked
        <5>1. post[l].posts + 1 \in Nat
          BY <2>1
        <5> QED
          BY <2>1, <5>1
      <4>2. post' = [post EXCEPT ![l] = w] /\ answers' = answers
        BY <2>1, <3>1 DEF PostLetter
      <4> HIDE DEF w, Posts
      <4> QED
        BY <4>1, <4>2
    <3>2. CASE ProcessLetter(l)
      <4> DEFINE w == [post[l] EXCEPT !.step = "done", !.acked = TRUE]
      <4>1. w \in Posts /\ w.step = "done" /\ w.posts = post[l].posts
        BY <2>1
      <4>2. post' = [post EXCEPT ![l] = w] /\ answers' = [answers EXCEPT ![l] = @ + 1]
            /\ post[l].step = "processing"
        BY <2>1, <3>2 DEF ProcessLetter, Answered
      <4> HIDE DEF w, Posts
      <4> QED
        BY <4>1, <4>2
    <3>3. CASE LetterUnacknowledged(l)
      <4> DEFINE w == [post[l] EXCEPT !.step = "unacknowledged"]
      <4>1. w \in Posts /\ w.step = "unacknowledged" /\ w.posts = post[l].posts
            /\ w.acked = post[l].acked
        BY <2>1
      <4>2. /\ post' = [post EXCEPT ![l] = w] /\ post[l].step = "processing"
            /\ answers' = answers \/ answers' = [answers EXCEPT ![l] = @ + 1]
        BY <2>1, <3>3 DEF LetterUnacknowledged, Answered
      <4> HIDE DEF w, Posts
      <4> QED
        BY <4>1, <4>2
    <3> QED
      BY <1>8, <3>1, <3>2, <3>3 DEF LetterStep
  <2>3. /\ post' \in [Letters -> Posts] /\ post'[l] = v
        /\ \A k \in Letters \ {l} : post'[k] = post[k]
    BY <2>1, <2>2
  <2>4. /\ answers' \in [Mails \cup Letters -> Nat]
        /\ \A n \in (Mails \cup Letters) \ {l} : answers'[n] = answers[n]
        /\ answers' = [answers EXCEPT ![l] = @ + 1] => answers'[l] = answers[l] + 1
    <3>1. CASE answers' = [answers EXCEPT ![l] = @ + 1]
      BY <3>1, OneMoreAnswer
    <3>2. CASE answers' = answers
      BY <3>2 DEF ChannelsTyped
    <3> QED
      BY <2>2, <3>1, <3>2
  <2>5. ChannelsTyped'
    BY <2>1, <2>3, <2>4 DEF ChannelsTyped, mailVars, botVars
  <2>6. \A n \in Mails : answers'[n] = answers[n]
    BY <2>1, <2>4
  <2>7. AnswersSoFar'
    <3>1. \A n \in seen : n \in Mails
      BY <1>0 DEF ChannelsTyped
    <3>2. poller.step \in {"process", "flag"} => poller.mail \in Mails
      BY <3>1 DEF PollerHolds
    <3> QED
      BY <2>1, <2>6, <3>1, <3>2 DEF AnswersSoFar, mailVars
  <2>8. LettersSoFar'
    <3>1. /\ answers[l] <= post[l].posts
          /\ post[l].step = "processing" => answers[l] < post[l].posts
          /\ post[l].acked => answers[l] > 0
      BY DEF LettersSoFar
    <3>2. v.posts \in Nat /\ post[l].posts \in Nat
      BY <2>1, <2>2
    <3> HIDE DEF Posts
    <3>3. /\ answers'[l] <= v.posts
          /\ v.step = "processing" => answers'[l] < v.posts
          /\ v.acked => answers'[l] > 0
      <4>1. CASE answers' = answers
        <5>1. answers'[l] = answers[l]
          BY <4>1
        <5>2. v.acked => post[l].acked
          BY <2>1, <2>2, <2>4, <5>1
        <5> QED
          BY <2>1, <2>2, <3>1, <3>2, <5>1, <5>2
      <4>2. CASE answers' # answers
        <5>1. /\ answers'[l] = answers[l] + 1 /\ post[l].step = "processing"
              /\ v.step # "processing" /\ v.posts = post[l].posts
          BY <2>2, <2>4, <4>2
        <5> QED
          BY <2>1, <3>1, <3>2, <5>1
      <4> QED
        BY <4>1, <4>2
    <3> QED
      BY <2>3, <2>4, <3>3 DEF LettersSoFar
  <2> QED
    BY <2>1, <2>5, <2>7, <2>8 DEF PollerHolds, ChatsSoFar, mailVars, botVars
<1>9. ASSUME NEW m \in Messages, ChatStep(m)
      PROVE  ChannelsInvariant'
  <2> DEFINE Chats == [step : {"new", "lock", "building", "session", "refused", "answered"},
                       session : Messages \cup {"none"}]
  <2>1. /\ UNCHANGED <<mailVars, answers, post>>
        /\ chat \in [Messages -> Chats] /\ chat[m] \in Chats
    BY <1>9 DEF ChatStep, MessageComes, TakeLock, BuildPipeline, BuildFails, AskInChat, ChannelsTyped
  <2>2. CASE AskInChat(m)
    <3>1. /\ sessionOf' = SessionFor(m)
          /\ chat' = [chat EXCEPT ![m] = [step |-> "answered", session |-> SessionFor(m)]]
          /\ UNCHANGED botLock
      BY <2>2 DEF AskInChat
    <3>2. /\ SessionFor(m) \in Messages /\ SessionFor(m) # "none"
          /\ sessionOf # "none" => SessionFor(m) = sessionOf
      BY ChannelsAssumption DEF SessionFor, ChannelsTyped, ChannelsAssumption
    <3>3. ChannelsTyped'
      BY <2>1, <3>1, <3>2 DEF ChannelsTyped, mailVars
    <3>4. ChatsSoFar'
      BY <2>1, <3>1, <3>2 DEF ChatsSoFar
    <3> QED
      BY <2>1, <3>3, <3>4 DEF PollerHolds, AnswersSoFar, LettersSoFar, mailVars
  <2>3. CASE ~AskInChat(m)
    <3>1. PICK s \in {"lock", "building", "session", "refused"} :
            chat' = [chat EXCEPT ![m] = [chat[m] EXCEPT !.step = s]]
      <4>1. CASE MessageComes(m)
        BY <2>1, <4>1 DEF MessageComes
      <4>2. CASE TakeLock(m) \/ BuildPipeline(m) \/ BuildFails(m)
        BY <2>1, <4>2 DEF TakeLock, BuildPipeline, BuildFails
      <4> QED
        BY <1>9, <2>3, <4>1, <4>2 DEF ChatStep
    <3>2. sessionOf' = sessionOf /\ botLock' \in Messages \cup {"free"}
      BY <1>9, <2>3 DEF ChatStep, MessageComes, TakeLock, BuildPipeline, BuildFails, ChannelsTyped
    <3>3. [chat[m] EXCEPT !.step = s] \in Chats /\ [chat[m] EXCEPT !.step = s].step = s
      BY <2>1
    <3>4. /\ chat' \in [Messages -> Chats] /\ chat'[m].step # "answered"
          /\ \A n \in Messages \ {m} : chat'[n] = chat[n]
      BY <2>1, <3>1, <3>3
    <3>5. ChannelsTyped'
      BY <2>1, <3>2, <3>4 DEF ChannelsTyped, mailVars
    <3>6. ChatsSoFar'
      BY <3>2, <3>4 DEF ChatsSoFar
    <3> QED
      BY <2>1, <3>5, <3>6 DEF PollerHolds, AnswersSoFar, LettersSoFar, mailVars
  <2> QED
    BY <2>2, <2>3
<1>10. CASE UNCHANGED channelVars
  BY <1>10 DEF channelVars, ChannelsTyped, PollerHolds, AnswersSoFar, LettersSoFar, ChatsSoFar
<1> QED
  BY <1>1, <1>2, <1>3, <1>4, <1>5, <1>6, <1>7, <1>8, <1>9, <1>10 DEF ChannelsNext, PollerStep

\* For any mails, letters, deliveries and messages: what is taken out of the next search is
\* answered unless its processing failed, nothing is answered more often than it came, and a
\* chat has one session (poll_once, email_inbound_webhook, _get_session).
THEOREM MailIsAnsweredOnce == ChannelsSpec => []ChannelsSafety
<1>1. ChannelsInvariant => ChannelsSafety
  <2> SUFFICES ASSUME ChannelsInvariant PROVE ChannelsSafety
    OBVIOUS
  <2> USE DEF ChannelsInvariant
  <2>1. ChannelsTypeOK
    BY DEF ChannelsTypeOK, ChannelsTyped, ToSet
  <2>2. TakenIsAnswered /\ AnsweredOnce /\ AcknowledgedIsAnswered /\ OneSessionPerChat
    BY DEF TakenIsAnswered, AnsweredOnce, AcknowledgedIsAnswered, OneSessionPerChat,
           AnswersSoFar, LettersSoFar, ChatsSoFar
  <2> QED
    BY <2>1, <2>2 DEF ChannelsSafety
<1> QED
  BY <1>1, ChannelsStart, ChannelsStep, PTL DEF ChannelsSpec

=============================================================================
