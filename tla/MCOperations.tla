----------------------------- MODULE MCOperations -----------------------------
(***************************************************************************)
(* Instances for TLC of the components that operators and schedulers run   *)
(* beside the questions: synchronous and asynchronous ingestion, the       *)
(* escalations and their outbox, the review queue, stored uploads, the     *)
(* knowledge base, calibration and tuning.  They share no state in these   *)
(* models, so a behaviour of this module is a behaviour of one of them,    *)
(* chosen by the initial state; the others rest.                           *)
(***************************************************************************)
EXTENDS MCIngestionJobs, Escalation, ReviewQueue, JobObjects, KnowledgeBase,
        RoutingCalibration, ThresholdTuning

VARIABLE part  \* the component that runs

Some(S) == CHOOSE x \in S : TRUE

\* A worker's clock may be behind the reaper's, within the room lease and heartbeat leave,
\* or ahead of it.
HostClocks == {-1, 1}

SettingsFloors == [quality |-> 1, rest |-> 1]

\* The one initial state in which a component with several of them rests.
JobsRest == \A j \in Jobs : req[j] = Some(Requests)
EscalationRests == \A e \in Escalators : escalator[e].key = Some(Keys)
CalibrationRests == calibration.file = "absent"
TuningRests == traces = <<>> /\ asked = Some(Asked)

OperationsInit ==
    /\ part \in {"jobs", "escalation", "review", "objects", "drafts", "gaps",
                 "calibration", "tuning"}
    /\ Init /\ (part = "jobs" \/ JobsRest)
    /\ EscalationInit /\ (part = "escalation" \/ EscalationRests)
    /\ ReviewInit
    /\ ObjectsInit
    /\ KbInit /\ (part = "gaps" \/ similar = {}) /\ (part = "drafts" \/ chroma)
    /\ CalibrationInit /\ (part = "calibration" \/ CalibrationRests)
    /\ TuningInit /\ (part = "tuning" \/ TuningRests)

\* Every component but the one that runs rests.
OthersRest ==
    /\ UNCHANGED part
    /\ part # "jobs" => UNCHANGED vars
    /\ part # "escalation" => UNCHANGED escalationVars
    /\ part # "review" => UNCHANGED reviewVars
    /\ part # "objects" => UNCHANGED objectVars
    /\ part \notin {"drafts", "gaps"} => UNCHANGED kbVars
    /\ part # "calibration" => UNCHANGED calibrationVars
    /\ part # "tuning" => UNCHANGED tuningVars

OperationsNext ==
    \/ part = "jobs" /\ Next /\ OthersRest
    \/ part = "escalation" /\ EscalationNext /\ OthersRest
    \/ part = "review" /\ ReviewNext /\ OthersRest
    \/ part = "objects" /\ ObjectsNext /\ OthersRest
    \/ part = "drafts" /\ DraftStep /\ OthersRest
    \/ part = "gaps" /\ GapStep /\ OthersRest
    \/ part = "calibration" /\ CalibrationNext /\ OthersRest
    \/ part = "tuning" /\ TuningNext /\ OthersRest

operationsVars ==
    <<part, vars, escalationVars, reviewVars, objectVars, kbVars, calibrationVars, tuningVars>>

OperationsSpec == OperationsInit /\ [][OperationsNext]_operationsVars
=============================================================================
