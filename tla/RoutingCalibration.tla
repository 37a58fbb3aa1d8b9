------------------------- MODULE RoutingCalibration -------------------------
(***************************************************************************)
(* The floors an answer must reach to be sent without a person, and the    *)
(* file that calibrates them.  An operator reissues the artifact from      *)
(* labelled routes; it may claim to be human-labelled only when two        *)
(* annotators agree well enough.  A request resolves the floors from the   *)
(* artifact (or from the settings) and runs in a compiled graph that keeps *)
(* the floors it was built with; compiled graphs are cached.               *)
(*                                                                         *)
(* agent/calibration.py, scripts/recalibrate_routing.py, agent/graph.py    *)
(* (build_support_graph and its cache).                                    *)
(***************************************************************************)
EXTENDS Integers, FiniteSets

CONSTANTS
    Askers,            \* requests that resolve the floors
    MaxRetrievers,     \* retriever objects of the process
    MaxReissues,       \* runs of recalibrate_routing
    MaxRows,           \* double-labelled rows of a label file
    MinItems,          \* min_items; this and the three below are options of the script,
    MinDouble,         \* min_double_labelled, that it takes as they are typed
    MinRawPercent,     \* min_raw_agreement
    MinKappaPercent,   \* min_kappa
    Levels,            \* levels of a floor
    DefaultFloors      \* the floors of the settings

Floors == [quality : Levels, rest : Levels]

ASSUME RoutingCalibrationAssumption ==
    /\ {MaxRetrievers, MaxReissues, MaxRows} \subseteq Nat \ {0}
    /\ {MinItems, MinDouble, MinRawPercent, MinKappaPercent} \subseteq Int
    /\ DefaultFloors \in Floors

NoFloors == [quality |-> 0, rest |-> 0]
Lowest == CHOOSE q \in Levels : \A x \in Levels : q <= x
GraphKeys == (1 .. MaxRetrievers) \X Levels

VARIABLES
    calibration,  \* the artifact: state of the file, source it claims, floors, and
                  \* (history) whether its labels earn a claim of human labels
    reissue,      \* the operator's script: step, runs, what it is about to write
    graphs,       \* _GRAPH_CACHE: the floors of the graph compiled for a key, or NoFloors
    retriever,    \* the retriever object of the process
    asker         \* requests: step, floors resolved, retriever
                  \* they compile for, floors of the graph they run in

NewAsker == [step |-> "new", resolved |-> NoFloors, runs |-> NoFloors, retriever |-> 1]

calibrationVars == <<calibration, reissue, graphs, retriever, asker>>

----------------------------------------------------------------------------
(* Readiness of a label file *)

\* Human rows by the labels of the two annotators, and one more row that is
\* not a complete human one (or none).
Blemishes == {"none", "synthetic", "unknown", "anonymous", "no gold", "one label"}
LabelFiles ==
    {l \in [aa : 0 .. MaxRows, ah : 0 .. MaxRows, ha : 0 .. MaxRows, hh : 0 .. MaxRows,
            blemish : Blemishes] : l.aa + l.ah + l.ha + l.hh <= MaxRows}

Double(l) == l.aa + l.ah + l.ha + l.hh
Agreed(l) == l.aa + l.hh

\* n^2 p_e, the agreement expected by chance.
Chance(l) == (l.aa + l.ah) * (l.aa + l.ha) + (l.hh + l.ha) * (l.hh + l.ah)

\* (raw - p_e) / (1 - p_e) >= min_kappa; the quotient is 1 or 0 when p_e = 1.
KappaReaches(l) ==
    LET n == Double(l) IN
    IF Chance(l) = n * n
    THEN (IF Agreed(l) = n THEN 100 ELSE 0) >= MinKappaPercent
    ELSE 100 * n * Agreed(l) >= MinKappaPercent * (n * n - Chance(l)) + 100 * Chance(l)

\* A row that lacks a label is not double-labelled; every other blemish is a
\* reason of its own.  Without a double-labelled row there is no agreement.
Ready(l) ==
    LET items == Double(l) + (IF l.blemish = "none" THEN 0 ELSE 1) IN
    /\ items >= MinItems /\ Double(l) >= MinDouble /\ Double(l) > 0
    /\ l.blemish \in {"none", "one label"}
    /\ Agreed(l) * 100 >= MinRawPercent * Double(l)
    /\ KappaReaches(l)

\* What a claim of human labels should mean (history, for the properties): two
\* annotators labelled, every row is a human one with names and a gold route, and
\* unless the operator gave up asking for it the annotators agree more often than
\* chance would have them agree, or gave every row the same label.
Earned(l) ==
    /\ Double(l) > 0
    /\ l.blemish \in {"none", "one label"}
    /\ MinKappaPercent > 0 => l.aa * l.hh > l.ah * l.ha \/ Double(l) \in {l.aa, l.hh}

\* What the label files give, as far as a reissue can tell them apart.
Assessments == {[ready |-> Ready(l), earned |-> Earned(l)] : l \in LabelFiles}

----------------------------------------------------------------------------
(* recalibrate_routing *)

CalibrationInit ==
    /\ calibration \in {[file |-> "absent", source |-> "none", floors |-> NoFloors, earned |-> FALSE],
                        [file |-> "whole", source |-> "synthetic", floors |-> DefaultFloors,
                         earned |-> FALSE]}
    /\ reissue = [step |-> "idle", runs |-> 0, source |-> "none", floors |-> NoFloors, earned |-> FALSE]
    /\ graphs = [k \in GraphKeys |-> NoFloors]
    /\ retriever = 1
    /\ asker = [a \in Askers |-> NewAsker]

\* The sources a reissue may write: a claim of human labels needs a ready
\* file; --require-human only refuses more.
Sources(v) == {"synthetic", "operator"} \cup {s \in {"human"} : v.ready}

\* Assess the labels, build the artifact, and open the file for writing: the
\* write truncates it.  Refusals and dry runs leave the file alone.
Reissue(v, f) ==
    /\ reissue.step = "idle" /\ reissue.runs < MaxReissues
    /\ \E s \in Sources(v) :
         reissue' = [step |-> "write", runs |-> reissue.runs + 1, source |-> s, floors |-> f, earned |-> v.earned]
    /\ calibration' = [calibration EXCEPT !.file = "torn"]
    /\ UNCHANGED <<graphs, retriever, asker>>

\* write_calibration_artifact returns.
ArtifactWritten ==
    /\ reissue.step = "write"
    /\ calibration' = [file |-> "whole", source |-> reissue.source, floors |-> reissue.floors,
                       earned |-> reissue.earned]
    /\ reissue' = [reissue EXCEPT !.step = "idle", !.source = "none", !.floors = NoFloors, !.earned = FALSE]
    /\ UNCHANGED <<graphs, retriever, asker>>

\* The script dies with the file truncated or half written.
ReissueDies ==
    /\ reissue.step = "write"
    /\ reissue' = [reissue EXCEPT !.step = "idle", !.source = "none", !.floors = NoFloors, !.earned = FALSE]
    /\ UNCHANGED <<calibration, graphs, retriever, asker>>

----------------------------------------------------------------------------
(* build_support_graph *)

\* resolve_routing_thresholds as build_support_graph uses it.  An artifact that
\* cannot be loaded gives the floors of the settings; where the artifact is
\* required it raises, and build_support_graph catches that and takes the floors
\* of the settings itself.
Usable == calibration.file = "whole"
Resolved == IF Usable THEN calibration.floors ELSE DefaultFloors

ResolveThresholds(a) ==
    /\ asker[a].step = "new"
    /\ asker' = [asker EXCEPT ![a].step = "graph", ![a].resolved = Resolved]
    /\ UNCHANGED <<calibration, reissue, graphs, retriever>>

\* Mutant: the key lacks the quality floor.
GraphKey_NoFloor(r, f) == <<r, Lowest>>

\* graph_cache_key: the retriever (the models stay the same) and the quality
\* floor, not the two other floors.
GraphKey(r, f) == <<r, f.quality>>

\* The cached graph, if its key is there.
GraphHit(a) ==
    /\ asker[a].step = "graph"
    /\ LET g == graphs[GraphKey(retriever, asker[a].resolved)] IN
         /\ g # NoFloors
         /\ asker' = [asker EXCEPT ![a].step = "run", ![a].runs = g]
    /\ UNCHANGED <<calibration, reissue, graphs, retriever>>

\* Otherwise the graph is compiled outside the lock, with the retriever of the
\* request, ...
GraphMiss(a) ==
    /\ asker[a].step = "graph"
    /\ graphs[GraphKey(retriever, asker[a].resolved)] = NoFloors
    /\ asker' = [asker EXCEPT ![a].step = "compile", ![a].retriever = retriever]
    /\ UNCHANGED <<calibration, reissue, graphs, retriever>>

\* ... and stored over what another request stored meanwhile.
StoreGraph(a) ==
    /\ asker[a].step = "compile"
    /\ graphs' = [graphs EXCEPT ![GraphKey(asker[a].retriever, asker[a].resolved)] = asker[a].resolved]
    /\ asker' = [asker EXCEPT ![a].step = "run", ![a].runs = asker[a].resolved]
    /\ UNCHANGED <<calibration, reissue, retriever>>

\* route_or_retry has compared the scores with the floors.
AskerEnds(a) ==
    /\ asker[a].step = "run"
    /\ asker' = [asker EXCEPT ![a] = NewAsker]
    /\ UNCHANGED <<calibration, reissue, graphs, retriever>>

\* Another retriever object (the index changed): its graphs have other keys.
NewRetriever ==
    /\ retriever < MaxRetrievers
    /\ retriever' = retriever + 1
    /\ UNCHANGED <<calibration, reissue, graphs, asker>>

CalibrationNext ==
    \/ \E v \in Assessments, f \in Floors : Reissue(v, f)
    \/ ArtifactWritten \/ ReissueDies \/ NewRetriever
    \/ \E a \in Askers : ResolveThresholds(a) \/ GraphHit(a) \/ GraphMiss(a) \/ StoreGraph(a)
                           \/ AskerEnds(a)

CalibrationSpec == CalibrationInit /\ [][CalibrationNext]_calibrationVars

----------------------------------------------------------------------------
(* Properties *)

CalibrationTypeOK ==
    /\ calibration.file \in {"absent", "torn", "whole"}
    /\ {calibration.source, reissue.source} \subseteq {"none", "human", "synthetic", "operator"}
    /\ {calibration.floors, reissue.floors} \subseteq Floors \cup {NoFloors}
    /\ {calibration.earned, reissue.earned} \subseteq BOOLEAN
    /\ reissue.step \in {"idle", "write"} /\ reissue.runs \in 0 .. MaxReissues
    /\ graphs \in [GraphKeys -> Floors \cup {NoFloors}]
    /\ retriever \in 1 .. MaxRetrievers
    /\ asker \in [Askers -> [step : {"new", "graph", "compile", "run"},
                             resolved : Floors \cup {NoFloors}, runs : Floors \cup {NoFloors},
                             retriever : 1 .. MaxRetrievers]]

\* An artifact that claims human labels rests on annotators who agree more
\* often than chance would have them agree, or who gave every row the same
\* label, whatever other thresholds the operator typed (a kappa of 0 or less
\* asks for no agreement); synthetic, anonymous and unfinished rows do not pass
\* for theirs, and no rows at all are no labels
\* (assess_human_calibration_readiness and the refusals of
\* reissue_calibration_from_labels).
HumanClaimIsEarned ==
    calibration.source = "human" => calibration.earned

\* Whatever graph the cache returns, the quality floor a request is held to is
\* the one resolved for it, across reissues, torn files and new retrievers
\* (graph_cache_key of build_support_graph).
QualityFloorInForce ==
    \A a \in Askers : asker[a].step = "run" => asker[a].runs.quality = asker[a].resolved.quality

\* An artifact earns what it claims, and a request is held to the quality floor resolved
\* for it (reissue_calibration_from_labels, build_support_graph).
CalibrationSafety ==
    /\ CalibrationTypeOK
    /\ HumanClaimIsEarned
    /\ QualityFloorInForce
=============================================================================
