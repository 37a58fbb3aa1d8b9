----------------------------- MODULE MCReleases -----------------------------
(***************************************************************************)
(* Instances for TLC of what a release goes through: the graph that        *)
(* answers requests, the regression runs that compare its variants, the    *)
(* experiments rolled out and rolled back, and the snapshots taken of the  *)
(* running system.  They share no state in these models, so a behaviour of *)
(* this module is a behaviour of one of them, chosen by the initial state; *)
(* the others rest.                                                        *)
(***************************************************************************)
EXTENDS SupportGraph, RegressionRuns, ExperimentRollout, Backup

VARIABLE part  \* the component that runs

Some(S) == CHOOSE x \in S : TRUE

\* One regression run is of the staged experiment, the others are of another one.
RegressionStarts ==
    \A j \in Regressions : regression[j].candidate = Staged <=> j = Some(Regressions)

\* Runs that overlap do so without requests of users, and all but one of them pass every
\* case; with requests of users there is a single run.
RunsOverlap ==
    /\ \A t \in Requests : getting'[t].at = "out"
    /\ \A j \in Regressions \ {Some(Regressions)} :
          regression'[j].first = "passed" /\ regression'[j].tally.candidate = regression'[j].tally.cases

OneRuns == \A j \in Regressions \ {Some(Regressions)} : regression'[j].step = "queued"

\* The one initial state in which a component with several of them rests.
RegressionRests == \A j \in Regressions : regression[j].candidate = Staged

ReleasesInit ==
    /\ part \in {"graph", "runs", "requests", "rollout", "backup"}
    /\ Init
    /\ RegressionInit
    /\ part = "runs" => RegressionStarts
    /\ part \notin {"runs", "requests"} => RegressionRests
    /\ RolloutInit
    /\ BackupInit

\* Every component but the one that runs rests.
OthersRest ==
    /\ UNCHANGED part
    /\ part # "graph" => UNCHANGED vars
    /\ part \notin {"runs", "requests"} => UNCHANGED regressionVars
    /\ part # "rollout" => UNCHANGED rolloutVars
    /\ part # "backup" => UNCHANGED backupVars

ReleasesNext ==
    \/ part = "graph" /\ Next /\ OthersRest
    \/ part = "runs" /\ RegressionNext /\ RunsOverlap /\ OthersRest
    \/ part = "requests" /\ RegressionNext /\ OneRuns /\ OthersRest
    \/ part = "rollout" /\ RolloutNext /\ OthersRest
    \/ part = "backup" /\ BackupNext /\ OthersRest

releasesVars == <<part, vars, regressionVars, rolloutVars, backupVars>>

\* The graph runs on; nothing is assumed of the others.
ReleasesSpec ==
    /\ ReleasesInit /\ [][ReleasesNext]_releasesVars
    /\ WF_vars(part = "graph" /\ Next /\ OthersRest)

\* Whatever fails and is tried again, the request that the graph has begun ends
\* (RequestEnds of SupportGraph, for the behaviours in which the graph runs).
GraphRequestEnds == part = "graph" => RequestEnds
=============================================================================
