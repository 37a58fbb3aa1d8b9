------------------------- MODULE ExperimentRollout -------------------------
(***************************************************************************)
(* Deployment of experiments.  A deployment is a row in the database, a    *)
(* status in the experiment's YAML file and a runtime file, written one    *)
(* after the other by requests that interleave at the await of the commit. *)
(* A watcher rolls a deployment back when its scores fell.  A tenant's     *)
(* assignment is a row and an entry of a cache of the process.             *)
(*                                                                         *)
(* api/routers/admin_experiments.py, evaluation/rollback_watcher.py,       *)
(* evaluation/online_evaluators.py, agent/prompt_registry.py,              *)
(* scripts/experiment_apply.py, scripts/experiment_new.py.                 *)
(***************************************************************************)
EXTENDS Integers, Sequences, FiniteSets, FiniteSetsExt

CONSTANTS
    Admins,         \* requests of administrators
    Trials,         \* experiments
    Customers,      \* tenants
    MaxGreen,       \* bound on the green regression runs of one experiment
    MaxDeployments, \* bound on the rows of experiment_deployments
    DropThreshold,  \* rollback_drift_threshold_pct
    MaxScore        \* scores are 0..MaxScore

ASSUME RolloutAssumption ==
    /\ MaxGreen \in Nat /\ MaxDeployments \in Nat
    /\ DropThreshold \in Nat \ {0} /\ MaxScore \in Nat \ {0}

Nothing == "none"

\* Two of the online evaluators, which differ in what they score.
OnlineEvaluators == {"citation_coverage", "refusal_detected"}

VARIABLES
    green,        \* per experiment: number of its latest green regression run, 0 for none
    deployments,  \* rows: experiment, regression run, active
    trialStatus,  \* YAML: "absent", "draft", "deployed", "completed", "archived", or "torn"
    runtimeFile,  \* config/deployed_experiment.yaml
    left,         \* history: the runtime file is what a rollback of it failed to remove
    admin,        \* per request: operation, experiment, tenant, step
    watch,        \* the watcher: step, and the rows it has listed
    unmeasured,   \* history: the watcher rolled back what no evaluator shows to be worse
    table,        \* experiment_assignments
    rollout,      \* _ASSIGNMENTS_CACHE
    crossed       \* history: experiments and tenants whose requests overlapped or were cut

rolloutVars == <<green, deployments, trialStatus, runtimeFile, left, admin, watch, unmeasured,
                 table, rollout, crossed>>

Free == [op |-> "none", trial |-> Nothing, customer |-> Nothing, step |-> "new"]

RolloutInit ==
    /\ green = [x \in Trials |-> 0]
    /\ deployments = <<>>
    /\ trialStatus = [x \in Trials |-> "absent"]
    /\ runtimeFile = Nothing
    /\ left = FALSE
    /\ admin = [a \in Admins |-> Free]
    /\ watch = [step |-> "idle", listed |-> {}]
    /\ unmeasured = FALSE
    /\ table = [c \in Customers |-> Nothing]
    /\ rollout = [c \in Customers |-> Nothing]
    /\ crossed = {}

Active(x) == {i \in DOMAIN deployments : deployments[i].trial = x /\ deployments[i].active}

Present(x) == trialStatus[x] # "absent"

\* load_experiment finds a document it can validate.
Loads(x) == trialStatus[x] \notin {"absent", "torn"}

Status(x, s) == trialStatus' = [trialStatus EXCEPT ![x] = s]

\* save_experiment truncates the file before it writes: a failure may leave it torn.
Save(x, s) == Loads(x) /\ \E t \in {s, "torn"} : Status(x, t)

----------------------------------------------------------------------------
(* Experiments come and are measured. *)

\* experiment_new.py: an id that exists is refused.
NewExperiment(x) ==
    /\ trialStatus[x] = "absent"
    /\ Status(x, "draft")
    /\ UNCHANGED <<green, deployments, runtimeFile, left, admin, watch, unmeasured, table,
                   rollout, crossed>>

GreenRun(x) ==
    /\ Loads(x)
    /\ green[x] < MaxGreen
    /\ green' = [green EXCEPT ![x] = @ + 1]
    /\ UNCHANGED <<deployments, trialStatus, runtimeFile, left, admin, watch, unmeasured, table,
                   rollout, crossed>>

\* POST .../archive: the YAML only, whatever is deployed.
ArchiveExperiment(x) ==
    /\ Save(x, "archived")
    /\ UNCHANGED <<green, deployments, runtimeFile, left, admin, watch, unmeasured, table,
                   rollout, crossed>>

\* experiment_apply.py --mode deploy makes the overrides the defaults of the source, and
\* marks the YAML; no row of experiment_deployments comes of it.
ApplyDeploy(x) ==
    /\ Save(x, "deployed")
    /\ UNCHANGED <<green, deployments, runtimeFile, left, admin, watch, unmeasured, table,
                   rollout, crossed>>

----------------------------------------------------------------------------
(* admin_deploy_experiment and admin_rollback_experiment *)

Occupy(a, op, x, c) ==
    admin' = [admin EXCEPT ![a] = [op |-> op, trial |-> x, customer |-> c, step |-> "files"]]

\* Another request on the same experiment has committed and not written its files yet.
Crossing(x) == \E b \in Admins : admin[b].step = "files" /\ admin[b].trial = x
                                 /\ admin[b].op \in {"deploy", "rollback"}

Cross(x) == crossed' = IF Crossing(x) THEN crossed \cup {x} ELSE crossed

\* The latest green run, or 409.  The row is inserted and committed.
DeployCommit(a, x) ==
    /\ admin[a].step = "new"
    /\ Present(x)
    /\ green[x] > 0
    /\ Len(deployments) < MaxDeployments
    /\ deployments' = Append(deployments, [trial |-> x, run |-> green[x], active |-> TRUE])
    /\ Occupy(a, "deploy", x, Nothing)
    /\ Cross(x)
    /\ UNCHANGED <<green, trialStatus, runtimeFile, left, watch, unmeasured, table, rollout>>

PutFile(f) == runtimeFile' = f /\ left' = FALSE

\* The YAML cannot be loaded or saved, which ends the request.
YamlFails(x) == UNCHANGED trialStatus \/ (Loads(x) /\ Status(x, "torn"))

\* The YAML first; then the file, whose write may fail and leave it as it was or empty.
DeployFiles(a) ==
    /\ admin[a].step = "files"
    /\ admin[a].op = "deploy"
    /\ LET x == admin[a].trial
       IN  \/ YamlFails(x) /\ UNCHANGED <<runtimeFile, left>>
           \/ /\ Loads(x)
              /\ Status(x, "deployed")
              /\ \/ \E f \in {x, Nothing} : PutFile(f)
                 \/ UNCHANGED <<runtimeFile, left>>
    /\ admin' = [admin EXCEPT ![a] = Free]
    /\ UNCHANGED <<green, deployments, watch, unmeasured, table, rollout,
                   crossed>>

\* Every active row of the experiment with this run is marked.
RollBackRows(x, n) ==
    deployments' = [i \in DOMAIN deployments |->
        IF deployments[i].trial = x /\ deployments[i].run = n
        THEN [deployments[i] EXCEPT !.active = FALSE] ELSE deployments[i]]

\* The run is that of the latest active row, or 409.
RollbackCommit(a, x) ==
    /\ admin[a].step = "new"
    /\ Present(x)
    /\ Active(x) # {}
    /\ RollBackRows(x, deployments[Max(Active(x))].run)
    /\ Occupy(a, "rollback", x, Nothing)
    /\ Cross(x)
    /\ UNCHANGED <<green, trialStatus, runtimeFile, left, watch, unmeasured, table, rollout>>

\* The file goes, whichever experiment it names.
FileAfterRollback(x) == Nothing

FileStays(x) == UNCHANGED runtimeFile /\ left' = (left \/ runtimeFile = x)

\* An error of the unlink is swallowed; one of the YAML leaves the file where it is.
RollbackFiles(a) ==
    /\ admin[a].step = "files"
    /\ admin[a].op = "rollback"
    /\ LET x == admin[a].trial
       IN  \/ YamlFails(x) /\ FileStays(x)
           \/ /\ Loads(x)
              /\ Status(x, "completed")
              /\ PutFile(FileAfterRollback(x)) \/ FileStays(x)
    /\ admin' = [admin EXCEPT ![a] = Free]
    /\ UNCHANGED <<green, deployments, watch, unmeasured, table, rollout,
                   crossed>>

----------------------------------------------------------------------------
(* rollback_watcher *)

\* Means of the evaluators that have any score.
MeanScores == UNION {[E -> 0..MaxScore] : E \in SUBSET OnlineEvaluators}

\* Percentages of the baseline's mean that the candidate lost.
Drops(base, cand) ==
    {((base[e] - cand[e]) * 100) \div base[e] :
        e \in {f \in DOMAIN base \cap DOMAIN cand : base[f] # 0 /\ base[f] > cand[f]}}

\* Mutant: an evaluator without a score of the candidate counts as a total loss.
ComputeDrift_Missing(base, cand) ==
    /\ DOMAIN base # {} /\ DOMAIN cand # {}
    /\ Drops(base, [e \in DOMAIN base |-> IF e \in DOMAIN cand THEN cand[e] ELSE 0]) # {}
    /\ Max(Drops(base, [e \in DOMAIN base |-> IF e \in DOMAIN cand THEN cand[e] ELSE 0]))
          >= DropThreshold

\* compute_drift: the worst loss reaches the threshold.
ComputeDrift(base, cand) ==
    /\ DOMAIN base # {} /\ DOMAIN cand # {}
    /\ Drops(base, cand) # {}
    /\ Max(Drops(base, cand)) >= DropThreshold

\* What a pass can find: the decision and the evaluators that really lost the threshold.
Judgements ==
    {[drift |-> ComputeDrift(base, cand),
      drop |-> {e \in DOMAIN base \cap DOMAIN cand :
                   base[e] > 0 /\ (base[e] - cand[e]) * 100 >= DropThreshold * base[e]}] :
        base, cand \in MeanScores}

ListActive ==
    LET listed == {[trial |-> deployments[i].trial, run |-> deployments[i].run] :
                      i \in {j \in DOMAIN deployments : deployments[j].active}}
    IN  /\ watch.step = "idle"
        /\ listed # {}
        /\ watch' = [step |-> "judge", listed |-> listed]
        /\ UNCHANGED <<green, deployments, trialStatus, runtimeFile, left, admin, unmeasured, table,
                   rollout, crossed>>

\* One listed deployment is judged; if it drifted, its rows are marked and that is all:
\* neither its YAML nor the runtime file is touched.
JudgeDeployment(d) ==
    /\ watch.step = "judge"
    /\ d \in watch.listed
    /\ watch' = IF watch.listed = {d} THEN [step |-> "idle", listed |-> {}]
                ELSE [watch EXCEPT !.listed = @ \ {d}]
    /\ \E judgement \in Judgements :
          IF judgement.drift
          THEN /\ RollBackRows(d.trial, d.run)
               /\ crossed' = crossed \cup {d.trial}
               /\ unmeasured' = (unmeasured \/ judgement.drop = {})
          ELSE UNCHANGED <<deployments, crossed, unmeasured>>
    /\ UNCHANGED <<green, trialStatus, runtimeFile, left, admin, table, rollout>>

\* A query fails: the pass ends and nobody waits for it.
WatchFails ==
    /\ watch.step = "judge"
    /\ watch' = [step |-> "idle", listed |-> {}]
    /\ UNCHANGED <<green, deployments, trialStatus, runtimeFile, left, admin, unmeasured, table,
                   rollout, crossed>>

----------------------------------------------------------------------------
(* admin_upsert_experiment_assignment, resolve_active_experiment *)

AssignCommit(a, x, c) ==
    /\ admin[a].step = "new"
    /\ Present(x)
    /\ table' = [table EXCEPT ![c] = x]
    /\ Occupy(a, "assign", x, c)
    /\ crossed' = IF \E b \in Admins : admin[b].step = "files" /\ admin[b].customer = c
                  THEN crossed \cup {c} ELSE crossed
    /\ UNCHANGED <<green, deployments, trialStatus, runtimeFile, left, watch, unmeasured, rollout>>

\* set_assignment_cache_entry
Cached(c, x) == x

AssignCache(a) ==
    /\ admin[a].step = "files"
    /\ admin[a].op = "assign"
    /\ rollout' = [rollout EXCEPT ![admin[a].customer] =
                      Cached(admin[a].customer, admin[a].trial)]
    /\ admin' = [admin EXCEPT ![a] = Free]
    /\ UNCHANGED <<green, deployments, trialStatus, runtimeFile, left, watch, unmeasured, table,
                   crossed>>

\* The process ends: requests under way are lost, the cache starts empty, and nothing
\* calls refresh_assignment_cache_from_db.
RestartApi ==
    /\ rollout' = [c \in Customers |-> Nothing]
    /\ admin' = [a \in Admins |-> Free]
    /\ watch' = [step |-> "idle", listed |-> {}]
    /\ crossed' = crossed \cup {admin[a].trial : a \in {b \in Admins : admin[b].op = "rollback"}}
    /\ UNCHANGED <<green, deployments, trialStatus, runtimeFile, left, unmeasured, table>>

RolloutNext ==
    \/ \E x \in Trials :
          NewExperiment(x) \/ GreenRun(x) \/ ArchiveExperiment(x) \/ ApplyDeploy(x)
    \/ \E a \in Admins, x \in Trials :
          \/ DeployCommit(a, x) \/ RollbackCommit(a, x)
          \/ \E c \in Customers : AssignCommit(a, x, c)
    \/ \E a \in Admins : DeployFiles(a) \/ RollbackFiles(a) \/ AssignCache(a)
    \/ ListActive \/ (\E d \in watch.listed : JudgeDeployment(d)) \/ WatchFails
    \/ RestartApi

RolloutSpec == RolloutInit /\ [][RolloutNext]_rolloutVars

----------------------------------------------------------------------------
(* Properties *)

RolloutTypeOK ==
    /\ green \in [Trials -> 0..MaxGreen]
    /\ \A i \in DOMAIN deployments :
          deployments[i].trial \in Trials /\ deployments[i].run \in 1..MaxGreen
    /\ trialStatus \in
          [Trials -> {"absent", "draft", "deployed", "completed", "archived", "torn"}]
    /\ runtimeFile \in Trials \cup {Nothing} /\ left \in BOOLEAN
    /\ table \in [Customers -> Trials \cup {Nothing}]
    /\ rollout \in [Customers -> Trials \cup {Nothing}]

\* The runtime file names an experiment with an active deployment, through repeated
\* deployments and rollbacks of other experiments, unless its own requests crossed, a
\* crash cut its rollback in two, the watcher rolled it back, or its rollback could not
\* remove the file.
FileNamesDeployed ==
    runtimeFile # Nothing => Active(runtimeFile) # {} \/ runtimeFile \in crossed
                             \/ Crossing(runtimeFile) \/ left

\* The watcher rolls back only what lost the threshold on an evaluator that both sides
\* have, judged against the definition of the loss without division.
AutoRollbackMeasured == ~unmeasured

\* A cached assignment is the one of the table, whatever order requests for other
\* tenants come in and whenever the process restarts; only two requests for the same
\* tenant that overlap may leave them apart.
CacheFollowsTable ==
    \A c \in Customers :
        rollout[c] # Nothing =>
            \/ rollout[c] = table[c]
            \/ c \in crossed
            \/ \E a \in Admins : admin[a].step = "files" /\ admin[a].customer = c

\* The runtime file, the automatic rollbacks and the cached assignments follow what the
\* tables say (admin_experiments, rollback_watcher, prompt_registry).
RolloutSafety ==
    /\ RolloutTypeOK
    /\ FileNamesDeployed
    /\ AutoRollbackMeasured
    /\ CacheFollowsTable
=============================================================================
