--------------------------- MODULE RegressionRuns ---------------------------
(***************************************************************************)
(* Regression runs in the API process.  A run measures every curated case  *)
(* twice, under its baseline and under its candidate, and installs the     *)
(* overrides of the target in variables of the process: the environment's  *)
(* EXPERIMENT_ID, the path of the override file and the cached settings.   *)
(* Runs are threads and do not exclude each other, requests of users are   *)
(* served by the same process, and all of them make the cached settings    *)
(* without a lock.                                                         *)
(*                                                                         *)
(* scripts/regression_eval.py, api/app.py (_run_regression_job),           *)
(* agent/prompt_registry.py, config/settings.py.                           *)
(***************************************************************************)
EXTENDS Naturals, FiniteSets

CONSTANTS
    Regressions,     \* jobs of POST /admin/experiments/{id}/regression-run
    Requests,        \* requests of users served at the same time
    Variants,        \* experiments and provider profiles
    Staged,          \* the EXPERIMENT_ID the process was started with, or "none"
    CaseCount,       \* cases of the dataset
    MaxRegressions,  \* regression_gate_max_regressions
    MinPassPercent   \* regression_gate_min_pass_rate, in percent

ASSUME RegressionAssumption ==
    /\ Staged \in Variants \cup {"none"} /\ "unset" \notin Variants
    /\ "config" \notin Regressions /\ Regressions \cap Requests = {}
    /\ CaseCount \in Nat /\ MaxRegressions \in Nat /\ MinPassPercent \in 0..100

VARIABLES
    regression,  \* per job: targets, step, side, saved runtime, results, history
    envId,       \* os.environ["EXPERIMENT_ID"], or "none"
    override,    \* EXPERIMENT_OVERRIDE_PATH: "config", or the job whose file it names
    settingsOf,  \* _settings: Unset, or what overrode the settings of the cached object
    getting,     \* per thread: where it is in get_settings, and the overrides it read
    foreign,     \* history: runs that were given something else than their target
    raced,       \* history: runs with settings in the making that others saw or dropped
    evalRows     \* rows of eval_results: the verdict and how it came about

regressionVars ==
    <<regression, envId, override, settingsOf, getting, foreign, raced, evalRows>>

processVars == <<envId, override, settingsOf, getting>>

Threads == Regressions \cup Requests

Unset == {"unset"}

\* Measured results of a case: baseline, then candidate.
Measured == {"passed", "failed", "infra", "skipped"}

NoTally == [cases |-> 0, infra |-> 0, skipped |-> 0, lost |-> 0,
            baseline |-> 0, candidate |-> 0]

RegressionInit ==
    /\ regression \in [Regressions ->
           [baseline : {"current"}, candidate : Variants, step : {"queued"},
            side : {"baseline"}, env : {"none"}, path : {"config"}, first : {"passed"},
            tally : {NoTally}, gaps : {FALSE}, shared : {FALSE}]]
    /\ envId = Staged
    /\ override = "config"
    /\ settingsOf = Unset
    /\ getting = [t \in Threads |-> [at |-> "out", of |-> "none"]]
    /\ foreign = {} /\ raced = {}
    /\ evalRows = {}

----------------------------------------------------------------------------
(* What the process runs with *)

\* Between the entry of a runtime and the end of its finally clause.
Inside(j) == regression[j].step \in {"install", "measure", "restore"}

Target(j) == IF regression[j].side = "baseline" THEN regression[j].baseline
             ELSE regression[j].candidate

\* The experiment an override file is about; the file of a job is in a directory that
\* is removed with its runtime.
Content(p) ==
    IF p = "config" THEN Staged
    ELSE IF regression[p].step \in {"measure", "restore"} THEN Target(p) ELSE "gone"

\* What a run asked for.
Wanted(j) == IF Target(j) = "current" THEN "none" ELSE Target(j)

\* _load_staged_override_payload and get_settings: the file counts if it is about the
\* experiment of the environment.
Effective == IF envId # "none" /\ Content(override) = envId THEN envId ELSE "none"

\* The settings as they are once w has overridden them.
Made(w) == IF w = "none" THEN {} ELSE {w}

Making(t) == getting[t].at \in {"make", "read", "apply"}

OthersMake(t) == \E u \in Threads \ {t} : Making(u)

Step(j, s) == [regression EXCEPT ![j].step = s]

GetAt(t, p) == [getting EXCEPT ![t].at = p]

----------------------------------------------------------------------------
(* get_settings, which takes no lock *)

\* Provider targets are resolved with the settings of before; the pipeline asks for them
\* as often as it likes.
MayAsk(t) == \A j \in Regressions : j = t => regression[j].step \in {"save", "measure"}

\* Whoever finds no object makes one.  A measurement is raced when two threads meet here
\* and one of them is not done.
AskSettings(t) ==
    /\ getting[t].at = "out" /\ MayAsk(t)
    /\ getting' = GetAt(t, IF settingsOf = Unset THEN "make" ELSE "return")
    /\ raced' = raced \cup {j \in Regressions : regression[j].step = "measure" /\ OthersMake(t)}
    /\ UNCHANGED <<regression, envId, override, settingsOf, foreign, evalRows>>

\* _settings = Settings(): others see the object before anything has overridden it.
PublishSettings(t) ==
    /\ getting[t].at = "make"
    /\ settingsOf' = {}
    /\ getting' = GetAt(t, "read")
    /\ UNCHANGED <<regression, envId, override, foreign, raced, evalRows>>

\* The environment is read before the path: a reader that a run overtakes between its two
\* assignments finds a file about another experiment.
ReadOverrides(t) ==
    /\ getting[t].at = "read"
    /\ \E w \in {Effective, "none"} :
          /\ w = Effective \/ \E j \in Regressions : regression[j].step \in {"install", "restore"}
          /\ getting' = [getting EXCEPT ![t] = [at |-> "apply", of |-> w]]
    /\ UNCHANGED <<regression, envId, override, settingsOf, foreign, raced, evalRows>>

\* What was read overrides the object of the moment, whoever made it; none may be left.
ApplyOverrides(t) ==
    /\ getting[t].at = "apply"
    /\ settingsOf' = IF settingsOf = Unset THEN Unset ELSE settingsOf \cup Made(getting[t].of)
    /\ getting' = GetAt(t, "return")
    /\ UNCHANGED <<regression, envId, override, foreign, raced, evalRows>>

\* The object of the moment is returned.
ReturnSettings(t) ==
    /\ getting[t].at = "return"
    /\ getting' = [getting EXCEPT ![t] = [at |-> "out", of |-> "none"]]
    /\ foreign' = foreign \cup {j \in Regressions : /\ j = t /\ regression[j].step = "measure"
                                                    /\ settingsOf # Made(Wanted(j))}
    /\ UNCHANGED <<regression, envId, override, settingsOf, raced, evalRows>>

GetSettings(t) ==
    \/ AskSettings(t) \/ PublishSettings(t) \/ ReadOverrides(t)
    \/ ApplyOverrides(t) \/ ReturnSettings(t)

----------------------------------------------------------------------------
(* _experiment_runtime and _provider_target_runtime *)

StartRegression(j) ==
    /\ regression[j].step = "queued"
    /\ regression' = Step(j, IF CaseCount = 0 THEN "report" ELSE "save")
    /\ UNCHANGED <<processVars, foreign, raced, evalRows>>

\* A run shares the process from the moment two of them are inside a runtime.
SaveRuntime(j) ==
    /\ regression[j].step = "save" /\ getting[j].at = "out"
    /\ regression' = [i \in Regressions |->
          LET meets == \E k \in Regressions \ {i} : (k = j \/ Inside(k)) /\ (i = j \/ Inside(i))
              r == [regression[i] EXCEPT !.shared = @ \/ meets]
          IN  IF i = j THEN [r EXCEPT !.step = "install", !.env = envId, !.path = override]
              ELSE r]
    /\ UNCHANGED <<processVars, foreign, raced, evalRows>>

\* _reset_settings_cache: the step of a run that drops the object, raced when another
\* thread is still making one.
Reset(j, s) ==
    /\ settingsOf' = Unset
    /\ regression' = Step(j, s)
    /\ raced' = raced \cup {i \in {j} : OthersMake(i)}

\* "current" takes the environment's experiment away and leaves the path.
InstallRuntime(j) ==
    /\ regression[j].step = "install"
    /\ IF Target(j) = "current"
       THEN envId' = "none" /\ UNCHANGED override
       ELSE envId' = Target(j) /\ override' = j
    /\ Reset(j, "measure")
    /\ UNCHANGED <<getting, foreign, evalRows>>

\* Mutant: a runtime that was entered for "current" puts nothing back.
RestoreRuntime_KeepsCurrent(j) ==
    /\ regression[j].step = "restore"
    /\ IF Target(j) = "current" THEN UNCHANGED <<envId, override>>
       ELSE envId' = regression[j].env /\ override' = regression[j].path
    /\ Reset(j, "next")
    /\ UNCHANGED <<getting, foreign, evalRows>>

\* The finally clause puts back what was found on entry.
RestoreRuntime(j) ==
    /\ regression[j].step = "restore"
    /\ envId' = regression[j].env
    /\ override' = regression[j].path
    /\ Reset(j, "next")
    /\ UNCHANGED <<getting, foreign, evalRows>>

----------------------------------------------------------------------------
(* run_regression_cases *)

\* One comparison: a skip on either side comes before an infrastructure failure, and
\* either keeps the case out of the pass rates.
Add(t, b, c) ==
    IF "skipped" \in {b, c}
    THEN [t EXCEPT !.cases = @ + 1, !.skipped = @ + 1]
    ELSE IF "infra" \in {b, c}
    THEN [t EXCEPT !.cases = @ + 1, !.infra = @ + 1]
    ELSE [t EXCEPT !.cases = @ + 1,
                   !.lost = @ + IF b = "passed" /\ c = "failed" THEN 1 ELSE 0,
                   !.baseline = @ + IF b = "passed" THEN 1 ELSE 0,
                   !.candidate = @ + IF c = "passed" THEN 1 ELSE 0]

\* The pipeline answers the case, with the settings it asked for and the prompts of the
\* experiment that is in force; an exception is an infrastructure failure.
MeasureCase(j) ==
    /\ regression[j].step = "measure" /\ getting[j].at = "out"
    /\ \E m \in Measured :
          regression' = [regression EXCEPT
              ![j].step = "restore",
              ![j].gaps = @ \/ m \in {"infra", "skipped"},
              ![j].first = IF regression[j].side = "baseline" THEN m ELSE @,
              ![j].tally = IF regression[j].side = "baseline" THEN @
                           ELSE Add(@, regression[j].first, m)]
    /\ foreign' = foreign \cup {i \in {j} : Effective # Wanted(i)}
    /\ UNCHANGED <<processVars, raced, evalRows>>

NextMeasurement(j) ==
    /\ regression[j].step = "next"
    /\ regression' = [regression EXCEPT
          ![j].side = IF @ = "baseline" THEN "candidate" ELSE "baseline",
          ![j].step = IF regression[j].side = "candidate"
                         /\ regression[j].tally.cases = CaseCount THEN "report" ELSE "save"]
    /\ UNCHANGED <<processVars, foreign, raced, evalRows>>

----------------------------------------------------------------------------
(* decide_regression_gate, apply_evidence_policy, persist_regression_result *)

GatePasses(t) ==
    LET effective == t.cases - t.infra - t.skipped
    IN  /\ t.cases > 0
        /\ t.infra = 0
        /\ t.skipped = 0
        /\ effective > 0
        /\ t.lost <= MaxRegressions
        /\ t.candidate * 100 >= MinPassPercent * effective
        /\ t.candidate >= t.baseline

\* The report is written and its row inserted; drift_alert is the verdict.
PersistRegression(j) ==
    /\ regression[j].step = "report"
    /\ evalRows' = evalRows \cup {[candidate |-> regression[j].candidate,
                                   green |-> GatePasses(regression[j].tally),
                                   gaps |-> regression[j].gaps,
                                   cases |-> regression[j].tally.cases,
                                   foreign |-> j \in foreign,
                                   shared |-> regression[j].shared,
                                   raced |-> j \in raced]}
    /\ regression' = Step(j, "completed")
    /\ UNCHANGED <<processVars, foreign, raced>>

\* An exception while reporting or persisting.
RegressionError(j) ==
    /\ regression[j].step \in {"queued", "report"}
    /\ regression' = Step(j, "error")
    /\ UNCHANGED <<processVars, foreign, raced, evalRows>>

RegressionStep(j) ==
    \/ StartRegression(j) \/ SaveRuntime(j) \/ InstallRuntime(j) \/ MeasureCase(j)
    \/ RestoreRuntime(j) \/ NextMeasurement(j) \/ PersistRegression(j) \/ RegressionError(j)

RegressionNext ==
    \/ \E j \in Regressions : RegressionStep(j)
    \/ \E t \in Threads : GetSettings(t)

RegressionSpec == RegressionInit /\ [][RegressionNext]_regressionVars

----------------------------------------------------------------------------
(* Properties *)

RegressionTypeOK ==
    /\ \A j \in Regressions :
          /\ regression[j].step \in {"queued", "save", "install", "measure", "restore", "next",
                                     "report", "completed", "error"}
          /\ regression[j].tally.cases \in 0..CaseCount
          /\ regression[j].env \in Variants \cup {"none"}
          /\ regression[j].path \in Regressions \cup {"config"}
    /\ envId \in Variants \cup {"none"}
    /\ override \in Regressions \cup {"config"}
    /\ settingsOf \in (SUBSET Variants) \cup {Unset}
    /\ \A t \in Threads : /\ getting[t].at \in {"out", "make", "read", "apply", "return"}
                          /\ getting[t].of \in Variants \cup {"none"}
    /\ foreign \subseteq Regressions /\ raced \subseteq Regressions

\* A run that had the process to itself was measured under its own targets, case by
\* case, although requests of users make and fill the cached settings in between: unless
\* one of them was making the settings just when another thread asked for them or a run
\* dropped them.
AloneMeasuresItsTargets == \A r \in evalRows : ~r.shared /\ ~r.raced => ~r.foreign

\* Users get the staged experiment, and nothing else, whenever no run is inside a runtime
\* and none ever met another or was raced, as soon as the settings are made.
StagedBetweenRuns ==
    /\ \A j \in Regressions : ~Inside(j) /\ ~regression[j].shared /\ j \notin raced
    /\ \A t \in Threads : ~Making(t)
    => Effective = Staged /\ settingsOf \in {Unset, Made(Staged)}

\* A green row stands for a complete run: no measurement of any of its cases, on either
\* side, was skipped or met a broken provider.
GreenIsComplete ==
    \A r \in evalRows : r.green => ~r.gaps /\ r.cases = CaseCount /\ CaseCount > 0

\* A regression run measures its own targets, leaves the staged ones behind and is green
\* only when it is complete (_experiment_runtime, run_regression).
RegressionSafety ==
    /\ RegressionTypeOK
    /\ AloneMeasuresItsTargets
    /\ StagedBetweenRuns
    /\ GreenIsComplete
=============================================================================
