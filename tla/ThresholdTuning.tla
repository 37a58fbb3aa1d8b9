-------------------------- MODULE ThresholdTuning --------------------------
(***************************************************************************)
(* The threshold report: labelled traces are scored against candidate      *)
(* thresholds, one by one, and the one with the best F1 is suggested, the  *)
(* nearest to the current value among equals.  Labels come from the review queue, or  *)
(* from the routes when nothing has been reviewed.  The metrics are        *)
(* compared exactly, as fractions; a reported value is rounded, so scores  *)
(* are counted in halves of the unit of the report.                        *)
(*                                                                         *)
(* scripts/analyze_thresholds.py.                                          *)
(***************************************************************************)
EXTENDS Integers, Sequences, FiniteSets, FiniteSetsExt

CONSTANTS
    MaxTraces,   \* traces of the period
    TopScore,    \* scores and thresholds are 0 .. TopScore halves of a unit
    MinLabels    \* threshold_analysis_min_labels

ASSUME ThresholdTuningAssumption == {MaxTraces, TopScore, MinLabels} \subseteq Nat \ {0}

NoScore == -1

VARIABLES
    traces,     \* the traces: score (or NoScore), route to a person?, verdict of the review
    asked,      \* the threshold: its current value, whether it is a whole number, whether
                \* high scores are the bad ones; and what is in the review queue
    search,     \* the candidates still to be tried and the best so far
    advice      \* find_optimal_threshold's answer

tuningVars == <<traces, asked, search, advice>>

TraceRows == [score : {NoScore} \cup 0 .. TopScore, human : BOOLEAN,
              review : {"none", "good", "bad"}]

\* THRESHOLD_SPECS, where only a whole number of milliseconds is bad above its threshold; and
\* the rows of the review queue: those of the traces here, those and some of traces
\* outside the period, or none because the query failed.
Asked ==
    {a \in [current : {x \in 0 .. TopScore : x % 2 = 0}, whole : BOOLEAN, higher : BOOLEAN,
            reviews : {"here", "more", "unreadable"}] :
        a.higher => a.whole}

\* The order of the traces does not matter; here it is that of the scores.
TuningInit ==
    /\ traces \in {t \in UNION {[1 .. n -> TraceRows] : n \in 0 .. MaxTraces} :
                      \A i, j \in DOMAIN t : i < j => t[i].score <= t[j].score}
    /\ asked \in Asked
    /\ search = [todo |-> {}, best |-> asked.current]
    /\ advice = [status |-> "none", suggested |-> 0]

\* The review decides when it has a verdict on any trace, in the period or not;
\* otherwise the route stands in for it.  Traces without a score or a label
\* drop out.
Labelled ==
    LET reviewed == \/ asked.reviews = "more"
                    \/ asked.reviews = "here" /\ \E i \in DOMAIN traces : traces[i].review # "none"
    IN  {[trace |-> i, score |-> traces[i].score,
          bad |-> IF reviewed THEN traces[i].review = "bad" ELSE traces[i].human] :
            i \in {j \in DOMAIN traces : /\ traces[j].score # NoScore
                                         /\ reviewed => traces[j].review # "none"}}

\* _predict_bad: the samples a threshold flags.
Flagged(samples, threshold, higher) ==
    {x \in samples : IF higher THEN x.score > threshold ELSE x.score < threshold}

\* compute_binary_metrics: F1 = 2 TP / (2 TP + FP + FN), and 0 where that is
\* undefined, as a pair <<numerator, denominator>>.
F1(samples, flagged) ==
    LET bad == {x \in samples : x.bad}
        tp == Cardinality(flagged \cap bad)
        fp == Cardinality(flagged \ bad)
        fn == Cardinality(bad \ flagged)
    IN  IF tp = 0 THEN <<0, 1>> ELSE <<2 * tp, 2 * tp + fp + fn>>

Metric(threshold) == F1(Labelled, Flagged(Labelled, threshold, asked.higher))

Better(f, g) == f[1] * g[2] > g[1] * f[2]
Same(f, g) == f[1] * g[2] = g[1] * f[2]
Distance(x, y) == IF x >= y THEN x - y ELSE y - x

ScoreValues == {x.score : x \in Labelled}

\* _normalize_value: whole units, halves to the even neighbour.
Rounded(x) == IF x % 2 = 0 THEN x ELSE IF (x - 1) % 4 = 0 THEN x - 1 ELSE x + 1

\* _candidate_step: the smallest gap between two scores; a unit when there is none, and
\* at least a unit, in units, for a whole-numbered threshold.
CandidateStep ==
    LET gaps == {g \in 1 .. TopScore : \E x, y \in ScoreValues : g = x - y}
    IN  IF gaps = {} THEN 2
        ELSE IF asked.whole THEN Max({2, Rounded(Min(gaps))})
        ELSE Min(gaps)

\* One value past the scores, at which every trace counts as bad.
PastScores ==
    IF asked.higher THEN Min(ScoreValues) - CandidateStep ELSE Max(ScoreValues) + CandidateStep

ThresholdCandidates == {asked.current, PastScores} \cup ScoreValues

\* Too few labels: no advice.
TooFewLabels ==
    /\ advice.status = "none"
    /\ Cardinality(Labelled) < MinLabels
    /\ advice' = [advice EXCEPT !.status = "insufficient_data"]
    /\ UNCHANGED <<traces, asked, search>>

\* The search begins at the current value.
StartSearch ==
    /\ advice.status = "none"
    /\ Cardinality(Labelled) >= MinLabels
    /\ search' = [search EXCEPT !.todo = ThresholdCandidates]
    /\ advice' = [advice EXCEPT !.status = "searching"]
    /\ UNCHANGED <<traces, asked>>

\* Mutant: among equals the last is kept.
Preferred_Last(c) == ~Better(Metric(search.best), Metric(c))

\* A better F1, or the same nearer to the current value.
Preferred(c) ==
    \/ Better(Metric(c), Metric(search.best))
    \/ /\ Same(Metric(c), Metric(search.best))
       /\ Distance(c, asked.current) < Distance(search.best, asked.current)

\* Candidates are tried in ascending order.
TryCandidate ==
    /\ advice.status = "searching" /\ search.todo # {}
    /\ LET c == Min(search.todo) IN
       search' = [todo |-> search.todo \ {c}, best |-> IF Preferred(c) THEN c ELSE search.best]
    /\ UNCHANGED <<traces, asked, advice>>

Suggest ==
    /\ advice.status = "searching" /\ search.todo = {}
    /\ advice' = [status |-> "ok", suggested |-> Rounded(search.best)]
    /\ UNCHANGED <<traces, asked, search>>

TuningNext == TooFewLabels \/ StartSearch \/ TryCandidate \/ Suggest

TuningSpec == TuningInit /\ [][TuningNext]_tuningVars

----------------------------------------------------------------------------
(* Properties *)

TuningTypeOK ==
    /\ traces \in Seq(TraceRows) /\ asked \in Asked
    /\ search.todo \subseteq Int /\ search.best \in Int
    /\ advice.status \in {"none", "searching", "ok", "insufficient_data"}
    /\ advice.suggested \in Int

\* No threshold at all, candidate or not, scores better than the one found: the
\* scores seen and one value past them are enough (_threshold_candidates).
NoThresholdIsBetter ==
    advice.status = "ok" =>
        \A t \in -2 .. TopScore + 2 : ~Better(Metric(t), Metric(search.best))

\* The suggestion leaves the current value only for a gain, and then moves no
\* further than needed: a threshold strictly nearer to the current value scores
\* worse, up to the gap between two scores (find_optimal_threshold).
MovesOnlyForGain ==
    advice.status = "ok" =>
        /\ search.best # asked.current => Better(Metric(search.best), Metric(asked.current))
        /\ \A c \in ScoreValues :
             Distance(c, asked.current) < Distance(search.best, asked.current) =>
                 Better(Metric(search.best), Metric(c))

\* The threshold found is the best there is and the nearest of the best
\* (find_optimal_threshold).
TuningSafety ==
    /\ TuningTypeOK
    /\ NoThresholdIsBetter
    /\ MovesOnlyForGain
=============================================================================
