---------------------------- MODULE TraceLedger ----------------------------
(***************************************************************************)
(* Traces and what they charge.  Every node of the support graph logs a    *)
(* step; a step carries the usage of the model calls its node made.  The   *)
(* usage is read back from last_response, which the shared model object    *)
(* keeps for each thread, and travels in the graph's state to later nodes, *)
(* which must not charge it again.  Traces are purged after a retention    *)
(* time together with their steps and feedback.                            *)
(*                                                                         *)
(* agent/graph.py (usage helpers and the log_step calls of the nodes),     *)
(* llm/providers/base.py (last_response), tracing/_base_trace.py,          *)
(* api/routers/feedback.py, api/app.py (_purge_old_traces_periodically).   *)
(***************************************************************************)
EXTENDS Naturals, FiniteSets

CONSTANTS
    TracedRuns,    \* requests
    PoolThreads,   \* threads of the request executor
    MaxModelCalls  \* model calls of a request

ASSUME TraceLedgerAssumption == MaxModelCalls \in Nat \ {0}

Llms == {"fast", "strong"}
Responses == TracedRuns \X (1 .. MaxModelCalls)
NoResponse == <<>>
NoThread == "none"
NoUsage == [node |-> "none", from |-> {}]

VARIABLES
    last,     \* last[t][m]: last_response of model m as thread t sees it
    traced,   \* the run of a request through the graph
    row,      \* its rows: the trace, its steps, feedback given and given late
    charged,  \* history: responses charged to a step; some twice? to another run?
    purge     \* the periodic purge: step, cutoff read, traces selected

ledgerVars == <<last, traced, row, charged, purge>>

\* Nodes that may follow a node.  Nodes that call no model: retrieve, log, and
\* two that are left out, route_or_retry after evaluate and response_safety
\* before suggest and log.
Follows == [classify  |-> {"transform"},            transform |-> {"retrieve"},
            retrieve  |-> {"grade", "generate"},    grade     |-> {"generate"},
            generate  |-> {"verify", "evaluate"},   verify    |-> {"evaluate", "log"},
            evaluate  |-> {"rewrite", "suggest", "log"},
            rewrite   |-> {"retrieve"},             suggest   |-> {"log"},
            log       |-> {"end"},                  handle_error |-> {"end"}]

\* Without an answer, or without a judgement of it, there is no retry: the
\* request goes to a person.
NextNodes(n, recorded) == IF n \in {"generate", "evaluate"} /\ ~recorded THEN {"log"} ELSE Follows[n]

\* The models a node may call.
ModelsOf(n) ==
    IF n \in {"generate", "evaluate"} THEN Llms
    ELSE IF n = "rewrite" THEN {"strong"}
    ELSE IF n \in {"classify", "transform", "grade", "verify", "suggest"} THEN {"fast"} ELSE {}

\* Nodes that make several calls: the HyDE query, a grade for every document,
\* a check for every claim.
Repeats == {"transform", "grade", "verify"}

\* A request before it runs and after.
NoRun(at) == [at |-> at, phase |-> "idle", thread |-> NoThread, model |-> "fast", calls |-> 0,
              usage |-> NoUsage, got |-> {}, recorded |-> FALSE, streamed |-> FALSE]

LedgerInit ==
    /\ last = [t \in PoolThreads |-> [m \in Llms |-> NoResponse]]
    /\ traced = [r \in TracedRuns |-> NoRun("new")]
    /\ row = [r \in TracedRuns |-> [trace |-> "none", steps |-> FALSE, age |-> 0,
                                    feedback |-> FALSE, late |-> FALSE]]
    /\ charged = [once |-> {}, twice |-> FALSE, foreign |-> FALSE]
    /\ purge = [step |-> "idle", selected |-> {}]

----------------------------------------------------------------------------
(* A run through the graph *)

\* A thread of the pool takes the request, and start_trace makes a row.
StartTrace(r, t) ==
    /\ traced[r].at = "new"
    /\ \A q \in TracedRuns : traced[q].thread # t
    /\ traced' = [traced EXCEPT ![r].at = "classify", ![r].phase = "call", ![r].thread = t]
    /\ row' = [row EXCEPT ![r].trace = "open"]
    /\ UNCHANGED <<last, charged, purge>>

\* The setter of last_response.
Seen(t, m, x) == [last EXCEPT ![t][m] = x]

\* A model answers.  A structured answer that cannot be used is asked for
\* again as text, and only the second response is read back.
ModelAnswers(r, m) ==
    /\ m \in ModelsOf(traced[r].at) /\ traced[r].calls < MaxModelCalls
    /\ \/ traced[r].phase = "call"
       \/ traced[r].phase = "captured" /\ traced[r].at \in Repeats
       \/ traced[r].phase = "answered" /\ traced[r].at \in {"grade", "verify"} /\ ~traced[r].streamed
    /\ last' = Seen(traced[r].thread, m, <<r, traced[r].calls + 1>>)
    /\ traced' = [traced EXCEPT ![r].phase = "answered", ![r].model = m, ![r].calls = @ + 1]
    /\ UNCHANGED <<row, charged, purge>>

\* The answer is streamed: generate_stream does not set last_response.
ModelStreams(r, m) ==
    /\ traced[r].at = "generate" /\ traced[r].phase = "call"
    /\ traced' = [traced EXCEPT ![r].phase = "answered", ![r].model = m, ![r].streamed = TRUE]
    /\ UNCHANGED <<last, row, charged, purge>>

\* _capture_llm_usage and _merge_llm_usage: whatever this thread saw last.
CaptureUsage(r) ==
    /\ traced[r].phase = "answered"
    /\ traced' = [traced EXCEPT ![r].phase = "captured", ![r].recorded = TRUE,
                                ![r].got = @ \cup ({last[traced[r].thread][traced[r].model]} \ {NoResponse})]
    /\ UNCHANGED <<last, row, charged, purge>>

\* Mutant: the usage in the state is logged whatever node it is of.
UsageOfStep_Carried(u, n) == u.from

\* log_step drops usage that belongs to another node.
UsageOfStep(u, n) == IF u.node = n THEN u.from ELSE {}

\* The end of a node that returned a state: the usage is applied if a call was
\* recorded, and the step is logged.  Failed calls were handled in the node.
LogStep(r) ==
    /\ traced[r].at \notin {"new", "end"} /\ traced[r].phase \in {"call", "captured"}
    /\ LET n    == traced[r].at
           u    == IF traced[r].recorded THEN [node |-> n, from |-> traced[r].got] ELSE traced[r].usage
           paid == UsageOfStep(u, n)
           own  == \A x \in paid : x[1] = r
       IN  /\ \E next \in NextNodes(n, traced[r].recorded) :
                traced' = [traced EXCEPT ![r] =
                             IF next = "end" THEN NoRun("end")
                             ELSE [@ EXCEPT !.at = next, !.phase = "call", !.model = "fast", !.usage = u,
                                            !.got = {}, !.recorded = FALSE, !.streamed = FALSE]]
           /\ charged' = IF traced[r].streamed
                         THEN charged
                         ELSE [charged EXCEPT !.once = @ \cup paid, !.foreign = @ \/ ~own,
                                              !.twice = @ \/ charged.once \cap paid # {}]
    /\ row' = [row EXCEPT ![r].steps = TRUE,
                          ![r].trace = IF traced[r].at \in {"log", "handle_error"} THEN "finished" ELSE @]
    /\ UNCHANGED <<last, purge>>

\* An exception the node does not handle: the error state has the usage that
\* came into the node.
NodeRaises(r) ==
    /\ traced[r].at \notin {"new", "log", "handle_error", "end"}
    /\ traced' = [traced EXCEPT ![r].at = "handle_error", ![r].phase = "call", ![r].got = {},
                                ![r].model = "fast", ![r].recorded = FALSE, ![r].streamed = FALSE]
    /\ UNCHANGED <<last, row, charged, purge>>

----------------------------------------------------------------------------
(* Feedback and retention.  Ages: 0 new, 1 about to expire, 2 past the
   retention time, which no running request reaches; requests that run
   meanwhile add nothing to the traces concerned, so the purge is shown
   between requests. *)

NoneRuns == \A r \in TracedRuns : traced[r].at \in {"new", "end"}

\* post_feedback does not look for the trace.
SaveFeedback(r) ==
    /\ NoneRuns /\ row[r].trace \in {"finished", "purged"}
    /\ IF row[r].trace = "purged" THEN row' = [row EXCEPT ![r].late = TRUE]
                                  ELSE row' = [row EXCEPT ![r].feedback = TRUE]
    /\ UNCHANGED <<last, traced, charged, purge>>

\* Time passes for a finished trace.
TraceAges(r) ==
    /\ NoneRuns /\ row[r].trace = "finished" /\ row[r].age < 2
    /\ row' = [row EXCEPT ![r].age = @ + 1]
    /\ UNCHANGED <<last, traced, charged, purge>>

\* purge_old_traces selects the traces older than a cutoff, ...
SelectOld ==
    /\ NoneRuns /\ purge.step = "idle"
    /\ purge' = [step |-> "delete", selected |-> {r \in TracedRuns : row[r].trace = "finished" /\ row[r].age = 2}]
    /\ UNCHANGED <<last, traced, row, charged>>

\* The traces before the same cutoff.
Expired(r) == r \in purge.selected

\* ... and deletes their steps, their feedback and, by the cutoff, the traces,
\* in one transaction.
DeleteOld ==
    /\ purge.step = "delete"
    /\ row' = [r \in TracedRuns |->
                  [row[r] EXCEPT !.steps = @ /\ r \notin purge.selected,
                                 !.feedback = @ /\ r \notin purge.selected,
                                 !.trace = IF Expired(r) THEN "purged" ELSE @]]
    /\ purge' = [step |-> "idle", selected |-> {}]
    /\ UNCHANGED <<last, traced, charged>>

LedgerNext ==
    \/ \E r \in TracedRuns :
         \/ \E t \in PoolThreads : StartTrace(r, t)
         \/ \E m \in Llms : ModelAnswers(r, m) \/ ModelStreams(r, m)
         \/ CaptureUsage(r) \/ LogStep(r) \/ NodeRaises(r) \/ SaveFeedback(r) \/ TraceAges(r)
    \/ SelectOld \/ DeleteOld

LedgerSpec == LedgerInit /\ [][LedgerNext]_ledgerVars

----------------------------------------------------------------------------
(* Properties *)

LedgerTypeOK ==
    /\ last \in [PoolThreads -> [Llms -> Responses \cup {NoResponse}]]
    /\ \A r \in TracedRuns : /\ traced[r].at \in DOMAIN Follows \cup {"new", "end"}
                             /\ traced[r].got \cup traced[r].usage.from \subseteq Responses
                             /\ traced[r].calls \in 0 .. MaxModelCalls
                             /\ row[r].trace \in {"none", "open", "finished", "purged"}
    /\ charged.once \subseteq Responses /\ purge.selected \subseteq TracedRuns

\* No model response is charged to two steps that did not stream, although the
\* usage travels through the nodes after the one it is of, also around the retry
\* loop (the usage_node test of log_step): the daily limit is compared with the
\* sum of what the steps were charged.
NotChargedTwice == ~charged.twice

\* A step that did not stream is charged for calls of its own request only,
\* whatever the other threads that share the model object do between a call and
\* the reading of its usage (the thread-local last_response).
ChargedToItsCaller == ~charged.foreign

\* A purged trace leaves neither steps nor the feedback given before the purge,
\* although traces keep crossing the cutoff while the purge runs (one cutoff for
\* the selection and for the deletion).
PurgedWhole == \A r \in TracedRuns : row[r].trace = "purged" => ~row[r].steps /\ ~row[r].feedback

\* The ledger charges a model response once and to its caller, and a purge takes a trace
\* whole (log_step, purge_old_traces).
LedgerSafety ==
    /\ LedgerTypeOK
    /\ NotChargedTwice
    /\ ChargedToItsCaller
    /\ PurgedWhole
=============================================================================
