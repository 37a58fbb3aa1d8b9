---------------------------- MODULE SupportGraph ----------------------------
(***************************************************************************)
(* One request through the LangGraph of agent/graph.py: corrective RAG,    *)
(* claim verification, an independent judge, the Self-RAG retry loop and   *)
(* the gate before the answer is returned.                                 *)
(*                                                                         *)
(* s is the GraphState that every node receives and returns; node is the   *)
(* node that runs next.  What models, retriever and trace store deliver is *)
(* any outcome the node handles.  Lists of documents are sets.  trail      *)
(* remembers what the request has gone through; no node reads it.          *)
(***************************************************************************)
EXTENDS Integers, FiniteSets

CONSTANTS
    Docs,
    Poisoned,       \* documents with prompt-injection markers
    Scores,         \* quality, factuality and relevance, in percent
    MinQuality, MinRelevance, MinFactuality,
    MaxIterations

ASSUME ConstantsAssumption ==
    /\ IsFiniteSet(Docs)
    /\ Poisoned \subseteq Docs
    /\ {0, 100} \subseteq Scores /\ Scores \subseteq 0..100
    /\ {MinQuality, MinRelevance, MinFactuality} \subseteq 1..100
    /\ MaxIterations \in Nat

VARIABLES node, s, trail

vars == <<node, s, trail>>

\* Nodes that return the state as it is once error is set, and set it when
\* they raise.
Guarded == {"classify_complexity", "transform_query", "retrieve", "grade_docs", "generate",
            "verify_facts", "evaluate", "route_or_retry", "rewrite_query", "response_safety"}

Final == {"end", "raised"}

Nodes == Guarded \cup Final \cup {"suggest_questions", "log", "handle_error"}

Written == {"blank", "short", "gap", "text"}

Answers == Written \cup {"none", "outage", "refusal", "escalation"}

Dangers == {"pii", "injection"}

\* create_initial_state; a score that is None counts as 0, evaluate sets both
\* before they are read.
InitialState ==
    [complexity |-> "unknown", iteration |-> 0, context |-> {}, graded |-> {},
     gradeRan |-> FALSE, answer |-> "none", danger |-> {}, claims |-> "none", factuality |-> 0,
     grounding |-> "not_verified", skipped |-> FALSE, verifyError |-> FALSE,
     generationError |-> FALSE, quality |-> 0, relevance |-> 0, gap |-> FALSE, judge |-> "ok",
     route |-> "none", error |-> FALSE]

Init ==
    /\ node = "classify_complexity"
    /\ s = InitialState
    /\ trail = [answeredIn |-> -1, answeredFrom |-> {}, verifiedIn |-> -1, verifiedFrom |-> {},
                judgedIn |-> -1, outage |-> "none", gateFailed |-> FALSE]

----------------------------------------------------------------------------
(* Edges.                                                                  *)

RouteAfterRetrieve(t) ==
    IF t.error THEN "handle_error"
    ELSE IF t.complexity = "simple" THEN "generate" ELSE "grade_docs"

RouteAfterGenerate(t) ==
    IF t.error THEN "handle_error"
    ELSE IF t.generationError THEN "response_safety"
    ELSE IF t.complexity = "simple" THEN "evaluate" ELSE "verify_facts"

RouteAfterVerifyFacts(t) ==
    IF t.error \/ t.route = "error" THEN "handle_error"
    ELSE IF t.verifyError THEN "response_safety" ELSE "evaluate"

ShouldRetry(t) ==
    IF t.error \/ t.route = "error" THEN "handle_error"
    ELSE IF t.route = "retry" THEN "rewrite_query" ELSE "response_safety"

AfterResponseSafety(t) == IF t.route = "auto" THEN "suggest_questions" ELSE "log"

\* build_support_graph: the node after n has returned t.
Edge(n, t) ==
    CASE n = "classify_complexity" -> "transform_query"
      [] n = "transform_query" -> "retrieve"
      [] n = "retrieve" -> RouteAfterRetrieve(t)
      [] n = "grade_docs" -> "generate"
      [] n = "generate" -> RouteAfterGenerate(t)
      [] n = "verify_facts" -> RouteAfterVerifyFacts(t)
      [] n = "evaluate" -> "route_or_retry"
      [] n = "route_or_retry" -> ShouldRetry(t)
      [] n = "rewrite_query" -> "retrieve"
      [] n = "response_safety" -> AfterResponseSafety(t)
      [] n = "suggest_questions" -> "log"
      [] n \in {"log", "handle_error"} -> "end"

----------------------------------------------------------------------------
(* Nodes.                                                                  *)

Enter(n) == node = n /\ ~s.error

\* The node returns t.
Return(t) == s' = t /\ node' = Edge(node, t)

\* A node that sees an error returns the state untouched.
PassOn ==
    /\ node \in Guarded
    /\ s.error
    /\ Return(s)
    /\ UNCHANGED trail

\* _make_error_state: any exception a node does not handle itself, its own
\* trace step included.
NodeFails ==
    /\ node \in Guarded
    /\ ~s.error
    /\ Return([s EXCEPT !.error = TRUE, !.route = "error"])
    /\ trail' = [trail EXCEPT !.gateFailed = (node = "response_safety")]

\* Routing may be off; "global" goes the way of "complex".
ClassifyComplexity ==
    /\ Enter("classify_complexity")
    /\ \E c \in {"simple", "complex", "unknown"} : Return([s EXCEPT !.complexity = c])
    /\ UNCHANGED trail

\* The search query is no part of the model: a failed call falls back to the question.
TransformQuery ==
    /\ Enter("transform_query")
    /\ Return(s)
    /\ UNCHANGED trail

\* A failing retriever returns no documents.
Retrieve ==
    /\ Enter("retrieve")
    /\ \E D \in SUBSET Docs : Return([s EXCEPT !.context = D])
    /\ UNCHANGED trail

\* RequestDeadlineExceeded leaves the graph; the session answers with a timeout.
RetrieveTooLate ==
    /\ Enter("retrieve")
    /\ node' = "raised"
    /\ UNCHANGED <<s, trail>>

\* What a grader may keep, with one verdict on all documents that could be read or
\* one on each.  Grader errors reject; header-only documents are replaced by others
\* of their source.
Gradings(t) == SUBSET t.context

\* finalize_grade_state: when nothing is kept the request is a knowledge gap.
FinalizeGrade(t, G) ==
    LET graded == [t EXCEPT !.graded = G, !.gradeRan = TRUE] IN
    IF G # {} THEN graded
    ELSE [graded EXCEPT !.gap = TRUE, !.grounding = "not_verified", !.factuality = 0]

GradeDocs ==
    /\ Enter("grade_docs")
    /\ \E G \in Gradings(s) : Return(FinalizeGrade(s, G))
    /\ UNCHANGED trail

\* graded_docs or context_docs
Kept(t) == IF t.graded # {} THEN t.graded ELSE t.context

\* resolve_generation_context_docs: nothing that was rejected comes back.
GenerationDocs(t) == IF t.gradeRan THEN t.graded ELSE Kept(t)

\* status_for_skip
Skipped(t) ==
    [t EXCEPT !.claims = "none", !.grounding = "not_verified", !.factuality = 0, !.skipped = TRUE]

Generate ==
    /\ Enter("generate")
    /\ \E a \in Written, d \in SUBSET Dangers :
          LET t == [s EXCEPT !.answer = a, !.danger = IF a = "blank" THEN {} ELSE d,
                             !.generationError = FALSE]
          IN  Return(IF t.complexity = "simple" THEN Skipped(t) ELSE t)
    /\ trail' = [trail EXCEPT !.answeredIn = s.iteration, !.answeredFrom = GenerationDocs(s)]

\* _generation_provider_fail_closed
GenerateUnavailable ==
    /\ Enter("generate")
    /\ Return([Skipped(s) EXCEPT !.answer = "outage", !.danger = {}, !.quality = 0,
                                 !.relevance = 0, !.generationError = TRUE, !.route = "human"])
    /\ trail' = [trail EXCEPT !.outage = "generate"]

\* verify_facts gets as far as calling the model, on the documents the answer
\* was generated from.
Verifiable(t) == t.answer \in {"gap", "text"} /\ GenerationDocs(t) # {}

Verdict(c, g, f) ==
    Return([s EXCEPT !.claims = c, !.grounding = g, !.factuality = f, !.skipped = FALSE,
                     !.verifyError = FALSE])

\* Disabled, no answer or no documents; a short answer; an unreadable list of
\* claims.
VerifySkips ==
    /\ Enter("verify_facts")
    /\ \/ Return([Skipped(s) EXCEPT !.verifyError = FALSE])
       \/ /\ s.answer # "blank" /\ GenerationDocs(s) # {}
          /\ Verdict("none", "not_verified", 0)
    /\ trail' = [trail EXCEPT !.verifiedIn = s.iteration, !.verifiedFrom = {}]

\* No claims at all; every claim supported by a document the answer cites, or
\* every one of the first ten; some claims not, or no valid citation.
VerifyFacts ==
    /\ Enter("verify_facts")
    /\ Verifiable(s)
    /\ \/ Verdict("none", "verified", 0)
       \/ Verdict("bound", "verified", 100)
       \/ Verdict("bound", "not_verified", 100)
       \/ \E g \in {"unsupported", "not_verified"}, f \in Scores \ {100} : Verdict("unbound", g, f)
    /\ trail' = [trail EXCEPT !.verifiedIn = s.iteration, !.verifiedFrom = GenerationDocs(s)]

\* _fact_verification_provider_fail_closed
VerifyUnavailable ==
    /\ Enter("verify_facts")
    /\ Verifiable(s)
    /\ Return([Skipped(s) EXCEPT !.verifyError = TRUE, !.route = "human"])
    /\ trail' = [trail EXCEPT !.outage = "verify"]

KnowledgeGap(t) == Cardinality(Kept(t)) < 2 \/ t.factuality < 50 \/ t.answer = "gap"

\* measure_retrieval_relevance: the scores of the documents, if they have any,
\* else the share of them that was kept.
Relevances(t) ==
    LET kept == 100 * Cardinality(t.graded)
        all  == Cardinality(t.context)
    IN  IF t.context = {} THEN {0}
        ELSE Scores \cup {r \in 0..100 : r * all <= kept /\ kept < (r + 1) * all}

Evaluate ==
    /\ Enter("evaluate")
    /\ \E q \in Scores \ {0}, r \in Relevances(s) :
          Return([s EXCEPT !.quality = q, !.relevance = r, !.judge = "ok", !.gap = KnowledgeGap(s)])
    /\ trail' = [trail EXCEPT !.judgedIn = s.iteration]

\* judge_fail_closed_fields: no independent judge, a failed call, no score in
\* its reply.
JudgeUnavailable ==
    /\ Enter("evaluate")
    /\ LET t == [s EXCEPT !.quality = 0, !.relevance = 0, !.grounding = "not_verified",
                          !.factuality = 0, !.judge = "broken"]
       IN  Return([t EXCEPT !.gap = KnowledgeGap(t)])
    /\ trail' = [trail EXCEPT !.outage = "judge"]

GroundingAllowsAuto(t) ==
    /\ ~t.gap
    /\ Kept(t) # {}
    /\ t.grounding = "verified"
    /\ t.claims # "none" => t.claims = "bound" /\ t.factuality >= MinFactuality

ScoresOk(t) == t.quality >= MinQuality /\ t.relevance >= MinRelevance

\* Mutant: a judge that failed is worth a retry.
Judged_Always(t) == TRUE

Judged(t) == t.judge # "broken"

MayRetry(t) == t.iteration < MaxIterations /\ ~(t.complexity = "simple" /\ t.skipped)

RouteOrRetry ==
    /\ Enter("route_or_retry")
    /\ Return([s EXCEPT !.route =
                  IF ~Judged(s) THEN "human"
                  ELSE IF ScoresOk(s) /\ GroundingAllowsAuto(s) THEN "auto"
                  ELSE IF MayRetry(s) THEN "retry" ELSE "human"])
    /\ UNCHANGED trail

\* Mutant: the iteration is not counted.
NextIteration_Same(t) == t.iteration

NextIteration(t) == t.iteration + 1

\* Everything of the last round is reset but its grounding, knowledge gap,
\* grade marker and judge.
RewriteQuery ==
    /\ Enter("rewrite_query")
    /\ Return([s EXCEPT !.iteration = NextIteration(s), !.context = {}, !.graded = {},
                        !.answer = "none", !.danger = {}, !.claims = "none", !.factuality = 0,
                        !.skipped = FALSE, !.verifyError = FALSE, !.quality = 0,
                        !.relevance = 0])
    /\ UNCHANGED trail

\* Mutant: only the answer is searched for injections.
Injected_AnswerOnly(t) == "injection" \in t.danger

Injected(t) == "injection" \in t.danger \/ Kept(t) \cap Poisoned # {}

Blank(t) == t.answer \in {"none", "blank"}

\* apply_pre_response_safety: refuse, else redact.
ResponseSafety ==
    /\ Enter("response_safety")
    /\ Return(IF Blank(s) THEN s
              ELSE IF Injected(s)
              THEN [s EXCEPT !.answer = "refusal", !.danger = {}, !.route = "human",
                             !.quality = 0, !.relevance = 0, !.grounding = "not_verified",
                             !.factuality = 0]
              ELSE [s EXCEPT !.danger = @ \ {"pii"}])
    /\ UNCHANGED trail

\* Follow-up questions; a failure leaves none.
SuggestQuestions ==
    /\ node = "suggest_questions"
    /\ Return(s)
    /\ UNCHANGED trail

Log ==
    /\ node = "log"
    /\ Return(s)
    /\ UNCHANGED trail

\* The last trace step of a request is not guarded.
TraceFails ==
    /\ node \in {"suggest_questions", "log"}
    /\ node' = "raised"
    /\ UNCHANGED <<s, trail>>

\* The ticket is durable or the message says it could not be registered.
HandleError ==
    /\ node = "handle_error"
    /\ Return([s EXCEPT !.answer = "escalation", !.danger = {}, !.route = "error_escalation"])
    /\ UNCHANGED trail

Next ==
    \/ PassOn \/ NodeFails \/ ClassifyComplexity \/ TransformQuery \/ Retrieve \/ RetrieveTooLate
    \/ GradeDocs \/ Generate \/ GenerateUnavailable \/ VerifySkips \/ VerifyFacts
    \/ VerifyUnavailable \/ Evaluate \/ JudgeUnavailable \/ RouteOrRetry \/ RewriteQuery
    \/ ResponseSafety \/ SuggestQuestions \/ Log \/ TraceFails \/ HandleError

Spec == Init /\ [][Next]_vars

\* Every call of a model, the retriever or the store returns or times out.
FairSpec == Spec /\ WF_vars(Next)

----------------------------------------------------------------------------
(* Properties.                                                             *)

Rounds == -1..MaxIterations

GraphStates ==
    [complexity : {"simple", "complex", "unknown"}, iteration : 0..MaxIterations,
     context : SUBSET Docs, graded : SUBSET Docs, gradeRan : BOOLEAN,
     answer : Answers, danger : SUBSET Dangers,
     claims : {"none", "bound", "unbound"}, factuality : 0..100,
     grounding : {"verified", "unsupported", "not_verified"}, skipped : BOOLEAN,
     verifyError : BOOLEAN, generationError : BOOLEAN, quality : 0..100,
     relevance : 0..100, gap : BOOLEAN, judge : {"ok", "broken"},
     route : {"none", "auto", "human", "retry", "error", "error_escalation"},
     error : BOOLEAN]

Trails ==
    [answeredIn : Rounds, answeredFrom : SUBSET Docs, verifiedIn : Rounds,
     verifiedFrom : SUBSET Docs, judgedIn : Rounds,
     outage : {"none", "generate", "verify", "judge"}, gateFailed : BOOLEAN]

\* Every field has its type, and no request retries more than MaxIterations times.
TypeOK == node \in Nodes /\ s \in GraphStates /\ trail \in Trails

\* An answer that is returned as "auto" was generated, verified and judged in
\* the last round, nothing of an earlier one counting; from two documents or
\* more, none of them poisoned; every claim of it bound to those very
\* documents; and it carries nothing the gate looks for.
AutoIsEarned ==
    node = "end" /\ s.route = "auto" =>
        /\ trail.answeredIn = s.iteration
        /\ trail.verifiedIn = s.iteration
        /\ trail.judgedIn = s.iteration
        /\ trail.verifiedFrom = trail.answeredFrom
        /\ ~(Cardinality(trail.answeredFrom) < 2)
        /\ trail.answeredFrom \cap Poisoned = {}
        /\ s.claims = "bound"
        /\ s.danger = {}
        /\ s.answer = "text"

\* A request that lost the generator, the verifier or the judge once is never
\* answered "auto", in that round or in a later one, and claims no grounding.
OutageFailsClosed ==
    node = "end" /\ trail.outage # "none" =>
        /\ s.route \in {"human", "error", "error_escalation"}
        /\ s.grounding = "not_verified"
        /\ trail.outage = "verify" /\ s.route = "human" => s.answer \in {"gap", "text", "refusal"}

\* An exception in any node but the gate ends as an escalation, whatever nodes
\* and edges lie between, and no escalation happens without one.
ErrorsEscalate ==
    node = "end" =>
        /\ s.error => s.route = "error_escalation" \/ (s.route = "error" /\ trail.gateFailed)
        /\ s.route = "error_escalation" => s.error /\ s.answer = "escalation"
        /\ s.route \notin {"none", "retry"}

\* An answer is generated only from documents its round's grader kept: what
\* was rejected, or left from an earlier round, is not used.
RejectedStaysOut ==
    node = "verify_facts" /\ ~s.error => trail.answeredFrom = s.graded

\* What holds of an answer that no person sees first: the state keeps its types, and "auto"
\* was earned in the last round.
GraphSafety == TypeOK /\ AutoIsEarned

\* Outages and exceptions end with a person, and rejected documents stay out, whatever the
\* rounds before were.
FailsClosed == OutageFailsClosed /\ ErrorsEscalate /\ RejectedStaysOut

\* Every request ends: the retry loop is bounded and no edge leads nowhere.
RequestEnds == <>(node \in Final)
=============================================================================
