---------------------------- MODULE AgenticAnswer ----------------------------
(***************************************************************************)
(* The agentic flow of one question: a pending action to confirm, else the *)
(* tool loop of a model, else the fixed ticket and order replies, else the *)
(* graph.  A reply that had documents of the knowledge base is measured:   *)
(* its citations are looked up in the documents found, a judge scores it,  *)
(* and only floors that are all met send it without a person.              *)
(*                                                                         *)
(* agent/graph.py (_run_agentic_flow, _run_provider_tool_loop), tools.py,  *)
(* agentic_measure.py, agentic_evaluate.py, judge_policy.py, grounding.py, *)
(* relevance.py, response_safety.py.                                       *)
(***************************************************************************)
EXTENDS Naturals, Sequences, SequencesExt, FiniteSets, NumberOrder

CONSTANTS
    Models,        \* models of the providers; a ProviderBackedLLM goes by its primary's
    ToolModels,    \* those that support tools
    NoModel,
    StandIn,       \* per model: the model of its wrapper's fallback provider, or NoModel
    Articles,      \* documents of the knowledge base, each with a text and a score
    SearchLimit,   \* documents a search keeps
    MaxToolLoops,  \* agent_max_tool_loops
    MaxToolCalls,  \* tool calls of one reply
    MaxFound,      \* bound: documents that all searches of the loop find together
    MaxCitation,   \* bound: highest number a reply cites
    MinQuality, MinFactuality, MinRelevance  \* the floors, in percent

Unscored == 101  \* a document without a retrieval score in its metadata

ASSUME AgenticAnswerAssumption ==
    /\ ToolModels \subseteq Models /\ NoModel \notin Models
    /\ StandIn \in [Models -> Models \union {NoModel}]
    /\ Articles \subseteq [text : {"plain", "blank", "injection"}, score : 0 .. Unscored]
    /\ {SearchLimit, MaxToolLoops, MaxToolCalls, MaxFound, MaxCitation} \subseteq Nat \ {0}
    /\ {MinQuality, MinFactuality, MinRelevance} \subseteq 1 .. 100

VARIABLES
    flow,   \* the flow: step, session's model, model of the loop, loops, calls left of the
            \* last reply, whether a tool has answered, documents found, searches that
            \* found some, length of the longest of them
    reply   \* what is handed to the session; of one that was measured also the models that
            \* answered for its writer (author) and for its judge (scorer)

agenticVars == <<flow, reply>>

NoReply == [kind |-> "none", route |-> "none", cited |-> {}, danger |-> {}, docs |-> <<>>,
            quality |-> 0, judge |-> NoModel, strict |-> FALSE, author |-> NoModel,
            scorer |-> NoModel]

AgenticInit ==
    /\ flow \in [step : {"pending", "select"}, own : Models \union {NoModel},
                 writer : {NoModel}, loops : {0}, calls : {0}, output : {FALSE},
                 kb : {<<>>}, searches : {0}, longest : {0}]
    /\ reply = NoReply

At(place) == flow.step = place

----------------------------------------------------------------------------
(* Models.                                                                 *)

\* build_provider_runtime may fail; it is asked again for every use.
Runtimes == {[fast |-> NoModel, strong |-> NoModel]} \union [fast : Models, strong : Models]

\* The first candidate that fits.
First(candidates, fitting) ==
    LET places == {i \in DOMAIN candidates : candidates[i] \in fitting} IN
    IF places = {} THEN NoModel
    ELSE candidates[CHOOSE i \in places : \A j \in places : i <= j]

\* _agentic_judge_candidates: what the runtime lacks is the generator's.
GeneratorOf(model, runtime) == IF model = NoModel THEN runtime.strong ELSE model

Candidates(generator, runtime) ==
    IF runtime.fast = NoModel THEN <<generator>> ELSE <<runtime.fast, runtime.strong>>

\* Mutant: any candidate will do, independent or not.
ResolveJudge_Any(generator, runtime, strict) == First(Candidates(generator, runtime), Models)

\* The models that may answer a call of m's wrapper: its own or, after a failure of
\* that provider or while the failover is remembered, the one of the fallback.
Answerers(m) == {m, StandIn[m]} \ {NoModel}

\* same_llm_identity compares the providers and names of the primaries.
Independent(generator) == Models \ {generator}

\* resolve_judge_llm: the first candidate, under the strict policy the first
\* that is not the wrapper the reply was asked from.
ResolveJudge(generator, runtime, strict) ==
    First(Candidates(generator, runtime), IF strict THEN Independent(generator) ELSE Models)

----------------------------------------------------------------------------
(* Measurement.                                                            *)

\* normalize_context_docs: documents without text are dropped, the others move up.
Context(kb) ==
    LET places == InOrder({i \in DOMAIN kb : kb[i].text # "blank"}) IN
    [n \in DOMAIN places |-> kb[places[n]]]

DocScores(docs) == SelectSeq([i \in DOMAIN docs |-> docs[i].score], LAMBDA x : x # Unscored)

Total(numbers) == FoldLeft(LAMBDA x, y : x + y, 0, numbers)

\* measure_retrieval_relevance, in thousandths: the rounded mean of the scores
\* there are, and all of it when there is none.
Relevance(docs) ==
    LET n == Len(DocScores(docs)) IN
    IF n = 0 THEN 1000 ELSE (20 * Total(DocScores(docs)) + n) \div (2 * n)

\* _claims_from_cited_docs: a number within the documents is a supported claim.
InRange(cited, docs) == cited \intersect (1 .. Len(docs))

Factuality(cited, docs) == (100 * Cardinality(InRange(cited, docs))) \div Cardinality(cited)

\* status_for_claims and grounding_allows_auto.
Grounded(cited, docs) ==
    /\ docs # <<>> /\ cited # {}
    /\ cited = InRange(cited, docs)
    /\ Factuality(cited, docs) >= MinFactuality

\* measure_agentic_terminal; quality 0 is an unmeasured one.
MeasuredRoute(cited, docs, quality) ==
    IF /\ Grounded(cited, docs)
       /\ quality >= MinQuality
       /\ Relevance(docs) >= 10 * MinRelevance
    THEN "auto" ELSE "agentic"

\* apply_pre_response_safety.  A question for confirmation is not searched for
\* injections; what is left of personal data is masked.
Secure(r) ==
    IF /\ r.kind # "confirm"
       /\ \/ "injection" \in r.danger
          \/ \E i \in DOMAIN r.docs : r.docs[i].text = "injection"
    THEN [r EXCEPT !.kind = "refusal", !.route = "human", !.cited = {}, !.danger = {},
                   !.quality = 0]
    ELSE [r EXCEPT !.danger = @ \ {"pii"}]

Hand(r) == reply' = Secure(r) /\ flow' = [flow EXCEPT !.step = "done"]

\* A reply with no documents behind it: _agentic_unmeasured_gate.
HandUnmeasured(kind, danger) ==
    Hand([NoReply EXCEPT !.kind = kind, !.route = "agentic", !.danger = danger])

\* evaluate_agentic_answer: the judge, the model that answers for it, and the
\* score.  The quality stays unmeasured when the setting turns the judge off,
\* when there is none, and when it fails or answers no number.
Evaluations(generator, runtime, strict) ==
    LET judge == ResolveJudge(generator, runtime, strict) IN
    {[judge |-> NoModel, scorer |-> NoModel, quality |-> 0]} \union
        (IF judge = NoModel THEN {}
         ELSE {[judge |-> judge, scorer |-> m, quality |-> q] :
                  m \in Answerers(judge), q \in {MinQuality - 1, MinQuality}})

\* _agentic_terminal_fields_with_eval; a reply without citations stays unmeasured.
HandMeasured(kind, cited, danger, kb, model, author) ==
    IF Context(kb) = <<>> THEN HandUnmeasured(kind, danger)
    ELSE \E runtime \in Runtimes, strict \in BOOLEAN :
         \E e \in Evaluations(GeneratorOf(model, runtime), runtime, strict) :
            LET quality == IF cited = {} THEN 0 ELSE e.quality IN
            Hand([kind |-> kind, cited |-> cited, danger |-> danger, docs |-> Context(kb),
                  quality |-> quality, judge |-> e.judge, strict |-> strict,
                  author |-> author, scorer |-> e.scorer,
                  route |-> MeasuredRoute(cited, Context(kb), quality)])

Citations == SUBSET (1 .. MaxCitation)
Dangerous == SUBSET {"injection", "pii"}

----------------------------------------------------------------------------
(* A pending action.                                                       *)

\* The user confirmed: create_ticket.
TicketCreated ==
    /\ At("pending")
    /\ \E d \in Dangerous : HandUnmeasured("ticket", d)

TicketCancelled == At("pending") /\ HandUnmeasured("cancelled", {})

\* The summary is the user's or the model's text.
ConfirmationAwaited ==
    /\ At("pending")
    /\ \E d \in Dangerous : HandUnmeasured("confirm", d)

----------------------------------------------------------------------------
(* The tool loop.                                                          *)

Go(place) == flow' = [flow EXCEPT !.step = place] /\ UNCHANGED reply

\* _select_agentic_llm: the session's model, else strong, else fast.
SelectModel ==
    /\ At("select")
    /\ \E runtime \in Runtimes :
          LET writer == First(<<flow.own, runtime.strong, runtime.fast>>, ToolModels)
          IN flow' = [flow EXCEPT !.writer = writer,
                                  !.step = IF writer = NoModel THEN "fixed" ELSE "loop"]
    /\ UNCHANGED reply

InLoop == At("loop") /\ flow.loops < MaxToolLoops

\* The model raises, or answers with an empty text.
ModelUnavailable == InLoop /\ Go("fixed")

ModelReplies ==
    /\ InLoop
    /\ \E cited \in Citations, d \in Dangerous, author \in Answerers(flow.writer) :
          HandMeasured("answer", cited, d, flow.kb, flow.writer, author)

ModelCallsTools ==
    /\ InLoop
    /\ \E n \in 1 .. MaxToolCalls :
          flow' = [flow EXCEPT !.step = "tools", !.calls = n, !.loops = @ + 1]
    /\ UNCHANGED reply

\* The next tool call of the reply is done.
Called(f) ==
    /\ At("tools")
    /\ flow' = [f EXCEPT !.calls = @ - 1, !.step = IF f.calls = 1 THEN "loop" ELSE "tools"]
    /\ UNCHANGED reply

FoundDocs == UNION {[1 .. n -> Articles] : n \in 0 .. SearchLimit}

\* search_kb_docs; every search numbers its excerpts from 1.
WithDocs(f, docs) ==
    [f EXCEPT !.kb = @ \o docs,
              !.searches = IF docs = <<>> THEN @ ELSE @ + 1,
              !.longest = IF Len(docs) > @ THEN Len(docs) ELSE @,
              !.output = TRUE]

CallSearch ==
    \E docs \in FoundDocs :
       Len(flow.kb) + Len(docs) <= MaxFound /\ Called(WithDocs(flow, docs))

CallOrderStatus == Called([flow EXCEPT !.output = TRUE])

\* A call without a name, or of a tool that does not exist, is skipped.
CallSkipped == Called(flow)

\* create_ticket only asks the user to confirm; the rest of the calls is dropped.
CallCreateTicket ==
    /\ At("tools")
    /\ \E d \in Dangerous : HandUnmeasured("confirm", d)

\* The excerpts put one after the other, with their numbers and whatever else
\* in brackets or dangerous they hold.
ExcerptCitations(f) == {1 .. f.longest \union c : c \in IF f.kb = <<>> THEN {{}} ELSE Citations}

ExcerptDangers(f) ==
    SUBSET ((IF \E i \in DOMAIN f.kb : f.kb[i].text = "injection" THEN {"injection"} ELSE {})
            \union {"pii"})

\* Out of loops: the answers of the tools are the reply.
LoopsExhausted ==
    /\ At("loop") /\ flow.loops = MaxToolLoops
    /\ IF flow.output
       THEN \E cited \in ExcerptCitations(flow), d \in ExcerptDangers(flow) :
               HandMeasured("fallback", cited, d, flow.kb, flow.writer, NoModel)
       ELSE Go("fixed")

----------------------------------------------------------------------------
(* The fixed replies.                                                      *)

\* The words of the question ask for a ticket or a person.
TicketIntent ==
    /\ At("fixed")
    /\ \E d \in Dangerous : HandUnmeasured("confirm", d)

\* An order number and its words; the search is for words of delivery.  What
\* the loop had found is forgotten.
OrderReply ==
    /\ At("fixed")
    /\ \E docs \in FoundDocs :
          LET found == WithDocs([flow EXCEPT !.kb = <<>>, !.longest = 0], docs) IN
          \E cited \in ExcerptCitations(found), d \in ExcerptDangers(found) :
             HandMeasured("order", cited, d, docs, flow.own, NoModel)

\* Anything else goes to the graph.
NotAgentic == At("fixed") /\ Go("graph")

\* A tool raises, or its deadline has passed: the flow ends without a reply.
ToolRaises == flow.step \in {"tools", "fixed", "pending"} /\ Go("raised")

AgenticNext ==
    \/ TicketCreated \/ TicketCancelled \/ ConfirmationAwaited
    \/ SelectModel \/ ModelUnavailable \/ ModelReplies \/ ModelCallsTools
    \/ CallSearch \/ CallOrderStatus \/ CallSkipped \/ CallCreateTicket \/ LoopsExhausted
    \/ TicketIntent \/ OrderReply \/ NotAgentic \/ ToolRaises

AgenticSpec == AgenticInit /\ [][AgenticNext]_agenticVars

----------------------------------------------------------------------------
(* Properties.                                                             *)

GoesOut == reply.route = "auto"

\* A reply goes out by itself only when it says what documents of this request say: every
\* number in it belongs to a document that has text and carries no instructions,
\* and nothing dangerous is left in it.
AutoIsCited ==
    GoesOut =>
        /\ reply.cited # {} /\ reply.danger = {}
        /\ \A n \in reply.cited :
              n \in DOMAIN reply.docs /\ reply.docs[n].text = "plain"
        /\ reply.kind \in {"answer", "fallback", "order"}

\* ... and only when a judge has scored it in this request.  Under the strict policy the
\* judge is not the wrapper that was asked for the reply, and author and scorer are the
\* same model only if a fallback provider answered for one of the two.
AutoIsJudged ==
    GoesOut =>
        /\ reply.judge # NoModel /\ reply.quality >= MinQuality
        /\ reply.strict /\ reply.kind = "answer" =>
              /\ reply.judge # flow.writer
              /\ reply.scorer = reply.author =>
                    reply.author = StandIn[flow.writer] \/ reply.scorer = StandIn[reply.judge]

\* The number the model saw at an excerpt is the number its document is
\* looked up by, as long as there was one search and no document was blank.
CitationsNameTheirDocs ==
    (/\ GoesOut /\ reply.kind = "answer" /\ flow.searches = 1
     /\ \A i \in DOMAIN flow.kb : flow.kb[i].text # "blank")
    => \A n \in reply.cited : n <= flow.longest /\ reply.docs[n] = flow.kb[n]

\* No reply carries an injected instruction or personal data, except that a
\* question for confirmation repeats what it is about.
DeliveredIsSafe ==
    /\ "pii" \notin reply.danger
    /\ reply.kind # "confirm" => reply.danger = {}

AgenticTypeOK ==
    /\ flow.kb \in Seq(Articles) /\ flow.calls \in 0 .. MaxToolCalls
    /\ flow.loops \in 0 .. MaxToolLoops
    /\ reply.route \in {"none", "agentic", "auto", "human"}

AgenticSafety ==
    /\ AgenticTypeOK
    /\ AutoIsCited
    /\ AutoIsJudged
    /\ CitationsNameTheirDocs
    /\ DeliveredIsSafe
=============================================================================
