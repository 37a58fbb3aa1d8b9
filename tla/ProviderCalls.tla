--------------------------- MODULE ProviderCalls ---------------------------
(***************************************************************************)
(* Calls of language models through a provider.  A request has a budget of *)
(* calls and tokens and a deadline, which its workers share: they are      *)
(* checked before a call, with an estimate of its prompt, and charged      *)
(* after it.  A primary provider that is unavailable is replaced by a      *)
(* local one, for all requests of the process and for a while.  The money  *)
(* spent today is checked when a request takes its runtime.                *)
(*                                                                         *)
(* llm/providers/base.py, runtime.py, gracekelly.py, mistral.py, ollama.py,*)
(* llm/request_budget.py, utils/request_deadline.py, agent/graph.py.       *)
(***************************************************************************)
EXTENDS Integers, FiniteSets

CONSTANTS
    Requests,     \* pipelines that take a runtime
    Workers,      \* threads of one request that share its budget (graph and stream)
    MaxCalls,     \* llm_max_calls_per_request; 0 is no limit, here and in the next three
    MaxInput,     \* llm_max_input_tokens_per_request
    MaxOutput,    \* llm_max_output_tokens_per_request
    MaxTotal,     \* llm_max_total_tokens_per_request
    CallInput,    \* bound: most tokens of a prompt
    CallOutput,   \* bound: most output tokens of one call
    BatchSize,    \* prompts of one generate_batch
    FailoverTTL,  \* failover_fallback_cache_seconds, in steps of the clock
    DailyLimit    \* daily_cost_limit_usd, in calls

ASSUME ProviderAssumption ==
    /\ {MaxCalls, MaxInput, MaxOutput, MaxTotal, CallInput, CallOutput} \subseteq Nat
    /\ BatchSize \in Nat \ {0} /\ FailoverTTL \in Nat \ {0} /\ DailyLimit \in Nat \ {0}
    /\ IsFiniteSet(Requests) /\ IsFiniteSet(Workers)

VARIABLES
    request,    \* per request: step, calls, input, output, expired, and (history) the
                \* size of the smallest prompt it was refused
    work,       \* per request and worker: what the worker is doing
    prompt,     \* per request and worker: the estimated size of its prompt
    primaryUp,  \* the primary provider answers
    failover,   \* time left in which the fallback is used at once
    excuse,     \* history: time since the primary was last unavailable, up to the TTL
    spent       \* cost recorded in the traces of today

providerVars == <<request, work, prompt, primaryUp, failover, excuse, spent>>

Prompts == 0..CallInput
NotRefused == CallInput + 1

ProviderInit ==
    /\ request = [r \in Requests |->
           [step |-> "new", calls |-> 0, input |-> 0, output |-> 0, expired |-> FALSE,
            refused |-> NotRefused]]
    /\ work = [r \in Requests |-> [w \in Workers |-> "idle"]]
    /\ prompt = [r \in Requests |-> [w \in Workers |-> 0]]
    /\ primaryUp = TRUE
    /\ failover = 0
    /\ excuse = FailoverTTL
    /\ spent = 0

----------------------------------------------------------------------------
(* build_provider_runtime *)

\* _enforce_daily_cost_limit, with the runtime in the cache or not
UnderDailyLimit == spent < DailyLimit

TakeRuntime(r) ==
    /\ request[r].step = "new"
    /\ request' = [request EXCEPT ![r].step = IF UnderDailyLimit THEN "open" ELSE "closed"]
    /\ UNCHANGED <<work, prompt, primaryUp, failover, excuse, spent>>

----------------------------------------------------------------------------
(* LLMRequestBudget *)

Within(limit, n) == limit = 0 \/ n <= limit

\* check_can_start_call, for a prompt of p tokens
CanStart(r, p) ==
    /\ Within(MaxCalls, request[r].calls + 1)
    /\ Within(MaxInput, request[r].input + p)
    /\ Within(MaxTotal, request[r].input + request[r].output + p)
    /\ Within(MaxOutput, request[r].output + 1)

\* check_request_deadline and _budget_precheck, at every entry and before a fallback
MayCall(r, p) == ~request[r].expired /\ CanStart(r, p)

Begin(r, w) == request[r].step = "open" /\ work[r][w] = "idle"

Set(r, w, s, p) ==
    /\ work' = [work EXCEPT ![r][w] = s]
    /\ prompt' = [prompt EXCEPT ![r][w] = p]

Stop(r, w) == Set(r, w, "idle", 0)

\* charge: n calls with i tokens in and o out; the trace step adds them to the day's cost.
Charge(r, n, i, o) ==
    /\ request' = [request EXCEPT ![r].calls = @ + n, ![r].input = @ + i, ![r].output = @ + o]
    /\ spent' = spent + n

\* The deadline, the calls and the output refuse every prompt, the other limits large ones.
NoteRefusal(r, p) ==
    request' = [request EXCEPT ![r].refused =
                   IF ~MayCall(r, 0) THEN 0 ELSE IF p < @ THEN p ELSE @]

\* A refused worker raises; many nodes catch the exception and go on with the request.
Refuse(r, w) ==
    /\ Begin(r, w)
    /\ \E p \in Prompts : ~MayCall(r, p) /\ NoteRefusal(r, p)
    /\ UNCHANGED <<work, prompt, primaryUp, failover, excuse, spent>>

----------------------------------------------------------------------------
(* ProviderBackedLLM.generate, generate_with_tools, generate_with_schema *)

StartGenerate(r, w) ==
    /\ Begin(r, w)
    /\ \E p \in Prompts :
          MayCall(r, p) /\ Set(r, w, IF failover > 0 THEN "fallback" ELSE "primary", p)
    /\ UNCHANGED <<request, primaryUp, failover, excuse, spent>>

\* Either provider answers, and reports the tokens it has counted itself.
ProviderAnswers(r, w) ==
    /\ \/ work[r][w] = "primary" /\ primaryUp
       \/ work[r][w] = "fallback"
    /\ Stop(r, w)
    /\ \E i \in Prompts, o \in 0..CallOutput : Charge(r, 1, i, o)
    /\ UNCHANGED <<primaryUp, failover, excuse>>

\* Mutant: the fallback starts without a second look at deadline and budget.
MayFailOver_Unchecked(r, w) == TRUE

MayFailOver(r, w) == MayCall(r, prompt[r][w])

\* ProviderUnavailable: the fallback is called and becomes the first choice for a while.
FailOver(r, w) ==
    /\ work[r][w] = "primary"
    /\ ~primaryUp
    /\ MayFailOver(r, w)
    /\ Set(r, w, "fallback", prompt[r][w])
    /\ failover' = FailoverTTL
    /\ excuse' = 0
    /\ UNCHANGED <<request, primaryUp, spent>>

\* The deadline has passed or the budget was used up meanwhile.
RefuseFailOver(r, w) ==
    /\ work[r][w] = "primary"
    /\ ~primaryUp
    /\ ~MayFailOver(r, w)
    /\ Stop(r, w)
    /\ NoteRefusal(r, prompt[r][w])
    /\ UNCHANGED <<primaryUp, failover, excuse, spent>>

\* Any other error reaches the caller, and the call is not charged.
CallFails(r, w) ==
    /\ work[r][w] \in {"primary", "fallback", "batch"}
    /\ Stop(r, w)
    /\ UNCHANGED <<request, primaryUp, failover, excuse, spent>>

----------------------------------------------------------------------------
(* generate_stream and generate_batch know no fallback. *)

\* A stream is charged when it starts, with the estimate of its prompt.
StartStream(r, w) ==
    /\ Begin(r, w)
    /\ \E p \in Prompts :
          MayCall(r, p) /\ Set(r, w, "stream", p) /\ Charge(r, 1, p, 0)
    /\ UNCHANGED <<primaryUp, failover, excuse>>

\* The stream ends, its provider fails, or the deadline passes between two chunks.
StreamStops(r, w) ==
    /\ work[r][w] = "stream"
    /\ Stop(r, w)
    /\ UNCHANGED <<request, primaryUp, failover, excuse, spent>>

\* Every prompt is checked before the batch, and none against the others: it starts when
\* the largest of them may.
StartBatch(r, w) ==
    /\ Begin(r, w)
    /\ \E p \in Prompts : MayCall(r, p) /\ Set(r, w, "batch", p)
    /\ UNCHANGED <<request, primaryUp, failover, excuse, spent>>

BatchAnswers(r, w) ==
    /\ work[r][w] = "batch"
    /\ primaryUp
    /\ Stop(r, w)
    /\ \E i \in 0..(BatchSize * CallInput), o \in 0..(BatchSize * CallOutput) :
          Charge(r, BatchSize, i, o)
    /\ UNCHANGED <<primaryUp, failover, excuse>>

----------------------------------------------------------------------------

DeadlinePasses(r) ==
    /\ request[r].step = "open"
    /\ ~request[r].expired
    /\ request' = [request EXCEPT ![r].expired = TRUE]
    /\ UNCHANGED <<work, prompt, primaryUp, failover, excuse, spent>>

EndRequest(r) ==
    /\ request[r].step = "open"
    /\ \A w \in Workers : work[r][w] = "idle"
    /\ request' = [request EXCEPT ![r].step = "closed"]
    /\ UNCHANGED <<work, prompt, primaryUp, failover, excuse, spent>>

FailoverTick ==
    /\ failover > 0 \/ excuse < FailoverTTL
    /\ failover' = IF failover > 0 THEN failover - 1 ELSE 0
    /\ excuse' = IF excuse < FailoverTTL THEN excuse + 1 ELSE excuse
    /\ UNCHANGED <<request, work, prompt, primaryUp, spent>>

FlipPrimary ==
    /\ primaryUp' = ~primaryUp
    /\ UNCHANGED <<request, work, prompt, failover, excuse, spent>>

Serve(r, w) ==
    \/ StartGenerate(r, w) \/ ProviderAnswers(r, w) \/ FailOver(r, w)
    \/ RefuseFailOver(r, w) \/ CallFails(r, w) \/ StartStream(r, w) \/ StreamStops(r, w)
    \/ StartBatch(r, w) \/ BatchAnswers(r, w) \/ Refuse(r, w)

ProviderNext ==
    \/ \E r \in Requests : TakeRuntime(r) \/ DeadlinePasses(r) \/ EndRequest(r)
    \/ \E r \in Requests, w \in Workers : Serve(r, w)
    \/ FailoverTick \/ FlipPrimary

ProviderSpec == ProviderInit /\ [][ProviderNext]_providerVars

----------------------------------------------------------------------------
(* Properties *)

ProviderTypeOK ==
    /\ \A r \in Requests :
          /\ request[r].step \in {"new", "open", "closed"}
          /\ {request[r].calls, request[r].input, request[r].output} \subseteq Nat
          /\ request[r].refused \in 0..NotRefused
    /\ work \in [Requests -> [Workers -> {"idle", "primary", "fallback", "stream", "batch"}]]
    /\ prompt \in [Requests -> [Workers -> Prompts]]
    /\ failover \in 0..FailoverTTL
    /\ excuse \in 0..FailoverTTL
    /\ spent \in Nat

\* The calls that workers will charge for what they have under way; a stream is paid for.
UnderWay(doing) ==
    Cardinality({w \in Workers : doing[w] \in {"primary", "fallback"}})
        + BatchSize * Cardinality({w \in Workers : doing[w] = "batch"})

\* The budget is checked before and charged after a call, by workers side by side: it
\* is overrun by what they have under way at that moment and by no more.
OverrunBounded ==
    MaxCalls > 0 => \A r \in Requests :
        request[r].calls + UnderWay(work[r]) <= MaxCalls - 1 + BatchSize * Cardinality(Workers)

\* Once a prompt was refused for the budget, no worker of the request starts a call, a
\* fallback, a stream or a batch with one as large, although nodes swallow the refusal and
\* go on; and none starts anything once the deadline, the calls or the output refused it.
RefusalIsFinal ==
    [][\A r \in Requests, w \in Workers :
          work'[r][w] \notin {work[r][w], "idle"} => prompt'[r][w] < request[r].refused]_providerVars

\* The fallback is used at once only within the time to live of a failure that some
\* request really met, so a primary that recovered is tried again.
FallbackExcused == failover > 0 => excuse < FailoverTTL

\* What a request spends beyond its calls is bounded, a refused prompt is not sent later,
\* and the fallback needs a failure (ProviderRuntime, request_budget).
ProviderSafety ==
    /\ [](ProviderTypeOK /\ OverrunBounded /\ FallbackExcused)
    /\ RefusalIsFinal
=============================================================================
