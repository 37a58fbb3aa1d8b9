---------------------------- MODULE AskCapacity ----------------------------
(***************************************************************************)
(* Who may run a pipeline, and who gives the permission back.  A request   *)
(* takes one slot of a semaphore on the event loop, hands its work to a    *)
(* thread of the request executor, and stops waiting after a deadline or   *)
(* when its client goes away; the thread cannot be stopped.                *)
(*                                                                         *)
(* api/routers/conversation.py, services/pipeline.py,                      *)
(* utils/request_executor.py, and the parts of agent/graph.py and          *)
(* api/routers/session_auth.py where a thread and the event loop wait for  *)
(* each other.                                                             *)
(***************************************************************************)
EXTENDS Naturals, FiniteSets

CONSTANTS
    Asks,           \* requests to /api/ask and /api/ask/stream
    Dialogs,        \* conversation sessions
    MaxPipelines,   \* settings.max_concurrent_pipelines
    PoolSize,       \* threads of the request executor
    Evaluators      \* settings.online_evaluators_enabled

ASSUME CapacityAssumption ==
    /\ MaxPipelines \in Nat \ {0}
    /\ PoolSize \in Nat \ {0}
    /\ IsFiniteSet(Asks)
    /\ Evaluators \in BOOLEAN

NoOne == "no one"

VARIABLES
    kind,     \* "ask", "parity" (stream of the graph's events), "direct" (stream of a model)
    dialog,   \* the session of the request
    phase,    \* what the handler does on the event loop
    slot,     \* who owes the release of the slot: "none", "handler", "callback"
    free,     \* value of the semaphore
    job,      \* the work on the request executor
    turn,     \* ConversationSession._busy: who has the turn of a session
    loop,     \* "free", or the session whose clear() blocks the event loop
    gone      \* clients that disconnected

capacityVars == <<kind, dialog, phase, slot, free, job, turn, loop, gone>>

Kinds == {"ask", "parity", "direct"}

Phases == {"new", "acquiring", "waiting", "streaming", "fallback", "done"}

Jobs == {"none", "queued", "started", "asking", "evaluating", "finished"}

\* A thread of the executor is at work for the request.
OnThread(r) == job[r] \in {"started", "asking", "evaluating"}

Live(r) == job[r] = "queued" \/ OnThread(r)

CapacityInit ==
    /\ kind = [r \in Asks |-> "ask"]
    /\ dialog \in [Asks -> Dialogs]
    /\ phase = [r \in Asks |-> "new"]
    /\ slot = [r \in Asks |-> "none"]
    /\ free = MaxPipelines
    /\ job = [r \in Asks |-> "none"]
    /\ turn = [d \in Dialogs |-> NoOne]
    /\ loop = "free"
    /\ gone = {}

----------------------------------------------------------------------------
(* Steps of the handlers, on the event loop. *)

Arrive(r, k) ==
    /\ loop = "free"
    /\ phase[r] = "new"
    /\ kind' = [kind EXCEPT ![r] = k]
    /\ phase' = [phase EXCEPT ![r] = "acquiring"]
    /\ UNCHANGED <<dialog, slot, free, job, turn, loop, gone>>

\* The semaphore is acquired.  An ask and a stream with parity go to the executor, a
\* direct stream reads the model's tokens on the loop.
AdmitAsk(r) ==
    /\ loop = "free"
    /\ phase[r] = "acquiring"
    /\ free > 0
    /\ free' = free - 1
    /\ slot' = [slot EXCEPT ![r] = "handler"]
    /\ IF kind[r] = "direct"
       THEN /\ phase' = [phase EXCEPT ![r] = "streaming"]
            /\ UNCHANGED job
       ELSE /\ phase' = [phase EXCEPT ![r] = "waiting"]
            /\ job' = [job EXCEPT ![r] = "queued"]
    /\ UNCHANGED <<kind, dialog, turn, loop, gone>>

\* pipeline_acquire_timeout_sec passes first: 503, or an error event.
RejectBusy(r) ==
    /\ loop = "free"
    /\ phase[r] = "acquiring"
    /\ free = 0
    /\ phase' = [phase EXCEPT ![r] = "done"]
    /\ UNCHANGED <<kind, dialog, slot, free, job, turn, loop, gone>>

\* Mutant: the handler that timed out releases as well as the callback.
Release_Unowned(r) ==
    /\ free' = free + 1
    /\ slot' = [slot EXCEPT ![r] = IF @ = "callback" THEN "handler" ELSE "none"]

\* PipelineRunner.release_capacity
Release(r) ==
    /\ free' = free + 1
    /\ slot' = [slot EXCEPT ![r] = "none"]

\* The result of the executor arrives within the deadline.
CollectAnswer(r) ==
    /\ loop = "free"
    /\ phase[r] \in {"waiting", "fallback"}
    /\ job[r] = "finished"
    /\ phase' = [phase EXCEPT ![r] = "done"]
    /\ Release(r)
    /\ UNCHANGED <<kind, dialog, job, turn, loop, gone>>

\* hold_capacity_until_future_done: the slot now belongs to the future's callback.
HandOver(r) ==
    /\ slot' = [slot EXCEPT ![r] = "callback"]
    /\ UNCHANGED free

\* wait_for expires, and the shielded future goes on.
OuterTimeout(r) ==
    /\ loop = "free"
    /\ phase[r] = "waiting"
    /\ job[r] # "finished"
    /\ phase' = [phase EXCEPT ![r] = "done"]
    /\ HandOver(r)
    /\ UNCHANGED <<kind, dialog, job, turn, loop, gone>>

\* The callback of a future whose handler has left, scheduled on the event loop.
OrphanDone(r) ==
    /\ loop = "free"
    /\ slot[r] = "callback"
    /\ job[r] = "finished"
    /\ Release(r)
    /\ UNCHANGED <<kind, dialog, phase, job, turn, loop, gone>>

\* The token loop of a direct stream comes to its end, or to streaming_timeout_sec.
StreamEnds(r) ==
    /\ loop = "free"
    /\ phase[r] = "streaming"
    /\ phase' = [phase EXCEPT ![r] = "done"]
    /\ Release(r)
    /\ UNCHANGED <<kind, dialog, job, turn, loop, gone>>

\* Any exception of a direct stream: the whole pipeline runs instead, and is awaited
\* without a deadline.
FallBack(r) ==
    /\ loop = "free"
    /\ phase[r] = "streaming"
    /\ phase' = [phase EXCEPT ![r] = "fallback"]
    /\ job' = [job EXCEPT ![r] = "queued"]
    /\ UNCHANGED <<kind, dialog, slot, free, turn, loop, gone>>

\* The client of a stream goes away and the generator's finally runs.  It hands the
\* slot over only for graph_task, which the fallback has not assigned; a queued
\* fallback is cancelled with the await.
Disconnect(r) ==
    /\ loop = "free"
    /\ kind[r] \in {"parity", "direct"}
    /\ phase[r] \in {"acquiring", "waiting", "streaming", "fallback"}
    /\ phase' = [phase EXCEPT ![r] = "done"]
    /\ gone' = gone \cup {r}
    /\ CASE phase[r] = "acquiring" -> UNCHANGED <<slot, free>>
         [] phase[r] = "waiting" /\ job[r] # "finished" -> HandOver(r)
         [] OTHER -> Release(r)
    /\ job' = [job EXCEPT ![r] = IF phase[r] = "fallback" /\ @ = "queued" THEN "none" ELSE @]
    /\ UNCHANGED <<kind, dialog, turn, loop>>

----------------------------------------------------------------------------
(* Steps of the executor's threads. *)

StartJob(r) ==
    /\ job[r] = "queued"
    /\ Cardinality({q \in Asks : OnThread(q)}) < PoolSize
    /\ job' = [job EXCEPT ![r] = "started"]
    /\ UNCHANGED <<kind, dialog, phase, slot, free, turn, loop, gone>>

\* ConversationSession._acquire_turn
AcquireTurn(r) ==
    /\ job[r] = "started"
    /\ turn[dialog[r]] = NoOne
    /\ turn' = [turn EXCEPT ![dialog[r]] = r]
    /\ job' = [job EXCEPT ![r] = "asking"]
    /\ UNCHANGED <<kind, dialog, phase, slot, free, loop, gone>>

\* ConversationSession._release_turn
LeaveTurn(r) ==
    /\ turn' = [turn EXCEPT ![dialog[r]] = NoOne]
    /\ job' = [job EXCEPT ![r] = "finished"]

\* The graph has ended.  run_qa_pipeline then sends its evaluations to the event loop
\* and waits for them, still in the turn; the event stream of the graph does not.
PipelineEnds(r) ==
    /\ job[r] = "asking"
    /\ IF Evaluators /\ kind[r] # "parity"
       THEN /\ job' = [job EXCEPT ![r] = "evaluating"]
            /\ UNCHANGED turn
       ELSE LeaveTurn(r)
    /\ UNCHANGED <<kind, dialog, phase, slot, free, loop, gone>>

\* The coroutine of the evaluations runs on the event loop.
EvaluationsPersisted(r) ==
    /\ loop = "free"
    /\ job[r] = "evaluating"
    /\ LeaveTurn(r)
    /\ UNCHANGED <<kind, dialog, phase, slot, free, loop, gone>>

\* Mutant: the thread waits for its evaluations without a timeout.
EvaluationsTimeout_Never(r) ==
    /\ FALSE
    /\ UNCHANGED capacityVars

\* fut.result(timeout): the thread goes on without them.
EvaluationsTimeout(r) ==
    /\ job[r] = "evaluating"
    /\ LeaveTurn(r)
    /\ UNCHANGED <<kind, dialog, phase, slot, free, loop, gone>>

----------------------------------------------------------------------------
(* DELETE /sessions/{id} calls clear(), which waits for the turn on the loop. *)

ClearSession(d) ==
    /\ loop = "free"
    /\ turn[d] # NoOne
    /\ loop' = d
    /\ UNCHANGED <<kind, dialog, phase, slot, free, job, turn, gone>>

ClearReturns(d) ==
    /\ loop = d
    /\ turn[d] = NoOne
    /\ loop' = "free"
    /\ UNCHANGED <<kind, dialog, phase, slot, free, job, turn, gone>>

----------------------------------------------------------------------------

HandlerStep(r) ==
    \/ AdmitAsk(r) \/ RejectBusy(r) \/ CollectAnswer(r) \/ OrphanDone(r)
    \/ StreamEnds(r) \/ OuterTimeout(r)

ThreadStep(r) ==
    \/ StartJob(r) \/ AcquireTurn(r) \/ PipelineEnds(r)
    \/ EvaluationsPersisted(r) \/ EvaluationsTimeout(r)

CapacityNext ==
    \/ \E r \in Asks, k \in Kinds : Arrive(r, k)
    \/ \E r \in Asks : HandlerStep(r) \/ ThreadStep(r) \/ FallBack(r) \/ Disconnect(r)
    \/ \E d \in Dialogs : ClearSession(d) \/ ClearReturns(d)

CapacitySpec == CapacityInit /\ [][CapacityNext]_capacityVars

\* The event loop, the threads and their timers make progress: every coroutine that is
\* ready is run, and a graph ends because its model calls have deadlines.
CapacityFairness ==
    /\ \A r \in Asks : WF_capacityVars(HandlerStep(r)) /\ WF_capacityVars(ThreadStep(r))
    /\ \A d \in Dialogs : WF_capacityVars(ClearReturns(d))

----------------------------------------------------------------------------
(* Properties *)

CapacityTypeOK ==
    /\ kind \in [Asks -> Kinds]
    /\ dialog \in [Asks -> Dialogs]
    /\ phase \in [Asks -> Phases]
    /\ slot \in [Asks -> {"none", "handler", "callback"}]
    /\ free \in 0..MaxPipelines
    /\ job \in [Asks -> Jobs]
    /\ turn \in [Dialogs -> Asks \cup {NoOne}]
    /\ loop \in {"free"} \cup Dialogs
    /\ gone \in SUBSET Asks

\* Every slot that is not free is owed by exactly one party, so none leaks and none is
\* released twice, whichever of result, timeout, disconnect and callback comes first.
SlotsConserved ==
    free + Cardinality({r \in Asks : slot[r] # "none"}) = MaxPipelines

\* Work on the executor has a slot until it really finishes.  The one exception the
\* code makes is the fallback of a direct stream whose client has gone.
WorkHoldsSlot ==
    \A r \in Asks :
        Live(r) => slot[r] # "none" \/ (kind[r] = "direct" /\ r \in gone)

\* A slot comes back although deadlines pass, clients leave and clear() stops the loop.
SlotComesBack == \A r \in Asks : slot[r] # "none" ~> slot[r] = "none"

\* The loop waits in clear() for a turn whose thread may be waiting for the loop: the
\* timeout of the evaluations ends that circle.
LoopComesBack == loop # "free" ~> loop = "free"

\* Capacity is neither lost nor given out twice, and work that runs has it
\* (PipelineRunner, ask).
CapacitySafety ==
    /\ CapacityTypeOK
    /\ SlotsConserved
    /\ WorkHoldsSlot

\* Neither a slot nor the event loop is lost for good, whoever times out, leaves or waits for
\* whom (hold_capacity_until_future_done, run_qa_pipeline).
CapacityComesBack == SlotComesBack /\ LoopComesBack
=============================================================================
