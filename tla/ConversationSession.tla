------------------------ MODULE ConversationSession ------------------------
(***************************************************************************)
(* One ConversationSession (agent/graph.py) in agentic mode, used by       *)
(* several threads: exclusive turns with a monotonic epoch, the optimistic *)
(* version of a client, the history, the action that waits for the user's  *)
(* confirmation, and the wall budget that lets a caller go on while its    *)
(* worker, an orphan from then on, still runs.                             *)
(*                                                                         *)
(* A caller and its worker thread have one name, an element of Asks; the   *)
(* action an ask proposes has the name of that ask.  A budgeted ask hands  *)
(* its work to the request executor; any other runs it on its own thread.  *)
(* Every critical section of the session's lock is one step.               *)
(***************************************************************************)
EXTENDS Integers, Sequences

CONSTANTS
    Asks,
    Budgeted,     \* asks with RAG_ASK_BUDGET_SEC, off the request executor
    None,
    MaxHistory,   \* max_history
    MaxClears     \* bound: calls of clear()

ASSUME ConstantsAssumption ==
    /\ Budgeted \subseteq Asks
    /\ None \notin Asks
    /\ MaxHistory \in Nat \ {0}
    /\ MaxClears \in Nat

VARIABLES
    busy, epoch, active, history, pending,
                \* the session: _busy, _mutation_epoch, _active_turn (0: none),
                \* _history (an ask is its question and answer),
                \* _pending_action (the ask that proposed it)
    pc, turn, outcome, version,
                \* the caller: where it is, its turn (0: none), what it
                \* returns and the session_version it returns with
    confirm, replyTo, expected,
                \* the call: its answer to the confirmation, the ask whose
                \* result it replies to (None: unknown), the version it sends
    run, snap, subject, result,
                \* the worker: where it is, pending_snapshot, the action it
                \* shows or executes, the state it produces
    ticket,     \* the action whose ticket this ask has created
    cleared, clears
                \* the epoch clear() left, how often it was called

sessionVars == <<busy, epoch, active, history, pending>>
callVars    == <<confirm, replyTo, expected>>
workVars    == <<run, snap, subject, result, ticket>>
vars == <<sessionVars, pc, turn, outcome, version, callVars, workVars, cleared, clears>>

NoVersion == -1

Holding == {"running", "invalidate", "append", "stamp", "release"}

Places == {"new", "waiting", "conflict", "done"} \cup Holding

RunPlaces == {"none", "submitted", "looked", "ticket", "finish", "done"}

Results == {"none", "answer", "confirm", "ticket", "cancelled", "deadline", "raised"}

Outcomes == Results \cup {"wall", "conflict"}

\* error_node = "wall_budget": overrun by the caller's clock or the worker's.
TimedOut == {"wall", "deadline"}

----------------------------------------------------------------------------

Init ==
    /\ busy = FALSE
    /\ epoch = 0
    /\ active = 0
    /\ history = <<>>
    /\ pending = None
    /\ pc = [a \in Asks |-> "new"]
    /\ turn = [a \in Asks |-> 0]
    /\ outcome = [a \in Asks |-> "none"]
    /\ version = [a \in Asks |-> NoVersion]
    /\ confirm = [a \in Asks |-> "none"]
    /\ replyTo = [a \in Asks |-> None]
    /\ expected = [a \in Asks |-> NoVersion]
    /\ run = [a \in Asks |-> "none"]
    /\ snap = [a \in Asks |-> None]
    /\ subject = [a \in Asks |-> None]
    /\ result = [a \in Asks |-> "none"]
    /\ ticket = [a \in Asks |-> None]
    /\ cleared = 0
    /\ clears = 0

----------------------------------------------------------------------------
(* The caller.                                                             *)

Goto(a, place) == pc' = [pc EXCEPT ![a] = place]

\* A client asks, confirms or declines: without a version, or with the one
\* of an earlier result that it replies to.
Call(a) ==
    /\ pc[a] = "new"
    /\ \E c \in {"none", "yes", "no"},
         b \in {None} \cup {d \in Asks : pc[d] = "done" /\ version[d] # NoVersion} :
          /\ confirm' = [confirm EXCEPT ![a] = c]
          /\ replyTo' = [replyTo EXCEPT ![a] = b]
          /\ expected' = [expected EXCEPT ![a] = IF b = None THEN NoVersion ELSE version[b]]
    /\ Goto(a, "waiting")
    /\ UNCHANGED <<sessionVars, turn, outcome, version, workVars, cleared, clears>>

VersionMatches(a) == expected[a] = NoVersion \/ expected[a] = epoch

\* _acquire_turn once the session is not busy; the worker is submitted or starts.
AcquireTurn(a) ==
    /\ pc[a] = "waiting"
    /\ ~busy
    /\ VersionMatches(a)
    /\ busy' = TRUE
    /\ epoch' = epoch + 1
    /\ active' = epoch + 1
    /\ turn' = [turn EXCEPT ![a] = epoch + 1]
    /\ run' = [run EXCEPT ![a] = "submitted"]
    /\ Goto(a, "running")
    /\ UNCHANGED <<history, pending, outcome, version, callVars, snap, subject, result, ticket,
                   cleared, clears>>

RefuseVersion(a) ==
    /\ pc[a] = "waiting"
    /\ ~busy
    /\ ~VersionMatches(a)
    /\ outcome' = [outcome EXCEPT ![a] = "conflict"]
    /\ Goto(a, "conflict")
    /\ UNCHANGED <<sessionVars, turn, version, callVars, workVars, cleared, clears>>

\* _version_conflict_state reads the version anew, for the client to retry with.
ReportConflict(a) ==
    /\ pc[a] = "conflict"
    /\ version' = [version EXCEPT ![a] = epoch]
    /\ Goto(a, "done")
    /\ UNCHANGED <<sessionVars, turn, outcome, callVars, workVars, cleared, clears>>

\* Where the caller goes with what it got.  An exception skips to the finally.
Proceed(a, o) ==
    /\ outcome' = [outcome EXCEPT ![a] = o]
    /\ Goto(a, IF o \in TimedOut THEN "invalidate" ELSE IF o = "raised" THEN "release" ELSE "append")

\* The worker is done in time.  A TimeoutError it raised cannot be told from
\* the wait's own.
CollectResult(a) ==
    /\ pc[a] = "running"
    /\ run[a] = "done"
    /\ \/ Proceed(a, result[a])
       \/ a \in Budgeted /\ result[a] = "raised" /\ Proceed(a, "wall")
    /\ UNCHANGED <<sessionVars, turn, version, callVars, workVars, cleared, clears>>

\* Mutant: the wait for the worker has no timeout.
MayOverrun_Never(a) == FALSE

MayOverrun(a) == a \in Budgeted

\* _run_within_budget times out.  The worker is not cancelled, even if it is
\* still queued.
OverrunBudget(a) ==
    /\ pc[a] = "running"
    /\ MayOverrun(a)
    /\ run[a] # "done"
    /\ Proceed(a, "wall")
    /\ UNCHANGED <<sessionVars, turn, version, callVars, workVars, cleared, clears>>

\* The epoch moves on, so that a write with the old turn is stale, and what
\* the worker has proposed so far is dropped.
InvalidateTurn(a) ==
    /\ pc[a] = "invalidate"
    /\ epoch' = IF epoch = turn[a] THEN epoch + 1 ELSE epoch
    /\ pending' = None
    /\ Goto(a, "append")
    /\ UNCHANGED <<busy, active, history, turn, outcome, version, callVars, workVars, cleared,
                   clears>>

\* Mutant: an answer given after the budget is not recorded.
MayAppend_CurrentOnly(a) == turn[a] = epoch

\* A late answer is forced; any other is discarded unless its turn is current.
MayAppend(a) == outcome[a] \in TimedOut \/ turn[a] = epoch

\* The newest MaxHistory pairs.
Truncate(h) == IF Len(h) > MaxHistory THEN SubSeq(h, Len(h) - MaxHistory + 1, Len(h)) ELSE h

AppendHistory(a) ==
    /\ pc[a] = "append"
    /\ history' = IF MayAppend(a) THEN Truncate(Append(history, a)) ELSE history
    /\ Goto(a, "stamp")
    /\ UNCHANGED <<busy, epoch, active, pending, turn, outcome, version, callVars, workVars,
                   cleared, clears>>

StampVersion(a) ==
    /\ pc[a] = "stamp"
    /\ version' = [version EXCEPT ![a] = epoch]
    /\ Goto(a, "release")
    /\ UNCHANGED <<sessionVars, turn, outcome, callVars, workVars, cleared, clears>>

ReleaseTurn(a) ==
    /\ pc[a] = "release"
    /\ active' = IF active = turn[a] THEN 0 ELSE active
    /\ busy' = FALSE
    /\ Goto(a, "done")
    /\ UNCHANGED <<epoch, history, pending, turn, outcome, version, callVars, workVars, cleared,
                   clears>>

EpochAfterClear == epoch + 1

\* clear(), by the deletion of the session: it waits for the turn's end.
Clear ==
    /\ clears < MaxClears
    /\ ~busy
    /\ epoch' = EpochAfterClear
    /\ active' = 0
    /\ history' = <<>>
    /\ pending' = None
    /\ cleared' = EpochAfterClear
    /\ clears' = clears + 1
    /\ UNCHANGED <<busy, pc, turn, outcome, version, callVars, workVars>>

----------------------------------------------------------------------------
(* The worker: _run_agentic_flow, then run_qa_pipeline.                    *)

\* _set_pending_action and _take_pending_action are called without a turn:
\* they go by the turn that is active now, whosever it is.
WriteAllowed == active # 0 /\ active = epoch

Advance(a, place) == run' = [run EXCEPT ![a] = place]

\* The worker is done with its result, but for the trace it has to close.
Produce(a, r) == result' = [result EXCEPT ![a] = r] /\ Advance(a, "finish")

LookAtPending(a) ==
    /\ run[a] = "submitted"
    /\ snap' = [snap EXCEPT ![a] = pending]
    /\ Advance(a, "looked")
    /\ UNCHANGED <<sessionVars, pc, turn, outcome, version, callVars, subject, result, ticket,
                   cleared, clears>>

\* Mutant: the action stays pending while its ticket is created.
PendingAfterTake_Kept == pending

PendingAfterTake == IF WriteAllowed THEN None ELSE pending

\* A confirmed action is taken; when nothing can be taken, the snapshot is used.
TakePending(a) ==
    /\ run[a] = "looked"
    /\ snap[a] # None
    /\ confirm[a] = "yes"
    /\ subject' = [subject EXCEPT ![a] = IF WriteAllowed /\ pending # None THEN pending ELSE snap[a]]
    /\ pending' = PendingAfterTake
    /\ Advance(a, "ticket")
    /\ UNCHANGED <<busy, epoch, active, history, pc, turn, outcome, version, callVars, snap,
                   result, ticket, cleared, clears>>

CreateTicket(a) ==
    /\ run[a] = "ticket"
    /\ ticket' = [ticket EXCEPT ![a] = subject[a]]
    /\ Produce(a, "ticket")
    /\ UNCHANGED <<sessionVars, pc, turn, outcome, version, callVars, snap, subject, cleared,
                   clears>>

CancelPending(a) ==
    /\ run[a] = "looked"
    /\ snap[a] # None
    /\ confirm[a] = "no"
    /\ pending' = IF WriteAllowed THEN None ELSE pending
    /\ Produce(a, "cancelled")
    /\ UNCHANGED <<busy, epoch, active, history, pc, turn, outcome, version, callVars, snap,
                   subject, ticket, cleared, clears>>

\* Without an answer the pending action is shown again.
AskAgain(a) ==
    /\ run[a] = "looked"
    /\ snap[a] # None
    /\ confirm[a] = "none"
    /\ subject' = [subject EXCEPT ![a] = snap[a]]
    /\ Produce(a, "confirm")
    /\ UNCHANGED <<sessionVars, pc, turn, outcome, version, callVars, snap, ticket, cleared, clears>>

\* A tool call, or the question itself, wants a ticket: the user is asked,
\* also when the pending action could not be written.
ProposeAction(a) ==
    /\ run[a] = "looked"
    /\ snap[a] = None
    /\ pending' = IF WriteAllowed THEN a ELSE pending
    /\ subject' = [subject EXCEPT ![a] = a]
    /\ Produce(a, "confirm")
    /\ UNCHANGED <<busy, epoch, active, history, pc, turn, outcome, version, callVars, snap,
                   ticket, cleared, clears>>

\* The tools, or run_qa_pipeline, answer; also the state of an exhausted LLM budget.
AnswerQuestion(a) ==
    /\ run[a] = "looked"
    /\ snap[a] = None
    /\ Produce(a, "answer")
    /\ UNCHANGED <<sessionVars, pc, turn, outcome, version, callVars, snap, subject, ticket,
                   cleared, clears>>

\* RequestDeadlineExceeded from a tool or a retrieval becomes a timed-out state.
HitDeadline(a) ==
    /\ run[a] = "ticket" \/ (run[a] = "looked" /\ snap[a] = None)
    /\ result' = [result EXCEPT ![a] = "deadline"]
    /\ Advance(a, "done")
    /\ UNCHANGED <<sessionVars, pc, turn, outcome, version, callVars, snap, subject, ticket,
                   cleared, clears>>

\* Any other exception, also of the trace store after all else is done, or of
\* the ticket store after it has committed.
WorkerRaises(a) ==
    /\ run[a] \in {"submitted", "looked", "ticket", "finish"}
    /\ result' = [result EXCEPT ![a] = "raised"]
    /\ ticket' \in {ticket, [ticket EXCEPT ![a] = IF run[a] = "ticket" THEN subject[a] ELSE @]}
    /\ Advance(a, "done")
    /\ UNCHANGED <<sessionVars, pc, turn, outcome, version, callVars, snap, subject, cleared,
                   clears>>

FinishTrace(a) ==
    /\ run[a] = "finish"
    /\ Advance(a, "done")
    /\ UNCHANGED <<sessionVars, pc, turn, outcome, version, callVars, snap, subject, result,
                   ticket, cleared, clears>>

----------------------------------------------------------------------------

CallerStep(a) ==
    \/ AcquireTurn(a) \/ RefuseVersion(a) \/ ReportConflict(a) \/ CollectResult(a)
    \/ OverrunBudget(a) \/ InvalidateTurn(a) \/ AppendHistory(a) \/ StampVersion(a)
    \/ ReleaseTurn(a)

WorkerStep(a) ==
    \/ LookAtPending(a) \/ TakePending(a) \/ CreateTicket(a) \/ CancelPending(a) \/ AskAgain(a)
    \/ ProposeAction(a) \/ AnswerQuestion(a) \/ HitDeadline(a) \/ WorkerRaises(a)
    \/ FinishTrace(a)

Next ==
    \/ \E a \in Asks : Call(a) \/ CallerStep(a) \/ WorkerStep(a)
    \/ Clear

Spec == Init /\ [][Next]_vars

\* Callers proceed, and a worker that is its caller's own thread ends.
\* Nothing is assumed of workers on the executor, which has bounded threads.
FairSpec ==
    /\ Spec
    /\ \A a \in Asks : WF_vars(CallerStep(a))
    /\ \A a \in Asks \ Budgeted : WF_vars(WorkerStep(a))

----------------------------------------------------------------------------
(* Properties.                                                             *)

Acquired(a) == turn[a] > 0

\* The caller has invalidated the turn of a worker that still runs.
Orphan(a) == outcome[a] = "wall" /\ pc[a] # "invalidate" /\ run[a] # "done"

NobodyOverran == \A a \in Asks : outcome[a] # "wall"

SessionTypeOK ==
    /\ busy \in BOOLEAN
    /\ epoch \in Nat
    /\ active \in 0..epoch
    /\ history \in Seq(Asks)
    /\ pending \in Asks \cup {None}
    /\ cleared \in 0..epoch
    /\ clears \in 0..MaxClears

CallerTypeOK ==
    /\ pc \in [Asks -> Places]
    /\ turn \in [Asks -> 0..epoch]
    /\ outcome \in [Asks -> Outcomes]
    /\ version \in [Asks -> {NoVersion} \cup 0..epoch]
    /\ confirm \in [Asks -> {"none", "yes", "no"}]
    /\ replyTo \in [Asks -> Asks \cup {None}]
    /\ expected \in [Asks -> {NoVersion} \cup 0..epoch]

WorkerTypeOK ==
    /\ run \in [Asks -> RunPlaces]
    /\ snap \in [Asks -> Asks \cup {None}]
    /\ subject \in [Asks -> Asks \cup {None}]
    /\ result \in [Asks -> Results]
    /\ ticket \in [Asks -> Asks \cup {None}]

\* Every variable has its type; no turn and no version is ahead of the epoch.
TypeOK == SessionTypeOK /\ CallerTypeOK /\ WorkerTypeOK

\* The history is in the order of the turns, each at most once.
HistoryInOrder ==
    \A i, k \in 1..Len(history) : i < k => turn[history[i]] < turn[history[k]]

\* An answer that was returned is missing from the history only if clear()
\* came after it or MaxHistory later turns displaced it.
NothingIsLost ==
    \A a \in Asks :
        /\ pc[a] = "done"
        /\ outcome[a] \notin {"raised", "conflict"}
        /\ turn[a] > cleared
        => \/ \E i \in 1..Len(history) : history[i] = a
           \/ Len(history) = MaxHistory /\ turn[a] < turn[history[1]]

\* Whoever races, overruns or clears, _history is the recent answers in the
\* order of their turns, none lost and none twice: a turn is exclusive, and no
\* orphan ever makes the answer of its own or another turn stale.
HistoryFollowsTurns == HistoryInOrder /\ NothingIsLost

\* A version that was accepted is not stale: between the result a client
\* replies to and its new turn, no other ask had a turn and nothing was
\* cleared, whether the result was on time or timed out.
AcceptedVersionIsFresh ==
    \A a, b \in Asks :
        /\ Acquired(a)
        /\ replyTo[a] = b
        /\ Acquired(b)
        => /\ \A d \in Asks : ~(turn[b] < turn[d] /\ turn[d] < turn[a])
           /\ ~(turn[b] < cleared /\ cleared < turn[a])

\* As long as no ask overran its budget, a client that confirms what it was
\* shown, with the version it was shown it at, gets the ticket for that action
\* and for no other.
ExactConfirmation ==
    NobodyOverran =>
        \A a, b \in Asks :
            /\ ticket[a] # None
            /\ replyTo[a] = b
            /\ outcome[b] = "confirm"
            => ticket[a] = subject[b]

\* As long as no ask overran its budget, an action becomes one ticket at most,
\* however often it is confirmed, and with or without a version: also when the
\* ticket or the trace store fails half way.
OneTicketPerAction ==
    NobodyOverran =>
        \A a, b \in Asks : ticket[a] # None /\ ticket[a] = ticket[b] => a = b

\* What holds of the session and its asks: they keep their types, and the history is the
\* answers in the order of the turns.
SessionSafety == TypeOK /\ HistoryFollowsTurns

\* What holds of versions and confirmations: an accepted version is fresh, a confirmation
\* creates the ticket its client was shown, and a proposed action becomes one ticket.
ConfirmationsAreSafe == AcceptedVersionIsFresh /\ ExactConfirmation /\ OneTicketPerAction

\* Every ask returns, although workers on the executor may hang for ever.
AskReturns == \A a \in Asks : pc[a] = "waiting" ~> pc[a] = "done"

\* The docstring of ConversationSession: late mutations of orphan workers are
\* discarded.
OrphanWritesDiscarded ==
    [][\A a \in Asks : Orphan(a) /\ run'[a] # run[a] => pending' = pending]_vars
=============================================================================
