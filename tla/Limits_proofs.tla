---------------------------- MODULE Limits_proofs ----------------------------
(***************************************************************************)
(* Theorems about what limits the work of the process and the calls of its *)
(* requests.  AskCapacity: the capacity is conserved and work that runs    *)
(* has it, for any number of requests and sessions, any size of the        *)
(* semaphore and of the executor.  OllamaBreaker: one probe at a time, for *)
(* any number of threads, any threshold, timeout and number of attempts.   *)
(* ProviderCalls: the overrun of a budget is bounded and a refusal is      *)
(* final, for any number of requests and of workers, any budget, any size  *)
(* of a batch and any time to live of the fallback.                        *)
(* TraceLedger: a call is charged to the node that made it, and once.      *)
(* RoutingCalibration: a claim of human labels is earned by its numbers.   *)
(* ThresholdTuning: the threshold suggested is the best and the nearest of *)
(* the best, whatever the traces.                                          *)
(***************************************************************************)
EXTENDS AskCapacity, OllamaBreaker, ProviderCalls, TraceLedger, RoutingCalibration,
        ThresholdTuning, FiniteSetTheorems, TLAPS

----------------------------------------------------------------------------
(* AskCapacity.                                                            *)

Owing == {r \in Asks : slot[r] # "none"}

\* Strengthening: who owes the slot follows from where the handler is, and
\* only a direct stream falls back.
PhaseOfSlot ==
    \A r \in Asks :
        /\ phase[r] \in {"new", "acquiring"} => slot[r] = "none" /\ job[r] = "none"
        /\ phase[r] \in {"waiting", "streaming", "fallback"} => slot[r] = "handler"
        /\ phase[r] = "streaming" => job[r] = "none"
        /\ phase[r] \in {"streaming", "fallback"} => kind[r] = "direct"
        /\ phase[r] = "done" => slot[r] # "handler"

\* The types of all but the semaphore, whose range follows from conservation.
PlaceTypes ==
    /\ kind \in [Asks -> Kinds]
    /\ dialog \in [Asks -> Dialogs]
    /\ phase \in [Asks -> Phases]
    /\ slot \in [Asks -> {"none", "handler", "callback"}]
    /\ job \in [Asks -> Jobs]
    /\ turn \in [Dialogs -> Asks \cup {NoOne}]
    /\ loop \in {"free"} \cup Dialogs
    /\ gone \in SUBSET Asks

Conserved == free \in Nat /\ free + Cardinality(Owing) = MaxPipelines

CapacityInv == PlaceTypes /\ Conserved /\ PhaseOfSlot /\ WorkHoldsSlot

----------------------------------------------------------------------------
(* The three things that can happen to a slot. *)

LEMMA OwingFinite == IsFiniteSet(Owing) /\ Cardinality(Owing) \in Nat
  <1>1. Owing \subseteq Asks
    BY DEF Owing
  <1>2. QED
    BY <1>1, CapacityAssumption, FS_Subset, FS_CardinalityType

\* A slot is taken by a request that has none.
LEMMA TakeConserves ==
  ASSUME PlaceTypes, Conserved, NEW r \in Asks, slot[r] = "none", free > 0,
         free' = free - 1, slot' = [slot EXCEPT ![r] = "handler"]
  PROVE  Conserved'
  <1>1. Owing' = Owing \cup {r} /\ r \notin Owing
    BY DEF Owing, PlaceTypes
  <1>2. Cardinality(Owing') = Cardinality(Owing) + 1
    BY <1>1, OwingFinite, FS_AddElement
  <1>3. QED
    BY <1>2, OwingFinite, CapacityAssumption DEF Conserved

\* A slot that is owed comes back.
LEMMA ReleaseConserves ==
  ASSUME PlaceTypes, Conserved, NEW r \in Asks, slot[r] # "none", Release(r)
  PROVE  Conserved'
  <1>1. Owing' = Owing \ {r} /\ r \in Owing
    BY DEF Owing, PlaceTypes, Release
  <1>2. Cardinality(Owing') = Cardinality(Owing) - 1
    BY <1>1, OwingFinite, FS_RemoveElement
  <1>3. QED
    BY <1>2, OwingFinite, CapacityAssumption DEF Conserved, Release

\* The duty to release passes from the handler to the callback.
LEMMA HandOverConserves ==
  ASSUME PlaceTypes, Conserved, NEW r \in Asks, slot[r] # "none", HandOver(r)
  PROVE  Conserved'
  <1>1. Owing' = Owing
    BY DEF Owing, PlaceTypes, HandOver
  <1>2. QED
    BY <1>1 DEF Conserved, HandOver

LEMMA RestConserves ==
  ASSUME Conserved, UNCHANGED <<slot, free>>
  PROVE  Conserved'
  BY DEF Conserved, Owing

----------------------------------------------------------------------------

LEMMA CapacityInitInv == CapacityInit => CapacityInv
  <1> SUFFICES ASSUME CapacityInit PROVE CapacityInv
    OBVIOUS
  <1>1. PlaceTypes
    BY DEF CapacityInit, PlaceTypes, Kinds, Phases, Jobs
  <1>2. Conserved
    <2>1. Owing = {}
      BY DEF CapacityInit, Owing
    <2>2. QED
      BY <2>1, FS_EmptySet, CapacityAssumption DEF CapacityInit, Conserved
  <1>3. PhaseOfSlot /\ WorkHoldsSlot
    BY DEF CapacityInit, PhaseOfSlot, WorkHoldsSlot, Live, OnThread
  <1>4. QED
    BY <1>1, <1>2, <1>3 DEF CapacityInv

\* Handlers: admission, results, deadlines, departures.
LEMMA HandlerKeepsInv ==
  ASSUME CapacityInv, NEW r \in Asks,
         HandlerStep(r) \/ FallBack(r) \/ Disconnect(r) \/ \E k \in Kinds : Arrive(r, k)
  PROVE  CapacityInv'
  <1> USE DEF CapacityInv
  <1>1. CASE \E k \in Kinds : Arrive(r, k)
    <2>1. PlaceTypes' /\ UNCHANGED <<slot, free>>
      BY <1>1 DEF Arrive, PlaceTypes, Phases
    <2>2. PhaseOfSlot'
      BY <1>1 DEF Arrive, PlaceTypes, PhaseOfSlot
    <2>3. WorkHoldsSlot'
      BY <1>1 DEF Arrive, PlaceTypes, PhaseOfSlot, WorkHoldsSlot, Live, OnThread
    <2>4. QED
      BY <2>1, <2>2, <2>3, RestConserves
  <1>2. CASE AdmitAsk(r)
    <2>1. PlaceTypes'
      BY <1>2 DEF AdmitAsk, PlaceTypes, Phases, Jobs
    <2>2. Conserved'
      BY <1>2, TakeConserves DEF AdmitAsk, PhaseOfSlot
    <2>3. PhaseOfSlot'
      BY <1>2 DEF AdmitAsk, PlaceTypes, PhaseOfSlot
    <2>4. WorkHoldsSlot'
      BY <1>2 DEF AdmitAsk, PlaceTypes, PhaseOfSlot, WorkHoldsSlot, Live, OnThread
    <2>5. QED
      BY <2>1, <2>2, <2>3, <2>4
  <1>3. CASE RejectBusy(r)
    <2>1. PlaceTypes' /\ UNCHANGED <<slot, free>>
      BY <1>3 DEF RejectBusy, PlaceTypes, Phases
    <2>2. PhaseOfSlot' /\ WorkHoldsSlot'
      BY <1>3 DEF RejectBusy, PlaceTypes, PhaseOfSlot, WorkHoldsSlot, Live, OnThread
    <2>3. QED
      BY <2>1, <2>2, RestConserves
  <1>4. CASE CollectAnswer(r)
    <2>1. PlaceTypes'
      BY <1>4 DEF CollectAnswer, Release, PlaceTypes, Phases
    <2>2. Conserved'
      BY <1>4, ReleaseConserves DEF CollectAnswer, PhaseOfSlot
    <2>3. PhaseOfSlot' /\ WorkHoldsSlot'
      BY <1>4 DEF CollectAnswer, Release, PlaceTypes, PhaseOfSlot, WorkHoldsSlot, Live, OnThread
    <2>4. QED
      BY <2>1, <2>2, <2>3
  <1>5. CASE OuterTimeout(r)
    <2>1. PlaceTypes'
      BY <1>5 DEF OuterTimeout, HandOver, PlaceTypes, Phases
    <2>2. Conserved'
      BY <1>5, HandOverConserves DEF OuterTimeout, PhaseOfSlot
    <2>3. PhaseOfSlot' /\ WorkHoldsSlot'
      BY <1>5 DEF OuterTimeout, HandOver, PlaceTypes, PhaseOfSlot, WorkHoldsSlot, Live, OnThread
    <2>4. QED
      BY <2>1, <2>2, <2>3
  <1>6. CASE OrphanDone(r)
    <2>1. PlaceTypes'
      BY <1>6 DEF OrphanDone, Release, PlaceTypes
    <2>2. Conserved'
      BY <1>6, ReleaseConserves DEF OrphanDone
    <2>3. PhaseOfSlot'
      BY <1>6 DEF OrphanDone, Release, PlaceTypes, PhaseOfSlot, Phases
    <2>4. WorkHoldsSlot'
      BY <1>6 DEF OrphanDone, Release, PlaceTypes, WorkHoldsSlot, Live, OnThread
    <2>5. QED
      BY <2>1, <2>2, <2>3, <2>4
  <1>7. CASE StreamEnds(r)
    <2>1. PlaceTypes'
      BY <1>7 DEF StreamEnds, Release, PlaceTypes, Phases
    <2>2. Conserved'
      BY <1>7, ReleaseConserves DEF StreamEnds, PhaseOfSlot
    <2>3. PhaseOfSlot' /\ WorkHoldsSlot'
      BY <1>7 DEF StreamEnds, Release, PlaceTypes, PhaseOfSlot, WorkHoldsSlot, Live, OnThread
    <2>4. QED
      BY <2>1, <2>2, <2>3
  <1>8. CASE FallBack(r)
    <2>1. PlaceTypes' /\ UNCHANGED <<slot, free>>
      BY <1>8 DEF FallBack, PlaceTypes, Phases, Jobs
    <2>2. PhaseOfSlot' /\ WorkHoldsSlot'
      BY <1>8 DEF FallBack, PlaceTypes, PhaseOfSlot, WorkHoldsSlot, Live, OnThread
    <2>3. QED
      BY <2>1, <2>2, RestConserves
  <1>9. CASE Disconnect(r)
    <2>1. \/ phase[r] = "acquiring" /\ UNCHANGED <<slot, free>>
          \/ phase[r] = "waiting" /\ job[r] # "finished" /\ HandOver(r)
          \/ phase[r] \in {"waiting", "streaming", "fallback"}
             /\ ~(phase[r] = "waiting" /\ job[r] # "finished") /\ Release(r)
      BY <1>9 DEF Disconnect
    <2>2. /\ phase' = [phase EXCEPT ![r] = "done"]
          /\ gone' = gone \cup {r}
          /\ job' = [job EXCEPT ![r] = IF phase[r] = "fallback" /\ @ = "queued" THEN "none" ELSE @]
          /\ UNCHANGED <<kind, dialog, turn, loop>>
      BY <1>9 DEF Disconnect
    <2>3. PlaceTypes'
      BY <2>1, <2>2 DEF HandOver, Release, PlaceTypes, Phases, Jobs
    <2>4. Conserved'
      BY <2>1, ReleaseConserves, HandOverConserves, RestConserves DEF PhaseOfSlot
    <2>5. PhaseOfSlot'
      BY <2>1, <2>2 DEF HandOver, Release, PlaceTypes, PhaseOfSlot
    <2>6. WorkHoldsSlot'
      BY <2>1, <2>2 DEF HandOver, Release, PlaceTypes, PhaseOfSlot, WorkHoldsSlot, Live, OnThread
    <2>7. QED
      BY <2>3, <2>4, <2>5, <2>6
  <1>10. QED
    BY <1>1, <1>2, <1>3, <1>4, <1>5, <1>6, <1>7, <1>8, <1>9 DEF HandlerStep

\* Threads and clear() leave the slots alone, and a thread works only for a
\* job that was queued with a slot.
LEMMA ThreadKeepsInv ==
  ASSUME CapacityInv, NEW r \in Asks, ThreadStep(r)
  PROVE  CapacityInv'
  <1> USE DEF CapacityInv
  <1>1. /\ UNCHANGED <<kind, dialog, phase, slot, free, loop, gone>>
        /\ turn' \in [Dialogs -> Asks \cup {NoOne}]
    BY DEF ThreadStep, StartJob, AcquireTurn, PipelineEnds, EvaluationsPersisted,
           EvaluationsTimeout, LeaveTurn, PlaceTypes
  <1>2. \E j \in {"started", "asking", "evaluating", "finished"} :
           job' = [job EXCEPT ![r] = j]
    BY DEF ThreadStep, StartJob, AcquireTurn, PipelineEnds, EvaluationsPersisted,
           EvaluationsTimeout, LeaveTurn
  <1>3. Live(r)
    BY DEF ThreadStep, StartJob, AcquireTurn, PipelineEnds, EvaluationsPersisted,
           EvaluationsTimeout, Live, OnThread
  <1>4. PlaceTypes'
    BY <1>1, <1>2 DEF PlaceTypes, Jobs
  <1>5. Conserved'
    BY <1>1, RestConserves
  <1>6. PhaseOfSlot'
    BY <1>1, <1>2, <1>3 DEF PhaseOfSlot, PlaceTypes, Live, OnThread
  <1>7. WorkHoldsSlot'
    BY <1>1, <1>2, <1>3 DEF WorkHoldsSlot, PlaceTypes, Live, OnThread
  <1>8. QED
    BY <1>4, <1>5, <1>6, <1>7

LEMMA CapacityStep == CapacityInv /\ [CapacityNext]_capacityVars => CapacityInv'
  <1> SUFFICES ASSUME CapacityInv, [CapacityNext]_capacityVars
               PROVE  CapacityInv'
    OBVIOUS
  <1>1. ASSUME NEW d \in Dialogs, ClearSession(d) \/ ClearReturns(d) PROVE CapacityInv'
    <2>1. /\ UNCHANGED <<kind, dialog, phase, slot, free, job, turn, gone>>
          /\ loop' \in {"free"} \cup Dialogs
      BY <1>1 DEF ClearSession, ClearReturns
    <2>2. QED
      BY <2>1, RestConserves
      DEF CapacityInv, PlaceTypes, PhaseOfSlot, WorkHoldsSlot, Live, OnThread
  <1>2. CASE UNCHANGED capacityVars
    BY <1>2, RestConserves
    DEF capacityVars, CapacityInv, PlaceTypes, PhaseOfSlot, WorkHoldsSlot, Live, OnThread
  <1>3. QED
    BY <1>1, <1>2, HandlerKeepsInv, ThreadKeepsInv DEF CapacityNext

\* No slot of the semaphore is lost or released twice, whichever of result,
\* deadline, departure and callback comes first, and a job keeps its slot
\* until it has really finished.
THEOREM CapacityIsSafe == CapacitySpec => []CapacitySafety
  <1>1. CapacityInv => CapacitySafety
    <2> SUFFICES ASSUME CapacityInv PROVE CapacitySafety
      OBVIOUS
    <2>1. free \in 0 .. MaxPipelines
      BY OwingFinite, CapacityAssumption DEF CapacityInv, Conserved
    <2>2. SlotsConserved
      BY DEF CapacityInv, Conserved, Owing, SlotsConserved
    <2>3. CapacityTypeOK
      BY <2>1 DEF CapacityInv, PlaceTypes, CapacityTypeOK
    <2>4. QED
      BY <2>2, <2>3 DEF CapacitySafety, CapacityInv
  <1>2. QED
    BY <1>1, CapacityInitInv, CapacityStep, PTL DEF CapacitySpec

----------------------------------------------------------------------------
(* What liveness rests on: nobody waits for somebody who waits for him,    *)
(* and no request goes back.                                               *)

\* Who has the turn of a session is at work on a thread of his own and waits for no turn; what
\* he does next needs neither a thread nor the event loop: the graph ends, or his evaluations
\* time out.
TurnHoldersRun ==
    \A d \in Dialogs : turn[d] # NoOne =>
        dialog[turn[d]] = d /\ job[turn[d]] \in {"asking", "evaluating"}

\* A slot that is owed is owed by a stream of the event loop or for work that is under way or done.
OwedSlotsHaveWork ==
    \A r \in Asks : slot[r] # "none" =>
        phase[r] = "streaming" \/ Live(r) \/ job[r] = "finished"

WaitsEnd == TurnHoldersRun /\ OwedSlotsHaveWork

\* Six times the steps a handler, and the callback it leaves behind, still have to take.
HandlerAhead(p, owner) ==
    CASE p = "new" -> 30
      [] p = "acquiring" -> 24
      [] p = "streaming" -> 18
      [] p \in {"waiting", "fallback"} -> 12
      [] p = "done" -> IF owner = "callback" THEN 6 ELSE 0

\* The steps of a thread.
ThreadAhead(j) ==
    CASE j = "queued" -> 5
      [] j = "started" -> 4
      [] j = "asking" -> 3
      [] j = "evaluating" -> 2
      [] j = "finished" -> 1
      [] j = "none" -> 0

AskAhead(r) == HandlerAhead(phase[r], slot[r]) + ThreadAhead(job[r])

LEMMA AheadOfAsk ==
  /\ \A o : /\ HandlerAhead("new", o) = 30
           /\ HandlerAhead("acquiring", o) = 24
           /\ HandlerAhead("streaming", o) = 18
           /\ HandlerAhead("waiting", o) = 12
           /\ HandlerAhead("fallback", o) = 12
  /\ HandlerAhead("done", "callback") = 6
  /\ \A o : o # "callback" => HandlerAhead("done", o) = 0
  /\ ThreadAhead("queued") = 5
  /\ ThreadAhead("started") = 4
  /\ ThreadAhead("asking") = 3
  /\ ThreadAhead("evaluating") = 2
  /\ ThreadAhead("finished") = 1
  /\ ThreadAhead("none") = 0
  BY DEF HandlerAhead, ThreadAhead

LEMMA AskAheadBounds ==
  ASSUME CapacityInv, NEW r \in Asks
  PROVE  /\ HandlerAhead(phase[r], slot[r]) \in {0, 6, 12, 18, 24, 30}
         /\ ThreadAhead(job[r]) \in 0..5
  <1>1. /\ phase[r] \in Phases /\ job[r] \in Jobs
        /\ slot[r] \in {"none", "handler", "callback"}
    BY DEF CapacityInv, PlaceTypes
  <1>2. HandlerAhead(phase[r], slot[r]) \in {0, 6, 12, 18, 24, 30}
    BY <1>1, AheadOfAsk DEF Phases
  <1>3. ThreadAhead(job[r]) \in 0..5
    BY <1>1, AheadOfAsk DEF Jobs
  <1>4. QED
    BY <1>2, <1>3

\* A step of request r changes the places of no other request and leads r on.
LeadsOn(r) ==
    /\ \A q \in Asks \ {r} : UNCHANGED <<phase[q], slot[q], job[q]>>
    /\ AskAhead(r)' < AskAhead(r)

LEMMA HandlerLeadsOn ==
  ASSUME CapacityInv, NEW r \in Asks,
         HandlerStep(r) \/ FallBack(r) \/ Disconnect(r) \/ \E k \in Kinds : Arrive(r, k)
  PROVE  LeadsOn(r)
  <1>1. \A q \in Asks \ {r} : UNCHANGED <<phase[q], slot[q], job[q]>>
    BY DEF HandlerStep, AdmitAsk, RejectBusy, CollectAnswer, OrphanDone, StreamEnds, OuterTimeout,
           FallBack, Disconnect, Arrive, Release, HandOver, CapacityInv, PlaceTypes
  <1>2. PICK i \in {0, 6, 12, 18, 24, 30}, j \in 0..5 :
           i = HandlerAhead(phase[r], slot[r]) /\ j = ThreadAhead(job[r])
    BY AskAheadBounds
  <1>3. CASE \E k \in Kinds : Arrive(r, k)
    <2>1. phase[r] = "new" /\ phase'[r] = "acquiring" /\ job'[r] = job[r]
      BY <1>3 DEF Arrive, CapacityInv, PlaceTypes, PhaseOfSlot
    <2>2. AskAhead(r)' < AskAhead(r)
      BY <1>2, <2>1, AheadOfAsk DEF AskAhead
    <2>3. QED
      BY <1>1, <2>2 DEF LeadsOn
  <1>4. CASE AdmitAsk(r)
    <2>1. /\ phase[r] = "acquiring" /\ job[r] = "none"
          /\ \/ phase'[r] = "streaming" /\ job'[r] = "none"
             \/ phase'[r] = "waiting" /\ job'[r] = "queued"
      BY <1>4 DEF AdmitAsk, CapacityInv, PlaceTypes, PhaseOfSlot
    <2>2. AskAhead(r)' < AskAhead(r)
      BY <1>2, <2>1, AheadOfAsk DEF AskAhead
    <2>3. QED
      BY <1>1, <2>2 DEF LeadsOn
  <1>5. CASE RejectBusy(r)
    <2>1. /\ phase[r] = "acquiring" /\ slot[r] = "none"
          /\ phase'[r] = "done" /\ slot'[r] = "none" /\ job'[r] = job[r]
      BY <1>5 DEF RejectBusy, CapacityInv, PlaceTypes, PhaseOfSlot
    <2>2. AskAhead(r)' < AskAhead(r)
      BY <1>2, <2>1, AheadOfAsk DEF AskAhead
    <2>3. QED
      BY <1>1, <2>2 DEF LeadsOn
  <1>6. CASE CollectAnswer(r)
    <2>1. /\ phase[r] \in {"waiting", "fallback"}
          /\ phase'[r] = "done" /\ slot'[r] = "none" /\ job'[r] = job[r]
      BY <1>6 DEF CollectAnswer, Release, CapacityInv, PlaceTypes, PhaseOfSlot
    <2>2. AskAhead(r)' < AskAhead(r)
      BY <1>2, <2>1, AheadOfAsk DEF AskAhead
    <2>3. QED
      BY <1>1, <2>2 DEF LeadsOn
  <1>7. CASE OrphanDone(r)
    <2>1. /\ phase[r] = "done" /\ slot[r] = "callback"
          /\ phase'[r] = "done" /\ slot'[r] = "none" /\ job'[r] = job[r]
      BY <1>7 DEF OrphanDone, Release, Phases, CapacityInv, PlaceTypes, PhaseOfSlot
    <2>2. AskAhead(r)' < AskAhead(r)
      BY <1>2, <2>1, AheadOfAsk DEF AskAhead
    <2>3. QED
      BY <1>1, <2>2 DEF LeadsOn
  <1>8. CASE StreamEnds(r)
    <2>1. /\ phase[r] = "streaming"
          /\ phase'[r] = "done" /\ slot'[r] = "none" /\ job'[r] = job[r]
      BY <1>8 DEF StreamEnds, Release, CapacityInv, PlaceTypes, PhaseOfSlot
    <2>2. AskAhead(r)' < AskAhead(r)
      BY <1>2, <2>1, AheadOfAsk DEF AskAhead
    <2>3. QED
      BY <1>1, <2>2 DEF LeadsOn
  <1>9. CASE OuterTimeout(r)
    <2>1. /\ phase[r] = "waiting"
          /\ phase'[r] = "done" /\ slot'[r] = "callback" /\ job'[r] = job[r]
      BY <1>9 DEF OuterTimeout, HandOver, CapacityInv, PlaceTypes, PhaseOfSlot
    <2>2. AskAhead(r)' < AskAhead(r)
      BY <1>2, <2>1, AheadOfAsk DEF AskAhead
    <2>3. QED
      BY <1>1, <2>2 DEF LeadsOn
  <1>10. CASE FallBack(r)
    <2>1. /\ phase[r] = "streaming" /\ job[r] = "none"
          /\ phase'[r] = "fallback" /\ job'[r] = "queued"
      BY <1>10 DEF FallBack, CapacityInv, PlaceTypes, PhaseOfSlot
    <2>2. AskAhead(r)' < AskAhead(r)
      BY <1>2, <2>1, AheadOfAsk DEF AskAhead
    <2>3. QED
      BY <1>1, <2>2 DEF LeadsOn
  <1>11. CASE Disconnect(r)
    <2>1. phase[r] \in {"acquiring", "waiting", "streaming", "fallback"} /\ phase'[r] = "done"
      BY <1>11 DEF Disconnect, CapacityInv, PlaceTypes
    <2>2. slot'[r] \in {"none", "handler", "callback"}
      BY <1>11, HandlerKeepsInv DEF CapacityInv, PlaceTypes
    <2>3. job'[r] = job[r] \/ job'[r] = "none"
      BY <1>11 DEF Disconnect, CapacityInv, PlaceTypes
    <2>4. HandlerAhead(phase'[r], slot'[r]) \in {0, 6} /\ i \in {12, 18, 24}
      BY <1>2, <2>1, <2>2, AheadOfAsk
    <2>5. ThreadAhead(job'[r]) \in {0, j}
      BY <1>2, <2>3, AheadOfAsk
    <2>6. AskAhead(r)' < AskAhead(r)
      BY <1>2, <2>4, <2>5 DEF AskAhead
    <2>7. QED
      BY <1>1, <2>6 DEF LeadsOn
  <1>12. QED
    BY <1>3, <1>4, <1>5, <1>6, <1>7, <1>8, <1>9, <1>10, <1>11 DEF HandlerStep

LEMMA ThreadLeadsOn ==
  ASSUME CapacityInv, NEW r \in Asks, ThreadStep(r)
  PROVE  LeadsOn(r)
  <1>1. UNCHANGED <<phase, slot>> /\ \A q \in Asks \ {r} : UNCHANGED job[q]
    BY DEF ThreadStep, StartJob, AcquireTurn, PipelineEnds, EvaluationsPersisted,
           EvaluationsTimeout, LeaveTurn, CapacityInv, PlaceTypes
  <1>2. \/ job[r] = "queued" /\ job'[r] = "started"
        \/ job[r] = "started" /\ job'[r] = "asking"
        \/ job[r] = "asking" /\ job'[r] \in {"evaluating", "finished"}
        \/ job[r] = "evaluating" /\ job'[r] = "finished"
    BY DEF ThreadStep, StartJob, AcquireTurn, PipelineEnds, EvaluationsPersisted,
           EvaluationsTimeout, LeaveTurn, CapacityInv, PlaceTypes
  <1>3. PICK i \in {0, 6, 12, 18, 24, 30} : i = HandlerAhead(phase[r], slot[r])
    BY AskAheadBounds
  <1>4. HandlerAhead(phase'[r], slot'[r]) = i
    BY <1>1, <1>3
  <1>5. ThreadAhead(job'[r]) \in 0..5 /\ ThreadAhead(job'[r]) < ThreadAhead(job[r])
    BY <1>2, AheadOfAsk
  <1>6. AskAhead(r)' < AskAhead(r)
    BY <1>3, <1>4, <1>5, AskAheadBounds DEF AskAhead
  <1>7. QED
    BY <1>1, <1>6 DEF LeadsOn

\* clear() and what other requests do move no request.
LEMMA AsksLeadOn ==
  ASSUME CapacityInv, [CapacityNext]_capacityVars, NEW r \in Asks
  PROVE  AskAhead(r)' < AskAhead(r) \/ UNCHANGED <<phase[r], slot[r], job[r]>>
  <1>1. ASSUME NEW q \in Asks, LeadsOn(q)
        PROVE  AskAhead(r)' < AskAhead(r) \/ UNCHANGED <<phase[r], slot[r], job[r]>>
    BY <1>1 DEF LeadsOn
  <1>2. ASSUME NEW d \in Dialogs, ClearSession(d) \/ ClearReturns(d)
        PROVE  UNCHANGED <<phase[r], slot[r], job[r]>>
    BY <1>2 DEF ClearSession, ClearReturns
  <1>3. CASE UNCHANGED capacityVars
    BY <1>3 DEF capacityVars
  <1>4. QED
    BY <1>1, <1>2, <1>3, HandlerLeadsOn, ThreadLeadsOn DEF CapacityNext

LEMMA HandlerKeepsWaits ==
  ASSUME CapacityInv, WaitsEnd, NEW r \in Asks,
         HandlerStep(r) \/ FallBack(r) \/ Disconnect(r) \/ \E k \in Kinds : Arrive(r, k)
  PROVE  WaitsEnd'
  <1>1. UNCHANGED <<dialog, turn>> /\ \A q \in Asks \ {r} : UNCHANGED <<phase[q], slot[q], job[q]>>
    BY DEF HandlerStep, AdmitAsk, RejectBusy, CollectAnswer, OrphanDone, StreamEnds, OuterTimeout,
           FallBack, Disconnect, Arrive, Release, HandOver, CapacityInv, PlaceTypes
  <1>2. job[r] \in {"asking", "evaluating"} => job'[r] = job[r]
    BY DEF HandlerStep, AdmitAsk, RejectBusy, CollectAnswer, OrphanDone, StreamEnds, OuterTimeout,
           FallBack, Disconnect, Arrive, CapacityInv, PlaceTypes, PhaseOfSlot
  <1>3. TurnHoldersRun'
    BY <1>1, <1>2 DEF WaitsEnd, TurnHoldersRun, CapacityInv, PlaceTypes
  <1>4. slot'[r] # "none" => phase'[r] = "streaming" \/ Live(r)' \/ job'[r] = "finished"
    <2>1. CASE (\E k \in Kinds : Arrive(r, k)) \/ AdmitAsk(r) \/ RejectBusy(r)
      BY <2>1 DEF Arrive, AdmitAsk, RejectBusy, CapacityInv, PlaceTypes, PhaseOfSlot, Live
    <2>2. CASE CollectAnswer(r) \/ OrphanDone(r) \/ StreamEnds(r)
      BY <2>2 DEF CollectAnswer, OrphanDone, StreamEnds, Release, CapacityInv, PlaceTypes
    <2>3. CASE OuterTimeout(r) \/ FallBack(r)
      BY <2>3 DEF OuterTimeout, FallBack, HandOver, CapacityInv, PlaceTypes, PhaseOfSlot,
                  WaitsEnd, OwedSlotsHaveWork, Live, OnThread
    <2>4. CASE Disconnect(r)
      BY <2>4 DEF Disconnect, HandOver, Release, CapacityInv, PlaceTypes, PhaseOfSlot,
                  WaitsEnd, OwedSlotsHaveWork, Live, OnThread
    <2>5. QED
      BY <2>1, <2>2, <2>3, <2>4 DEF HandlerStep
  <1>5. OwedSlotsHaveWork'
    BY <1>1, <1>4 DEF WaitsEnd, OwedSlotsHaveWork, Live, OnThread
  <1>6. QED
    BY <1>3, <1>5 DEF WaitsEnd

LEMMA ThreadKeepsWaits ==
  ASSUME CapacityInv, WaitsEnd, NEW r \in Asks, ThreadStep(r)
  PROVE  WaitsEnd'
  <1>1. UNCHANGED <<dialog, phase, slot>> /\ \A q \in Asks \ {r} : UNCHANGED job[q]
    BY DEF ThreadStep, StartJob, AcquireTurn, PipelineEnds, EvaluationsPersisted,
           EvaluationsTimeout, LeaveTurn, CapacityInv, PlaceTypes
  <1>2. job'[r] \in {"started", "asking", "evaluating", "finished"}
    BY DEF ThreadStep, StartJob, AcquireTurn, PipelineEnds, EvaluationsPersisted,
           EvaluationsTimeout, LeaveTurn, CapacityInv, PlaceTypes
  <1>3. OwedSlotsHaveWork'
    BY <1>1, <1>2 DEF WaitsEnd, OwedSlotsHaveWork, Live, OnThread
  <1>4. CASE StartJob(r) \/ AcquireTurn(r)
    <2>1. TurnHoldersRun'
      BY <1>4 DEF StartJob, AcquireTurn, WaitsEnd, TurnHoldersRun, CapacityInv, PlaceTypes
    <2>2. QED
      BY <1>3, <2>1 DEF WaitsEnd
  <1>5. CASE PipelineEnds(r) /\ UNCHANGED turn
    <2>1. TurnHoldersRun'
      BY <1>5 DEF PipelineEnds, LeaveTurn, WaitsEnd, TurnHoldersRun, CapacityInv, PlaceTypes
    <2>2. QED
      BY <1>3, <2>1 DEF WaitsEnd
  <1>6. CASE LeaveTurn(r)
    <2>1. TurnHoldersRun'
      BY <1>1, <1>6 DEF LeaveTurn, WaitsEnd, TurnHoldersRun, CapacityInv, PlaceTypes
    <2>2. QED
      BY <1>3, <2>1 DEF WaitsEnd
  <1>7. QED
    BY <1>4, <1>5, <1>6 DEF ThreadStep, PipelineEnds, EvaluationsPersisted, EvaluationsTimeout

LEMMA WaitsEndStep == CapacityInv /\ WaitsEnd /\ [CapacityNext]_capacityVars => WaitsEnd'
  <1> SUFFICES ASSUME CapacityInv, WaitsEnd, [CapacityNext]_capacityVars PROVE WaitsEnd'
    OBVIOUS
  <1>1. ASSUME UNCHANGED <<dialog, phase, slot, job, turn>> PROVE WaitsEnd'
    BY <1>1 DEF WaitsEnd, TurnHoldersRun, OwedSlotsHaveWork, Live, OnThread
  <1>2. ASSUME NEW d \in Dialogs, ClearSession(d) \/ ClearReturns(d) PROVE WaitsEnd'
    BY <1>1, <1>2 DEF ClearSession, ClearReturns
  <1>3. CASE UNCHANGED capacityVars
    BY <1>1, <1>3 DEF capacityVars
  <1>4. QED
    BY <1>2, <1>3, HandlerKeepsWaits, ThreadKeepsWaits DEF CapacityNext

\* The half of CapacityComesBack that is a safety property. There is no circle of waiting:
\* clear() on the event loop and the threads that are queued for a session wait for a turn,
\* whose holder already has a thread and can go on without the loop, and a slot is owed only
\* for work that exists. And no request goes on for ever: each of its steps, and of the thread
\* and the callback it leaves behind, is counted down from 35. That they are taken at all is
\* what CapacityFairness assumes.
THEOREM CapacityRunsOut ==
  CapacitySpec =>
    /\ []WaitsEnd
    /\ [](\A r \in Asks : AskAhead(r) \in 0..35)
    /\ [][\A r \in Asks :
            AskAhead(r)' < AskAhead(r) \/ UNCHANGED <<phase[r], slot[r], job[r]>>]_capacityVars
  <1>1. CapacityInit => WaitsEnd
    BY DEF CapacityInit, WaitsEnd, TurnHoldersRun, OwedSlotsHaveWork
  <1>2. CapacityInv => \A r \in Asks : AskAhead(r) \in 0..35
    BY AskAheadBounds DEF AskAhead
  <1>3. CapacityInv /\ [CapacityNext]_capacityVars =>
          [\A r \in Asks :
            AskAhead(r)' < AskAhead(r) \/ UNCHANGED <<phase[r], slot[r], job[r]>>]_capacityVars
    BY AsksLeadOn
  <1>4. QED
    BY <1>1, <1>2, <1>3, WaitsEndStep, CapacityInitInv, CapacityStep, PTL DEF CapacitySpec

----------------------------------------------------------------------------
(* OllamaBreaker.                                                          *)

\* Strengthening: a half open circuit has always claimed its one probe.  The
\* half open state is entered by that probe only, and whatever result arrives
\* in it, of the probe or of an earlier call, leaves it.
HalfOpenIsProbed ==
    circuit = "half_open" =>
        /\ probing
        /\ probes = 1
        /\ \E c \in Invokers : admitted[c] = "probe"

BreakerInv == BreakerTypeOK /\ HalfOpenIsProbed

\* The type invariant by kind of variable.
CounterTypes == failures \in 0 .. FailureThreshold /\ openFor \in 0 .. ResetTimeout

FlagTypes ==
    /\ circuit \in {"closed", "open", "half_open"}
    /\ probing \in BOOLEAN
    /\ serving \in BOOLEAN

CallTypes ==
    /\ admitted \in [Invokers -> {"no", "normal", "probe", "late"}]
    /\ attempts \in [Invokers -> 0 .. MaxAttempts]

LEMMA TypesTogether ==
  /\ BreakerTypeOK <=> CounterTypes /\ FlagTypes /\ CallTypes
  /\ BreakerTypeOK' <=> CounterTypes' /\ FlagTypes' /\ CallTypes'
  BY Zenon DEF BreakerTypeOK, CounterTypes, FlagTypes, CallTypes

LEMMA BreakerInitInv == BreakerInit => BreakerInv
  <1>1. BreakerInit => HalfOpenIsProbed
    BY DEF BreakerInit, HalfOpenIsProbed
  <1>2. BreakerInit => BreakerTypeOK
    <2> SUFFICES ASSUME BreakerInit PROVE BreakerTypeOK
      OBVIOUS
    <2>1. failures \in 0 .. FailureThreshold /\ openFor \in 0 .. ResetTimeout
      BY BreakerAssumption DEF BreakerInit
    <2>2. /\ admitted \in [Invokers -> {"no", "normal", "probe", "late"}]
          /\ attempts \in [Invokers -> 0 .. MaxAttempts]
      BY BreakerAssumption DEF BreakerInit
    <2>3. QED
      BY <2>1, <2>2, Zenon DEF BreakerInit, BreakerTypeOK
  <1>3. QED
    BY <1>1, <1>2 DEF BreakerInv

\* A thread of a call that is under way keeps a valid place.
LEMMA OvertakenType ==
  ASSUME BreakerTypeOK, NEW c \in Invokers
  PROVE  Overtaken(c) \in [Invokers -> {"no", "normal", "probe", "late"}]
  BY DEF BreakerTypeOK, Overtaken

LEMMA BreakerStep == BreakerInv /\ [BreakerNext]_breakerVars => BreakerInv'
  <1> SUFFICES ASSUME BreakerInv, [BreakerNext]_breakerVars
               PROVE  BreakerInv'
    OBVIOUS
  <1> USE BreakerAssumption DEF BreakerInv
  <1>1. ASSUME NEW c \in Invokers, Admit(c) PROVE BreakerInv'
    <2>1. BreakerTypeOK'
      <3>1. CounterTypes'
        BY <1>1 DEF Admit, CounterTypes, BreakerTypeOK
      <3>2. FlagTypes'
        BY <1>1, Zenon DEF Admit, ClaimProbe, FlagTypes, BreakerTypeOK
      <3>3. CallTypes'
        BY <1>1 DEF Admit, CallTypes, BreakerTypeOK
      <3>4. QED
        BY <3>1, <3>2, <3>3, TypesTogether
    <2>2. CASE circuit = "closed" /\ circuit' = "closed"
      BY <2>1, <2>2 DEF HalfOpenIsProbed
    <2>3. CASE Elapsed \/ (circuit = "half_open" /\ ~probing)
      <3>1. Elapsed
        BY <2>3 DEF HalfOpenIsProbed
      <3>2. probing' /\ probes' = 1 /\ admitted' = [admitted EXCEPT ![c] = "probe"]
        BY <1>1, <3>1 DEF Admit, ClaimProbe, Elapsed
      <3>3. admitted'[c] = "probe"
        BY <3>2 DEF BreakerTypeOK
      <3>4. QED
        BY <2>1, <3>2, <3>3 DEF HalfOpenIsProbed
    <2>4. QED
      BY <1>1, <2>2, <2>3 DEF Admit
  <1>2. ASSUME NEW c \in Invokers, RetryCall(c) PROVE BreakerInv'
    <2>1. CounterTypes'
      BY <1>2 DEF RetryCall, CounterTypes, BreakerTypeOK
    <2>2. FlagTypes'
      BY <1>2, Zenon DEF RetryCall, FlagTypes, BreakerTypeOK
    <2>3. CallTypes'
      BY <1>2 DEF RetryCall, CallTypes, BreakerTypeOK
    <2>4. HalfOpenIsProbed'
      BY <1>2 DEF RetryCall, HalfOpenIsProbed
    <2>5. QED
      BY <2>1, <2>2, <2>3, <2>4, TypesTogether
  <1>3. ASSUME NEW c \in Invokers, RecordFailure(c) PROVE BreakerInv'
    <2>1. CounterTypes'
      BY <1>3 DEF RecordFailure, CounterTypes, BreakerTypeOK
    <2>2. circuit' \in {"closed", "open"}
      BY <1>3 DEF RecordFailure, Trips, BreakerTypeOK
    <2>3. probing' \in BOOLEAN /\ serving' \in BOOLEAN
      BY <1>3, Zenon DEF RecordFailure, BreakerTypeOK
    <2>4. FlagTypes'
      BY <2>2, <2>3, Zenon DEF FlagTypes
    <2>5. CallTypes'
      BY <1>3, OvertakenType DEF RecordFailure, CallTypes, BreakerTypeOK
    <2>6. HalfOpenIsProbed'
      BY <2>2 DEF HalfOpenIsProbed
    <2>7. QED
      BY <2>1, <2>4, <2>5, <2>6, TypesTogether
  <1>4. ASSUME NEW c \in Invokers, RecordSuccess(c) PROVE BreakerInv'
    <2>1. CounterTypes'
      BY <1>4 DEF RecordSuccess, CounterTypes, BreakerTypeOK
    <2>2. FlagTypes'
      BY <1>4, Zenon DEF RecordSuccess, FlagTypes, BreakerTypeOK
    <2>3. CallTypes'
      BY <1>4 DEF RecordSuccess, CallTypes, BreakerTypeOK
    <2>4. HalfOpenIsProbed'
      BY <1>4 DEF RecordSuccess, HalfOpenIsProbed
    <2>5. QED
      BY <2>1, <2>2, <2>3, <2>4, TypesTogether
  <1>5. ASSUME ResetCircuit PROVE BreakerInv'
    <2>1. CounterTypes'
      BY <1>5 DEF ResetCircuit, CounterTypes, BreakerTypeOK
    <2>2. FlagTypes'
      BY <1>5, Zenon DEF ResetCircuit, FlagTypes, BreakerTypeOK
    <2>3. CallTypes'
      BY <1>5 DEF ResetCircuit, CallTypes, BreakerTypeOK
    <2>4. HalfOpenIsProbed'
      BY <1>5 DEF ResetCircuit, HalfOpenIsProbed
    <2>5. QED
      BY <2>1, <2>2, <2>3, <2>4, TypesTogether
  <1>6. ASSUME ClockTick PROVE BreakerInv'
    <2>1. CounterTypes'
      BY <1>6 DEF ClockTick, CounterTypes, BreakerTypeOK
    <2>2. FlagTypes'
      BY <1>6, Zenon DEF ClockTick, FlagTypes, BreakerTypeOK
    <2>3. CallTypes'
      BY <1>6 DEF ClockTick, CallTypes, BreakerTypeOK
    <2>4. HalfOpenIsProbed'
      BY <1>6 DEF ClockTick, HalfOpenIsProbed
    <2>5. QED
      BY <2>1, <2>2, <2>3, <2>4, TypesTogether
  <1>7. ASSUME FlipModel PROVE BreakerInv'
    <2>1. CounterTypes'
      BY <1>7 DEF FlipModel, CounterTypes, BreakerTypeOK
    <2>2. FlagTypes'
      BY <1>7, Zenon DEF FlipModel, FlagTypes, BreakerTypeOK
    <2>3. CallTypes'
      BY <1>7 DEF FlipModel, CallTypes, BreakerTypeOK
    <2>4. HalfOpenIsProbed'
      BY <1>7 DEF FlipModel, HalfOpenIsProbed
    <2>5. QED
      BY <2>1, <2>2, <2>3, <2>4, TypesTogether
  <1>8. ASSUME UNCHANGED breakerVars PROVE BreakerInv'
    <2>1. CounterTypes'
      BY <1>8 DEF breakerVars, CounterTypes, BreakerTypeOK
    <2>2. FlagTypes'
      BY <1>8, Zenon DEF breakerVars, FlagTypes, BreakerTypeOK
    <2>3. CallTypes'
      BY <1>8 DEF breakerVars, CallTypes, BreakerTypeOK
    <2>4. HalfOpenIsProbed'
      BY <1>8 DEF breakerVars, HalfOpenIsProbed
    <2>5. QED
      BY <2>1, <2>2, <2>3, <2>4, TypesTogether
  <1>9. QED
    BY <1>1, <1>2, <1>3, <1>4, <1>5, <1>6, <1>7, <1>8 DEF BreakerNext, Settle

\* A half open phase admits one probe, and a circuit that refuses because of a
\* probe has that probe under way, however the results of earlier calls, an
\* administrator's reset and the retries fall into it.
THEOREM BreakerIsSafe == BreakerSpec => []BreakerSafety
  <1>1. BreakerInv => BreakerSafety
    BY DEF BreakerInv, BreakerSafety, HalfOpenIsProbed, OneProbePerPhase, RefusalAwaitsProbe
  <1>2. QED
    BY <1>1, BreakerInitInv, BreakerStep, PTL DEF BreakerSpec

----------------------------------------------------------------------------
(* ProviderCalls.                                                          *)

Steps == {"new", "open", "closed"}

Doing == {"idle", "primary", "fallback", "stream", "batch"}

Accounts ==
    [step : Steps, calls : Nat, input : Nat, output : Nat, expired : BOOLEAN,
     refused : 0 .. NotRefused]

RequestTypes == request \in [Requests -> Accounts]

WorkTypes ==
    /\ work \in [Requests -> [Workers -> Doing]]
    /\ prompt \in [Requests -> [Workers -> Prompts]]

FailoverTypes == failover \in 0 .. FailoverTTL /\ excuse \in 0 .. FailoverTTL

\* Strengthening: what was refused is refused for good, and so is every larger prompt.
\* Deadlines do not come back, and nothing that was charged is paid back.
RefusedForGood ==
    \A r \in Requests, p \in Prompts : p >= request[r].refused => ~MayCall(r, p)

\* The fallback is used at once for no longer than it is since the failure.
NoOlderThanFailure == failover + excuse <= FailoverTTL

ProviderInv ==
    /\ RequestTypes
    /\ WorkTypes
    /\ FailoverTypes
    /\ spent \in Nat
    /\ RefusedForGood
    /\ NoOlderThanFailure

LEMMA Limits ==
    /\ MaxCalls \in Nat /\ MaxInput \in Nat /\ MaxOutput \in Nat /\ MaxTotal \in Nat
    /\ CallInput \in Nat /\ CallOutput \in Nat /\ BatchSize \in Nat
    /\ Prompts \subseteq Nat /\ 0 \in Prompts /\ NotRefused \in Nat /\ 0 \in 0 .. NotRefused
  BY ProviderAssumption DEF Prompts, NotRefused

LEMMA ProviderInitInv == ProviderInit => ProviderInv
  <1> SUFFICES ASSUME ProviderInit PROVE ProviderInv
    OBVIOUS
  <1>1. RequestTypes /\ WorkTypes
    BY Limits DEF ProviderInit, RequestTypes, Accounts, WorkTypes, Steps, Doing
  <1>2. FailoverTypes /\ spent \in Nat /\ NoOlderThanFailure
    BY ProviderAssumption DEF ProviderInit, FailoverTypes, NoOlderThanFailure
  <1>3. RefusedForGood
    BY Limits DEF ProviderInit, RefusedForGood, Prompts, NotRefused
  <1> QED
    BY <1>1, <1>2, <1>3 DEF ProviderInv

\* A prompt as large as one that is refused is refused.
LEMMA LargerIsRefused ==
  ASSUME RequestTypes, NEW r \in Requests, NEW p \in Prompts, NEW q \in Prompts, p <= q,
         ~MayCall(r, p)
  PROVE  ~MayCall(r, q)
  <1>1. /\ p \in Nat /\ q \in Nat /\ request[r].input \in Nat /\ request[r].output \in Nat
        /\ MaxInput \in Nat /\ MaxTotal \in Nat
    BY Limits DEF RequestTypes, Accounts
  <1>2. Within(MaxInput, request[r].input + q) => Within(MaxInput, request[r].input + p)
    BY <1>1 DEF Within
  <1>3. Within(MaxTotal, request[r].input + request[r].output + q)
            => Within(MaxTotal, request[r].input + request[r].output + p)
    BY <1>1 DEF Within
  <1> QED
    BY <1>2, <1>3 DEF MayCall, CanStart

\* An account that has only grown refuses what it refused.
Grown(r) ==
    /\ request'[r].calls >= request[r].calls /\ request'[r].input >= request[r].input
    /\ request'[r].output >= request[r].output
    /\ request[r].expired => request'[r].expired

LEMMA GrownRefuses ==
  ASSUME RequestTypes, RequestTypes', NEW r \in Requests, Grown(r), NEW p \in Prompts,
         ~MayCall(r, p)
  PROVE  ~MayCall(r, p)'
  <1>1. /\ p \in Nat /\ request[r].calls \in Nat /\ request'[r].calls \in Nat
        /\ request[r].input \in Nat /\ request[r].output \in Nat
        /\ request'[r].input \in Nat /\ request'[r].output \in Nat
    BY Limits DEF RequestTypes, Accounts
  <1>2. /\ MaxCalls \in Nat /\ MaxInput \in Nat /\ MaxOutput \in Nat /\ MaxTotal \in Nat
    BY Limits
  <1>3. Within(MaxCalls, request'[r].calls + 1) => Within(MaxCalls, request[r].calls + 1)
    BY <1>1, <1>2 DEF Within, Grown
  <1>4. Within(MaxInput, request'[r].input + p) => Within(MaxInput, request[r].input + p)
    BY <1>1, <1>2 DEF Within, Grown
  <1>5. Within(MaxTotal, request'[r].input + request'[r].output + p)
            => Within(MaxTotal, request[r].input + request[r].output + p)
    BY <1>1, <1>2 DEF Within, Grown
  <1>6. Within(MaxOutput, request'[r].output + 1) => Within(MaxOutput, request[r].output + 1)
    BY <1>1, <1>2 DEF Within, Grown
  <1> QED
    BY <1>3, <1>4, <1>5, <1>6 DEF MayCall, CanStart, Grown

\* An account that has only grown, and remembers what it remembered, refuses for good.
LEMMA GrownForGood ==
  ASSUME RequestTypes, RequestTypes', RefusedForGood,
         \A q \in Requests : Grown(q) /\ request'[q].refused = request[q].refused
  PROVE  RefusedForGood'
  <1> SUFFICES ASSUME NEW q \in Requests, NEW p \in Prompts, p >= request'[q].refused
               PROVE  ~MayCall(q, p)'
    BY DEF RefusedForGood
  <1>1. ~MayCall(q, p)
    BY DEF RefusedForGood
  <1> QED
    BY <1>1, GrownRefuses

\* A charge only adds.
LEMMA ChargeKeepsRefusal ==
  ASSUME RequestTypes, RefusedForGood, spent \in Nat, NEW r \in Requests, NEW n \in Nat,
         NEW i \in Nat, NEW o \in Nat, Charge(r, n, i, o)
  PROVE  RequestTypes' /\ RefusedForGood' /\ spent' \in Nat
  <1>1. spent' = spent + n
    BY DEF Charge
  <1>2. PICK me : me = [request[r] EXCEPT !.calls = @ + n, !.input = @ + i, !.output = @ + o]
    OBVIOUS
  <1>3. request' = [request EXCEPT ![r] = me]
    BY <1>2 DEF Charge, RequestTypes
  <1>4. /\ me \in Accounts /\ me.calls = request[r].calls + n
        /\ me.input = request[r].input + i /\ me.output = request[r].output + o
        /\ me.expired = request[r].expired /\ me.refused = request[r].refused
    <2>1. PICK a \in Accounts : a = request[r]
      BY DEF RequestTypes
    <2>2. a.calls + n \in Nat /\ a.input + i \in Nat /\ a.output + o \in Nat
      BY <2>1 DEF Accounts
    <2>3. me = [a EXCEPT !.calls = a.calls + n, !.input = a.input + i, !.output = a.output + o]
      BY <1>2, <2>1
    <2> QED
      BY <2>1, <2>2, <2>3 DEF Accounts
  <1>5. RequestTypes'
    BY <1>3, <1>4 DEF RequestTypes
  <1>6. ASSUME NEW q \in Requests PROVE Grown(q) /\ request'[q].refused = request[q].refused
    <2>1. /\ request[q].calls \in Nat /\ request[q].input \in Nat /\ request[q].output \in Nat
      BY DEF RequestTypes, Accounts
    <2>2. CASE q = r
      BY <1>3, <1>4, <2>1, <2>2 DEF Grown, RequestTypes
    <2>3. CASE q # r
      BY <1>3, <2>1, <2>3 DEF Grown, RequestTypes
    <2> QED
      BY <2>2, <2>3
  <1> QED
    BY <1>1, <1>5, <1>6, GrownForGood

\* A refusal is remembered with the smallest prompt it covers.
LEMMA RefusalIsNoted ==
  ASSUME RequestTypes, RefusedForGood, NEW r \in Requests, NEW p \in Prompts,
         ~MayCall(r, p), NoteRefusal(r, p)
  PROVE  RequestTypes' /\ RefusedForGood'
  <1>1. PICK least : least = (IF ~MayCall(r, 0) THEN 0
                              ELSE IF p < request[r].refused THEN p ELSE request[r].refused)
    OBVIOUS
  <1>2. request' = [request EXCEPT ![r].refused = least]
    BY <1>1 DEF NoteRefusal, RequestTypes
  <1>3. least \in 0 .. NotRefused
    BY <1>1, Limits DEF RequestTypes, Accounts, Prompts, NotRefused
  <1>4. RequestTypes'
    BY <1>2, <1>3 DEF RequestTypes, Accounts
  <1>5. ASSUME NEW q \in Requests
        PROVE  /\ request'[q].calls = request[q].calls /\ request'[q].input = request[q].input
               /\ request'[q].output = request[q].output
               /\ request'[q].expired = request[q].expired
               /\ request'[q].refused = IF q = r THEN least ELSE request[q].refused
    BY <1>2 DEF RequestTypes, Accounts
  <1>6. ASSUME NEW q \in Requests, NEW s \in Prompts PROVE MayCall(q, s)' <=> MayCall(q, s)
    BY <1>5 DEF MayCall, CanStart
  <1>7. ASSUME NEW s \in Prompts, s >= least PROVE ~MayCall(r, s)
    <2>1. s \in Nat /\ p \in Nat /\ request[r].refused \in Nat
      BY Limits DEF RequestTypes, Accounts
    <2>2. CASE ~MayCall(r, 0)
      <3>1. 0 <= s
        BY <2>1
      <3> QED
        BY <2>2, <3>1, Limits, LargerIsRefused
    <2>3. CASE MayCall(r, 0) /\ p < request[r].refused
      <3>1. p <= s
        BY <1>1, <1>7, <2>3
      <3> QED
        BY <3>1, LargerIsRefused
    <2>4. CASE MayCall(r, 0) /\ ~(p < request[r].refused)
      BY <1>1, <1>7, <2>4 DEF RefusedForGood
    <2> QED
      BY <2>2, <2>3, <2>4
  <1>8. ASSUME NEW q \in Requests, NEW s \in Prompts, s >= request'[q].refused
        PROVE  ~MayCall(q, s)'
    <2>1. CASE q = r
      BY <1>5, <1>6, <1>7, <1>8, <2>1
    <2>2. CASE q # r
      BY <1>5, <1>6, <1>8, <2>2 DEF RefusedForGood
    <2> QED
      BY <2>1, <2>2
  <1> QED
    BY <1>4, <1>8 DEF RefusedForGood

LEMMA ProviderStep == ProviderInv /\ [ProviderNext]_providerVars => ProviderInv'
  <1> SUFFICES ASSUME ProviderInv, [ProviderNext]_providerVars PROVE ProviderInv'
    OBVIOUS
  <1> USE DEF ProviderInv
  <1>1. ASSUME NEW r \in Requests, NEW w \in Workers, NEW s \in Doing, NEW p \in Prompts,
               Set(r, w, s, p)
        PROVE  WorkTypes'
    BY <1>1 DEF Set, WorkTypes
  <1>a. ASSUME NEW r \in Requests, NEW w \in Workers, Stop(r, w) PROVE WorkTypes'
    BY <1>1, <1>a, Limits DEF Stop, Doing
  <1>b. ASSUME UNCHANGED <<work, prompt>> PROVE WorkTypes'
    BY <1>b DEF WorkTypes
  <1>2. ASSUME UNCHANGED request PROVE RequestTypes' /\ RefusedForGood'
    BY <1>2 DEF RequestTypes, RefusedForGood, MayCall, CanStart
  <1>3. ASSUME UNCHANGED <<failover, excuse>> PROVE FailoverTypes' /\ NoOlderThanFailure'
    BY <1>3 DEF FailoverTypes, NoOlderThanFailure
  <1>4. ASSUME NEW r \in Requests, TakeRuntime(r) \/ EndRequest(r) \/ DeadlinePasses(r)
        PROVE  ProviderInv'
    <2>1. /\ \/ \E s \in Steps : request' = [request EXCEPT ![r].step = s]
             \/ request' = [request EXCEPT ![r].expired = TRUE]
          /\ UNCHANGED <<work, prompt, failover, excuse, spent>>
      BY <1>4 DEF TakeRuntime, EndRequest, DeadlinePasses, Steps
    <2>2. RequestTypes'
      BY <2>1 DEF RequestTypes, Accounts
    <2>3. \A q \in Requests : Grown(q) /\ request'[q].refused = request[q].refused
      <3> TAKE q \in Requests
      <3>1. /\ request[q].calls \in Nat /\ request[q].input \in Nat /\ request[q].output \in Nat
        BY DEF RequestTypes, Accounts
      <3> QED
        BY <2>1, <3>1 DEF Grown, RequestTypes, Accounts
    <2>4. RefusedForGood'
      BY <2>2, <2>3, GrownForGood
    <2>5. QED
      BY <1>3, <1>b, <2>1, <2>2, <2>4
  <1>6. ASSUME NEW r \in Requests, NEW w \in Workers, Refuse(r, w) \/ RefuseFailOver(r, w)
        PROVE  ProviderInv'
    <2>1. /\ \E p \in Prompts : ~MayCall(r, p) /\ NoteRefusal(r, p)
          /\ Stop(r, w) \/ UNCHANGED <<work, prompt>>
          /\ UNCHANGED <<failover, excuse, spent>>
      <3>1. prompt[r][w] \in Prompts
        BY DEF WorkTypes
      <3> QED
        BY <1>6, <3>1 DEF Refuse, RefuseFailOver, MayFailOver
    <2>2. RequestTypes' /\ RefusedForGood'
      BY <2>1, RefusalIsNoted
    <2>3. WorkTypes'
      BY <1>a, <1>b, <2>1
    <2>4. QED
      BY <1>3, <2>1, <2>2, <2>3
  <1>7. ASSUME NEW r \in Requests, NEW w \in Workers,
               ProviderAnswers(r, w) \/ StartStream(r, w) \/ BatchAnswers(r, w)
        PROVE  ProviderInv'
    <2>1. /\ Stop(r, w) \/ \E p \in Prompts : Set(r, w, "stream", p)
          /\ \E n, i, o \in Nat : Charge(r, n, i, o)
          /\ UNCHANGED <<failover, excuse>>
      <3>1. CASE ProviderAnswers(r, w)
        BY <3>1, Limits DEF ProviderAnswers, Prompts
      <3>2. CASE StartStream(r, w)
        BY <3>2, Limits DEF StartStream
      <3>3. CASE BatchAnswers(r, w)
        <4>1. BatchSize * CallInput \in Nat /\ BatchSize * CallOutput \in Nat
              /\ BatchSize \in Nat
          BY Limits
        <4>2. PICK i \in 0 .. (BatchSize * CallInput), o \in 0 .. (BatchSize * CallOutput) :
                 Charge(r, BatchSize, i, o)
          BY <3>3 DEF BatchAnswers
        <4>3. i \in Nat /\ o \in Nat
          BY <4>1, <4>2
        <4>4. QED
          BY <3>3, <4>1, <4>2, <4>3 DEF BatchAnswers
      <3>4. QED
        BY <1>7, <3>1, <3>2, <3>3
    <2>2. WorkTypes'
      BY <1>1, <1>a, <2>1 DEF Doing
    <2>3. QED
      BY <1>3, <2>1, <2>2, ChargeKeepsRefusal
  <1>8. ASSUME NEW r \in Requests, NEW w \in Workers,
               StartGenerate(r, w) \/ CallFails(r, w) \/ StreamStops(r, w) \/ StartBatch(r, w)
        PROVE  ProviderInv'
    <2>1. /\ Stop(r, w) \/ \E s \in Doing, p \in Prompts : Set(r, w, s, p)
          /\ UNCHANGED <<request, failover, excuse, spent>>
      BY <1>8 DEF StartGenerate, CallFails, StreamStops, StartBatch, Doing
    <2>2. WorkTypes'
      BY <1>1, <1>a, <2>1
    <2>3. QED
      BY <1>2, <1>3, <2>1, <2>2
  <1>9. ASSUME NEW r \in Requests, NEW w \in Workers, FailOver(r, w) PROVE ProviderInv'
    <2>1. /\ Set(r, w, "fallback", prompt[r][w]) /\ failover' = FailoverTTL /\ excuse' = 0
          /\ UNCHANGED <<request, spent>> /\ prompt[r][w] \in Prompts
      BY <1>9 DEF FailOver, WorkTypes
    <2>2. FailoverTypes' /\ NoOlderThanFailure'
      BY <2>1, ProviderAssumption DEF FailoverTypes, NoOlderThanFailure
    <2>3. QED
      BY <1>1, <1>2, <2>1, <2>2 DEF Doing
  <1>10. CASE FailoverTick
    <2>1. /\ failover' = IF failover > 0 THEN failover - 1 ELSE 0
          /\ excuse' = IF excuse < FailoverTTL THEN excuse + 1 ELSE excuse
          /\ UNCHANGED <<request, work, prompt, spent>>
      BY <1>10 DEF FailoverTick
    <2>2. FailoverTypes' /\ NoOlderThanFailure'
      BY <2>1, ProviderAssumption DEF FailoverTypes, NoOlderThanFailure
    <2>3. QED
      BY <1>2, <1>b, <2>1, <2>2
  <1>11. CASE FlipPrimary \/ UNCHANGED providerVars
    <2>1. UNCHANGED <<request, work, prompt, failover, excuse, spent>>
      BY <1>11 DEF FlipPrimary, providerVars
    <2>2. QED
      BY <1>2, <1>3, <1>b, <2>1
  <1>12. QED
    BY <1>4, <1>6, <1>7, <1>8, <1>9, <1>10, <1>11 DEF ProviderNext, Serve

\* Once a prompt was refused, whatever node swallows the refusal, no worker of the request
\* starts a call, a stream, a batch or a fallback with one as large.
THEOREM RefusalHolds == ProviderSpec => RefusalIsFinal
  <1> DEFINE Final == \A r \in Requests, w \in Workers :
                          work'[r][w] \notin {work[r][w], "idle"} => prompt'[r][w] < request[r].refused
  <1>1. ProviderInv /\ [ProviderNext]_providerVars => [Final]_providerVars
    <2> SUFFICES ASSUME ProviderInv, ProviderNext PROVE Final
      OBVIOUS
    <2>1. ASSUME NEW r \in Requests, NEW w \in Workers, Serve(r, w) PROVE Final
      <3>1. CASE Stop(r, w)
        BY <3>1 DEF Stop, Set, ProviderInv, WorkTypes
      <3>2. CASE UNCHANGED work
        BY <3>2
      <3>3. ASSUME NEW p \in Prompts, p < request[r].refused, NEW s \in Doing, Set(r, w, s, p)
            PROVE  Final
        BY <3>3 DEF Set, ProviderInv, WorkTypes
      <3>4. CASE StartGenerate(r, w) \/ StartStream(r, w) \/ StartBatch(r, w) \/ FailOver(r, w)
        <4>1. \E p \in Prompts : MayCall(r, p) /\ \E s \in Doing : Set(r, w, s, p)
          <5>1. prompt[r][w] \in Prompts
            BY DEF ProviderInv, WorkTypes
          <5> QED
            BY <3>4, <5>1 DEF StartGenerate, StartStream, StartBatch, FailOver, MayFailOver, Doing
        <4>2. PICK p \in Prompts : MayCall(r, p) /\ \E s \in Doing : Set(r, w, s, p)
          BY <4>1
        <4>3. p \in Nat /\ request[r].refused \in Nat
          BY Limits DEF ProviderInv, RequestTypes, Accounts
        <4>4. p < request[r].refused
          BY <4>2, <4>3 DEF ProviderInv, RefusedForGood
        <4>5. QED
          BY <3>3, <4>2, <4>4
      <3>5. CASE Refuse(r, w)
        BY <3>2, <3>5 DEF Refuse
      <3>6. CASE \/ ProviderAnswers(r, w) \/ RefuseFailOver(r, w) \/ CallFails(r, w)
                 \/ StreamStops(r, w) \/ BatchAnswers(r, w)
        BY <3>1, <3>6 DEF ProviderAnswers, RefuseFailOver, CallFails, StreamStops, BatchAnswers
      <3>7. QED
        BY <2>1, <3>4, <3>5, <3>6 DEF Serve
    <2>2. CASE \/ \E r \in Requests : TakeRuntime(r) \/ DeadlinePasses(r) \/ EndRequest(r)
               \/ FailoverTick \/ FlipPrimary
      BY <2>2 DEF TakeRuntime, DeadlinePasses, EndRequest, FailoverTick, FlipPrimary
    <2>3. QED
      BY <2>1, <2>2 DEF ProviderNext
  <1>2. QED
    BY <1>1, ProviderInitInv, ProviderStep, PTL DEF ProviderSpec, RefusalIsFinal

\* The fallback is the first choice only within its time to live after a failure.
THEOREM FallbackHasExcuse == ProviderSpec => []FallbackExcused
  <1>1. ProviderInv => FallbackExcused
    BY ProviderAssumption DEF ProviderInv, FailoverTypes, NoOlderThanFailure, FallbackExcused
  <1>2. QED
    BY <1>1, ProviderInitInv, ProviderStep, PTL DEF ProviderSpec

\* The overrun of a budget, counted by the workers that call and those that run a batch.

Calling(doing) == {w \in Workers : doing[w] \in {"primary", "fallback"}}

Batching(doing) == {w \in Workers : doing[w] = "batch"}

LEMMA UnderWaySplit ==
  ASSUME NEW d
  PROVE  /\ IsFiniteSet(Calling(d)) /\ IsFiniteSet(Batching(d))
         /\ Cardinality(Calling(d)) \in Nat /\ Cardinality(Batching(d)) \in Nat
         /\ Cardinality(Workers) \in Nat
         /\ UnderWay(d) = Cardinality(Calling(d)) + BatchSize * Cardinality(Batching(d))
         /\ UnderWay(d) \in Nat
  <1>1. IsFiniteSet(Calling(d)) /\ IsFiniteSet(Batching(d))
    <2>1. Calling(d) \subseteq Workers /\ Batching(d) \subseteq Workers
      BY DEF Calling, Batching
    <2>2. QED
      BY <2>1, FS_Subset, ProviderAssumption, Zenon
  <1>2. /\ Cardinality(Calling(d)) \in Nat /\ Cardinality(Batching(d)) \in Nat
        /\ Cardinality(Workers) \in Nat
    BY <1>1, FS_CardinalityType, ProviderAssumption
  <1>3. UnderWay(d) = Cardinality(Calling(d)) + BatchSize * Cardinality(Batching(d))
    BY DEF UnderWay, Calling, Batching
  <1>4. BatchSize * Cardinality(Batching(d)) \in Nat
    BY <1>2, ProviderAssumption
  <1>5. QED
    BY <1>1, <1>2, <1>3, <1>4

LEMMA Crowd ==
  ASSUME NEW b \in Nat \ {0}, NEW x \in Nat, NEW y \in Nat, NEW n \in Nat, x + y <= n
  PROVE  x + b * y <= b * n
  <1>1. PICK k \in Nat : n = y + k
    <2>1. n - y \in Nat /\ n = y + (n - y)
      OBVIOUS
    <2>2. QED
      BY <2>1
  <1>2. b * n = b * y + b * k
    BY <1>1
  <1>3. x <= k
    BY <1>1
  <1>4. k <= b * k
    <2>1. PICK c \in Nat : b = c + 1
      <3>1. b - 1 \in Nat /\ b = (b - 1) + 1
        OBVIOUS
      <3>2. QED
        BY <3>1
    <2>2. b * k = c * k + k /\ c * k \in Nat
      BY <2>1
    <2>3. QED
      BY <2>2
  <1>5. b * y \in Nat /\ b * k \in Nat /\ b * n \in Nat
    OBVIOUS
  <1>6. QED
    BY <1>2, <1>3, <1>4, <1>5

\* However many workers call and run batches, and one more does nothing yet.
LEMMA UnderWayBounded ==
  ASSUME NEW d \in [Workers -> Doing]
  PROVE  /\ UnderWay(d) <= BatchSize * Cardinality(Workers)
         /\ \A w \in Workers : d[w] \in {"idle", "stream"} =>
                UnderWay(d) + 1 <= BatchSize * Cardinality(Workers)
  <1> DEFINE a == Cardinality(Calling(d))
             b == Cardinality(Batching(d))
             n == Cardinality(Workers)
             u == Calling(d) \cup Batching(d)
  <1>1. Cardinality(u) = a + b /\ IsFiniteSet(u) /\ u \subseteq Workers
    <2>1. Calling(d) \cap Batching(d) = {} /\ u \subseteq Workers
      BY DEF Calling, Batching
    <2>2. /\ IsFiniteSet(u)
          /\ Cardinality(u) = a + b - Cardinality(Calling(d) \cap Batching(d))
      BY UnderWaySplit, FS_Union, Zenon
    <2>3. Cardinality(Calling(d) \cap Batching(d)) = 0
      BY <2>1, FS_EmptySet
    <2>4. QED
      BY <2>1, <2>2, <2>3, UnderWaySplit
  <1>2. a + b <= n
    <2>1. Cardinality(u) <= n
      BY <1>1, FS_Subset, ProviderAssumption, Zenon
    <2>2. QED
      BY <1>1, <2>1
  <1>3. a \in Nat /\ b \in Nat /\ n \in Nat /\ UnderWay(d) = a + BatchSize * b
    BY UnderWaySplit
  <1>4. ASSUME NEW w \in Workers, d[w] \in {"idle", "stream"} PROVE a + 1 + b <= n
    <2>1. w \notin u
      BY <1>4 DEF Calling, Batching
    <2>2. Cardinality(u \cup {w}) = a + b + 1
      BY <1>1, <2>1, FS_AddElement
    <2>3. u \cup {w} \subseteq Workers
      BY <1>1
    <2>4. Cardinality(u \cup {w}) <= n
      BY <2>3, FS_Subset, ProviderAssumption, Zenon
    <2>5. QED
      BY <1>3, <2>2, <2>4
  <1> HIDE DEF a, b, n, u
  <1>5. a + BatchSize * b <= BatchSize * n
    BY <1>2, <1>3, Crowd, ProviderAssumption
  <1>6. ASSUME NEW w \in Workers, d[w] \in {"idle", "stream"}
        PROVE  UnderWay(d) + 1 <= BatchSize * n
    <2>1. a + 1 + BatchSize * b <= BatchSize * n
      BY <1>3, <1>4, <1>6, Crowd, ProviderAssumption
    <2>2. BatchSize * b \in Nat /\ BatchSize * n \in Nat
      BY <1>3, ProviderAssumption
    <2>3. QED
      BY <1>3, <2>1, <2>2
  <1>7. QED
    BY <1>3, <1>5, <1>6 DEF n

Price(s) == IF s \in {"primary", "fallback"} THEN 1 ELSE IF s = "batch" THEN BatchSize ELSE 0

\* A worker that stops takes what it had under way with it.
LEMMA Stopping ==
  ASSUME NEW d \in [Workers -> Doing], NEW w \in Workers
  PROVE  UnderWay([d EXCEPT ![w] = "idle"]) + Price(d[w]) = UnderWay(d)
  <1> DEFINE e == [d EXCEPT ![w] = "idle"]
  <1> SUFFICES UnderWay(e) + Price(d[w]) = UnderWay(d)
    OBVIOUS
  <1>1. /\ IsFiniteSet(Calling(d)) /\ IsFiniteSet(Batching(d))
        /\ Cardinality(Calling(d)) \in Nat /\ Cardinality(Batching(d)) \in Nat
        /\ UnderWay(d) = Cardinality(Calling(d)) + BatchSize * Cardinality(Batching(d))
        /\ UnderWay(e) = Cardinality(Calling(e)) + BatchSize * Cardinality(Batching(e))
        /\ BatchSize \in Nat
    BY UnderWaySplit, ProviderAssumption
  <1>2. Calling(e) = Calling(d) \ {w} /\ Batching(e) = Batching(d) \ {w}
    BY DEF Calling, Batching
  <1> HIDE DEF e
  <1>3. CASE d[w] \in {"primary", "fallback"}
    <2>1. w \in Calling(d) /\ w \notin Batching(d)
      BY <1>3 DEF Calling, Batching
    <2>2. Cardinality(Calling(d) \ {w}) = Cardinality(Calling(d)) - 1
      BY <1>1, <2>1, FS_RemoveElement
    <2>3. Batching(e) = Batching(d)
      BY <1>2, <2>1
    <2>4. Price(d[w]) = 1
      BY <1>3 DEF Price
    <2>5. BatchSize * Cardinality(Batching(d)) \in Nat
      BY <1>1
    <2>6. UnderWay(e) = (Cardinality(Calling(d)) - 1) + BatchSize * Cardinality(Batching(d))
      BY <1>1, <1>2, <2>2, <2>3, Zenon
    <2>7. QED
      BY <1>1, <2>4, <2>5, <2>6
  <1>4. CASE d[w] = "batch"
    <2>1. w \notin Calling(d) /\ w \in Batching(d)
      BY <1>4 DEF Calling, Batching
    <2>2. Cardinality(Batching(d) \ {w}) = Cardinality(Batching(d)) - 1
      BY <1>1, <2>1, FS_RemoveElement
    <2>3. Calling(e) = Calling(d)
      BY <1>2, <2>1
    <2>4. Price(d[w]) = BatchSize
      BY <1>4 DEF Price
    <2>5. BatchSize * (Cardinality(Batching(d)) - 1) + BatchSize
              = BatchSize * Cardinality(Batching(d))
      BY <1>1
    <2>6. /\ BatchSize * (Cardinality(Batching(d)) - 1) \in Int
          /\ BatchSize * Cardinality(Batching(d)) \in Int
      BY <1>1
    <2>7. /\ UnderWay(e) = Cardinality(Calling(d))
                             + BatchSize * (Cardinality(Batching(d)) - 1)
          /\ UnderWay(d) = Cardinality(Calling(d)) + BatchSize * Cardinality(Batching(d))
          /\ Cardinality(Calling(d)) \in Nat
      BY <1>1, <1>2, <2>2, <2>3, Zenon
    <2>8. QED
      BY <2>4, <2>5, <2>6, <2>7, ProviderAssumption
  <1>5. CASE d[w] \in {"idle", "stream"}
    <2>1. w \notin Calling(d) /\ w \notin Batching(d)
      BY <1>5 DEF Calling, Batching
    <2>2. Calling(e) = Calling(d) /\ Batching(e) = Batching(d)
      BY <1>2, <2>1
    <2>3. Price(d[w]) = 0
      BY <1>5 DEF Price
    <2>4. UnderWay(d) \in Nat
      BY UnderWaySplit
    <2>5. QED
      BY <1>1, <2>2, <2>3, <2>4
  <1>6. QED
    BY <1>3, <1>4, <1>5 DEF Doing

\* A worker that goes over to the fallback has the one call under way that it had.
LEMMA GoingOver ==
  ASSUME NEW d \in [Workers -> Doing], NEW w \in Workers, d[w] = "primary"
  PROVE  UnderWay([d EXCEPT ![w] = "fallback"]) = UnderWay(d)
  <1> DEFINE e == [d EXCEPT ![w] = "fallback"]
  <1>1. Calling(e) = Calling(d) /\ Batching(e) = Batching(d)
    BY DEF Calling, Batching
  <1>2. QED
    BY <1>1, UnderWaySplit

Limit == MaxCalls - 1 + BatchSize * Cardinality(Workers)

\* What one request does leaves the others where they were.
LEMMA OneRequest ==
  ASSUME MaxCalls > 0, OverrunBounded, NEW r \in Requests,
         \A q \in Requests \ {r} : request'[q].calls = request[q].calls /\ work'[q] = work[q],
         request'[r].calls + UnderWay(work'[r]) <= Limit
  PROVE  OverrunBounded'
  <1>1. ASSUME NEW q \in Requests PROVE request'[q].calls + UnderWay(work'[q]) <= Limit
    <2>1. CASE q = r
      BY <2>1
    <2>2. CASE q # r
      <3>1. request[q].calls + UnderWay(work[q]) <= Limit
        BY DEF OverrunBounded, Limit
      <3>2. request'[q].calls = request[q].calls /\ work'[q] = work[q]
        BY <2>2
      <3>3. QED
        BY <3>1, <3>2, Zenon
    <2>3. QED
      BY <2>1, <2>2
  <1>2. QED
    BY <1>1 DEF OverrunBounded, Limit

LEMMA LimitNat ==
  ASSUME MaxCalls > 0
  PROVE  /\ Limit \in Nat /\ Limit = (MaxCalls - 1) + BatchSize * Cardinality(Workers)
         /\ BatchSize * Cardinality(Workers) \in Nat
  <1>1. Cardinality(Workers) \in Nat
    BY FS_CardinalityType, ProviderAssumption
  <1>2. BatchSize * Cardinality(Workers) \in Nat
    BY <1>1, ProviderAssumption
  <1>3. QED
    BY <1>2, Limits DEF Limit

\* What changes no account leaves the calls of every request as they were.
LEMMA RefusalCostsNoCall ==
  ASSUME RequestTypes, NEW r \in Requests, NEW p, NoteRefusal(r, p)
  PROVE  \A q \in Requests : request'[q].calls = request[q].calls
  BY DEF NoteRefusal, RequestTypes, Accounts

LEMMA OverrunStep ==
  ProviderInv /\ OverrunBounded /\ [ProviderNext]_providerVars => OverrunBounded'
  <1> SUFFICES ASSUME MaxCalls > 0, ProviderInv, OverrunBounded, [ProviderNext]_providerVars
               PROVE  OverrunBounded'
    BY DEF OverrunBounded
  <1>1. ASSUME UNCHANGED work, \A q \in Requests : request'[q].calls = request[q].calls
        PROVE  OverrunBounded'
    BY <1>1 DEF OverrunBounded
  <1>2. ASSUME NEW r \in Requests, TakeRuntime(r) \/ DeadlinePasses(r) \/ EndRequest(r)
        PROVE  OverrunBounded'
    <2>1. UNCHANGED work
      BY <1>2 DEF TakeRuntime, DeadlinePasses, EndRequest
    <2>2. \A q \in Requests : request'[q].calls = request[q].calls
      <3>1. CASE TakeRuntime(r) \/ EndRequest(r)
        <4>1. \E s \in Steps : request' = [request EXCEPT ![r].step = s]
          BY <3>1 DEF TakeRuntime, EndRequest, Steps
        <4>2. QED
          BY <4>1 DEF ProviderInv, RequestTypes, Accounts
      <3>2. CASE DeadlinePasses(r)
        BY <3>2 DEF DeadlinePasses, ProviderInv, RequestTypes, Accounts
      <3>3. QED
        BY <1>2, <3>1, <3>2
    <2>3. QED
      BY <1>1, <2>1, <2>2
  <1>3. CASE FailoverTick \/ FlipPrimary \/ UNCHANGED providerVars
    BY <1>1, <1>3 DEF FailoverTick, FlipPrimary, providerVars
  <1>4. ASSUME NEW r \in Requests, NEW w \in Workers, Serve(r, w) PROVE OverrunBounded'
    <2> DEFINE c == request[r].calls
               d == work[r]
    <2>1. /\ c \in Nat /\ d \in [Workers -> Doing] /\ c + UnderWay(d) <= Limit
          /\ UnderWay(d) \in Nat /\ Limit \in Nat
      BY UnderWaySplit, LimitNat
      DEF ProviderInv, RequestTypes, Accounts, WorkTypes, OverrunBounded, Limit
    <2>2. ASSUME NEW s \in Doing, NEW p, Set(r, w, s, p)
          PROVE  /\ work'[r] = [d EXCEPT ![w] = s] /\ work'[r] \in [Workers -> Doing]
                 /\ \A q \in Requests \ {r} : work'[q] = work[q]
      BY <2>2 DEF Set, ProviderInv, WorkTypes
    <2>3. ASSUME NEW n \in Nat, NEW i, NEW o, Charge(r, n, i, o)
          PROVE  /\ request'[r].calls = c + n
                 /\ \A q \in Requests \ {r} : request'[q].calls = request[q].calls
      BY <2>3 DEF Charge, ProviderInv, RequestTypes, Accounts
    <2>4. ASSUME NEW s \in Doing, NEW p, Set(r, w, s, p),
                 request'[r].calls + UnderWay(work'[r]) <= Limit,
                 \A q \in Requests \ {r} : request'[q].calls = request[q].calls
          PROVE  OverrunBounded'
      BY <2>2, <2>4, OneRequest
    <2>0. ASSUME NEW p, MayCall(r, p) PROVE c <= MaxCalls - 1
      BY <2>0, <2>1, Limits DEF MayCall, CanStart, Within
    \* A call that starts finds the budget unspent.
    <2>5. CASE StartGenerate(r, w) \/ StartBatch(r, w)
      <3>1. /\ UNCHANGED request /\ c <= MaxCalls - 1
            /\ \E s \in Doing, p \in Prompts : Set(r, w, s, p)
        <4>1. /\ UNCHANGED request
              /\ \E p \in Prompts : MayCall(r, p) /\ \E s \in Doing : Set(r, w, s, p)
          BY <2>5 DEF StartGenerate, StartBatch, Doing
        <4>2. c <= MaxCalls - 1
          BY <2>0, <4>1
        <4>3. QED
          BY <4>1, <4>2
      <3>2. UnderWay(work'[r]) \in Nat /\ UnderWay(work'[r]) <= BatchSize * Cardinality(Workers)
        BY <2>2, <3>1, UnderWayBounded, UnderWaySplit
      <3>3. request'[r].calls + UnderWay(work'[r]) <= Limit
        BY <2>1, <3>1, <3>2, LimitNat, Limits
      <3>4. QED
        BY <2>4, <3>1, <3>3
    \* A stream is paid for when it starts and has nothing under way.
    <2>6. CASE StartStream(r, w)
      <3>0. PICK p \in Prompts : MayCall(r, p) /\ Set(r, w, "stream", p) /\ Charge(r, 1, p, 0)
        BY <2>6 DEF StartStream
      <3>1. c <= MaxCalls - 1 /\ "stream" \in Doing
        BY <2>0, <3>0 DEF Doing
      <3>2. work'[r] \in [Workers -> Doing] /\ work'[r][w] = "stream"
        BY <2>2, <2>1, <3>0, <3>1
      <3>3. /\ UnderWay(work'[r]) \in Nat
            /\ UnderWay(work'[r]) + 1 <= BatchSize * Cardinality(Workers)
        BY <3>2, UnderWayBounded, UnderWaySplit
      <3>4. /\ request'[r].calls = c + 1
            /\ \A q \in Requests \ {r} : request'[q].calls = request[q].calls
        BY <2>3, <3>0
      <3>5. request'[r].calls + UnderWay(work'[r]) <= Limit
        BY <2>1, <3>1, <3>3, <3>4, LimitNat, Limits
      <3>6. QED
        BY <2>4, <3>0, <3>1, <3>4, <3>5
    \* What was under way is charged, or what failed is not.
    <2>7. ASSUME Stop(r, w)
          PROVE  UnderWay(work'[r]) \in Nat /\ UnderWay(work'[r]) + Price(d[w]) = UnderWay(d)
      <3>1. work'[r] = [d EXCEPT ![w] = "idle"]
        BY <2>2, <2>7 DEF Stop, Doing
      <3>2. UnderWay([d EXCEPT ![w] = "idle"]) + Price(d[w]) = UnderWay(d)
        BY <2>1, Stopping
      <3>3. QED
        BY <3>1, <3>2, UnderWaySplit, Zenon
    <2>8. CASE ProviderAnswers(r, w) \/ BatchAnswers(r, w)
      <3>1. /\ Stop(r, w) /\ Price(d[w]) \in Nat
            /\ \E i, o : Charge(r, Price(d[w]), i, o)
        <4>1. CASE ProviderAnswers(r, w)
          <5>1. Price(d[w]) = 1
            BY <4>1 DEF ProviderAnswers, Price
          <5>2. QED
            BY <4>1, <5>1 DEF ProviderAnswers
        <4>2. CASE BatchAnswers(r, w)
          <5>1. Price(d[w]) = BatchSize /\ BatchSize \in Nat
            BY <4>2, Limits DEF BatchAnswers, Price
          <5>2. QED
            BY <4>2, <5>1 DEF BatchAnswers
        <4>3. QED
          BY <2>8, <4>1, <4>2
      <3>2. /\ request'[r].calls = c + Price(d[w])
            /\ \A q \in Requests \ {r} : request'[q].calls = request[q].calls
        BY <2>3, <3>1
      <3>3. request'[r].calls + UnderWay(work'[r]) <= Limit
        BY <2>1, <2>7, <3>1, <3>2
      <3>4. QED
        BY <2>4, <3>1, <3>2, <3>3 DEF Stop, Doing
    <2>9. CASE CallFails(r, w) \/ StreamStops(r, w) \/ RefuseFailOver(r, w)
      <3>1. /\ Stop(r, w) /\ \A q \in Requests : request'[q].calls = request[q].calls
        BY <2>9, RefusalCostsNoCall DEF CallFails, StreamStops, RefuseFailOver, ProviderInv
      <3>2. Price(d[w]) \in Nat
        BY Limits DEF Price
      <3>3. request'[r].calls + UnderWay(work'[r]) <= Limit
        BY <2>1, <2>7, <3>1, <3>2
      <3>4. QED
        BY <2>4, <3>1, <3>3 DEF Stop, Doing
    <2>10. CASE FailOver(r, w)
      <3>1. Set(r, w, "fallback", prompt[r][w]) /\ d[w] = "primary" /\ UNCHANGED request
        BY <2>10 DEF FailOver
      <3>2. UnderWay(work'[r]) = UnderWay(d)
        <4>1. work'[r] = [d EXCEPT ![w] = "fallback"]
          BY <2>2, <3>1 DEF Doing
        <4>2. UnderWay([d EXCEPT ![w] = "fallback"]) = UnderWay(d)
          BY <2>1, <3>1, GoingOver
        <4>3. QED
          BY <4>1, <4>2, Zenon
      <3>3. request'[r].calls + UnderWay(work'[r]) <= Limit
        BY <2>1, <3>1, <3>2
      <3>4. QED
        BY <2>4, <3>1, <3>3 DEF Doing
    <2>11. CASE Refuse(r, w)
      <3>1. UNCHANGED work
        BY <2>11 DEF Refuse
      <3>2. \A q \in Requests : request'[q].calls = request[q].calls
        BY <2>11, RefusalCostsNoCall DEF Refuse, ProviderInv
      <3>3. QED
        BY <1>1, <3>1, <3>2
    <2>12. QED
      BY <1>4, <2>5, <2>6, <2>8, <2>9, <2>10, <2>11 DEF Serve
  <1>5. QED
    BY <1>2, <1>3, <1>4 DEF ProviderNext

LEMMA OverrunInit == ProviderInit => OverrunBounded
  <1> SUFFICES ASSUME MaxCalls > 0, ProviderInit, NEW r \in Requests
               PROVE  request[r].calls + UnderWay(work[r]) <= Limit
    BY DEF OverrunBounded, Limit
  <1>1. request[r].calls = 0 /\ work[r] \in [Workers -> Doing]
    BY DEF ProviderInit, Doing
  <1>2. /\ UnderWay(work[r]) \in Nat
        /\ UnderWay(work[r]) <= BatchSize * Cardinality(Workers)
    BY <1>1, UnderWayBounded, UnderWaySplit
  <1>3. QED
    BY <1>1, <1>2, LimitNat, Limits

\* What a request spends beyond its budget is what its workers had under way when the budget
\* ran out and no more, a refused prompt is not sent later, and the fallback is the first choice
\* only within its time to live after a failure.
THEOREM ProvidersAreBounded == ProviderSpec => ProviderSafety
  <1>1. ProviderInv => ProviderTypeOK /\ FallbackExcused
    <2> SUFFICES ASSUME ProviderInv PROVE ProviderTypeOK /\ FallbackExcused
      OBVIOUS
    <2>1. \A r \in Requests :
             /\ request[r].step \in {"new", "open", "closed"}
             /\ {request[r].calls, request[r].input, request[r].output} \subseteq Nat
             /\ request[r].refused \in 0 .. NotRefused
      BY DEF ProviderInv, RequestTypes, Accounts, Steps
    <2>2. FallbackExcused
      BY ProviderAssumption DEF ProviderInv, FailoverTypes, NoOlderThanFailure, FallbackExcused
    <2>3. QED
      BY <2>1, <2>2 DEF ProviderInv, WorkTypes, Doing, FailoverTypes, ProviderTypeOK
  <1>2. ProviderSpec => RefusalIsFinal
    BY RefusalHolds
  <1>3. QED
    BY <1>1, <1>2, ProviderInitInv, ProviderStep, OverrunInit, OverrunStep, PTL
    DEF ProviderSpec, ProviderSafety

----------------------------------------------------------------------------
(* TraceLedger.                                                            *)

Nodes == {"classify", "transform", "retrieve", "grade", "generate", "verify", "evaluate",
          "rewrite", "suggest", "log", "handle_error"}

Charging == {"none", "classify", "transform", "grade", "generate", "verify", "evaluate",
             "rewrite", "suggest", "retrieve"}

\* The node whose usage a request can carry when it enters a node: never that node, since
\* between two visits of a node the request passes one that recorded a call of its own.
Carried == [classify  |-> {"none"},
            transform |-> {"none", "classify"},
            retrieve  |-> {"none", "classify", "transform", "evaluate", "rewrite"},
            grade     |-> {"none", "classify", "transform", "evaluate", "rewrite", "retrieve"},
            generate  |-> {"none", "classify", "transform", "evaluate", "rewrite", "retrieve", "grade"},
            verify    |-> {"generate"},
            evaluate  |-> {"generate", "verify"},
            rewrite   |-> {"evaluate"},
            suggest   |-> {"evaluate"},
            log       |-> Charging,
            handle_error |-> Charging]

Runs == [at : Nodes \cup {"new", "end"}, phase : {"idle", "call", "answered", "captured"},
         thread : PoolThreads \cup {NoThread}, model : Llms, calls : 0 .. MaxModelCalls,
         usage : [node : Charging, from : SUBSET Responses], got : SUBSET Responses,
         recorded : BOOLEAN, streamed : BOOLEAN]

Rows == [trace : {"none", "open", "finished", "purged"}, steps : BOOLEAN, age : Nat,
         feedback : BOOLEAN, late : BOOLEAN]

LedgerTyped ==
    /\ last \in [PoolThreads -> [Llms -> Responses \cup {NoResponse}]]
    /\ traced \in [TracedRuns -> Runs]
    /\ row \in [TracedRuns -> Rows]
    /\ charged \in [once : SUBSET Responses, twice : BOOLEAN, foreign : BOOLEAN]
    /\ purge \in [step : {"idle", "delete"}, selected : SUBSET TracedRuns]

InGraph(r) == traced[r].at \notin {"new", "end"}

\* What holds of a request by itself: a running request has a thread, only the generate
\* node streams, the usage it carries is of a node behind it, and what it gathered without
\* a stream is of its own calls and not charged yet.
RunIsSound(r) ==
    /\ traced[r].at = "new" => traced[r] = NoRun("new")
    /\ ~InGraph(r) => traced[r].thread = NoThread /\ traced[r].phase = "idle"
    /\ InGraph(r) => /\ traced[r].thread \in PoolThreads
                     /\ traced[r].phase # "idle"
                     /\ traced[r].usage.node \in Carried[traced[r].at]
    /\ traced[r].streamed => traced[r].at = "generate"
    /\ ~traced[r].streamed => \A x \in traced[r].got :
                                  /\ x[1] = r /\ x[2] <= traced[r].calls
                                  /\ x \notin charged.once

\* A response that was charged is one of the calls made so far.
ChargedIsPast(r) ==
    traced[r].at # "end" => \A x \in charged.once : x[1] = r => x[2] <= traced[r].calls

\* Between the answer of a model and the reading of its usage, the thread of the request
\* sees that answer as the last one, and it is not charged.
LastIsOwn(r) ==
    InGraph(r) /\ traced[r].phase = "answered" /\ ~traced[r].streamed =>
        /\ last[traced[r].thread][traced[r].model] = <<r, traced[r].calls>>
        /\ <<r, traced[r].calls>> \notin charged.once

RunInvariant(r) == RunIsSound(r) /\ ChargedIsPast(r) /\ LastIsOwn(r)

\* A thread works for one request.
OneRunPerThread ==
    \A r, q \in TracedRuns :
        r # q /\ InGraph(r) /\ InGraph(q) => traced[r].thread # traced[q].thread

\* What is selected or purged is of requests that are over.
PurgedAreOver ==
    \A r \in TracedRuns :
        /\ r \in purge.selected \/ row[r].trace \in {"finished", "purged"} => traced[r].at = "end"
        /\ row[r].trace = "purged" => ~row[r].steps /\ ~row[r].feedback

LedgerInvariant ==
    /\ LedgerTyped
    /\ \A r \in TracedRuns : RunInvariant(r)
    /\ OneRunPerThread
    /\ PurgedAreOver
    /\ ~charged.twice
    /\ ~charged.foreign

\* Whatever node follows, the usage a request takes along is of a node behind it.
LEMMA UsageStaysBehind ==
    ASSUME NEW n \in Nodes, NEW recorded \in BOOLEAN, NEW next \in NextNodes(n, recorded),
           NEW node \in Carried[n]
    PROVE  /\ next \in Nodes \cup {"end"}
           /\ next = "end" <=> n \in {"log", "handle_error"}
           /\ next # "end" => (IF recorded THEN n ELSE node) \in Carried[next]
           /\ node # n
           /\ node \in Charging
<1> USE DEF NextNodes, Follows, Carried, Charging, Nodes
<1>1. CASE n = "classify"
  BY <1>1
<1>2. CASE n = "transform"
  BY <1>2
<1>3. CASE n = "retrieve"
  BY <1>3
<1>4. CASE n = "grade"
  BY <1>4
<1>5. CASE n = "generate"
  BY <1>5
<1>6. CASE n = "verify"
  BY <1>6
<1>7. CASE n = "evaluate"
  BY <1>7
<1>8. CASE n = "rewrite"
  BY <1>8
<1>9. CASE n = "suggest"
  BY <1>9
<1>10. CASE n = "log"
  BY <1>10
<1>11. CASE n = "handle_error"
  BY <1>11
<1> QED
  BY <1>1, <1>2, <1>3, <1>4, <1>5, <1>6, <1>7, <1>8, <1>9, <1>10, <1>11

LEMMA LedgerStarts == LedgerInit => LedgerInvariant
<1> SUFFICES ASSUME LedgerInit PROVE LedgerInvariant
  OBVIOUS
<1>1. NoRun("new") \in Runs
  <2>1. NoUsage \in [node : Charging, from : SUBSET Responses]
    BY DEF NoUsage, Charging
  <2> QED
    BY <2>1, TraceLedgerAssumption DEF NoRun, Runs, Llms, TraceLedgerAssumption
<1>2. LedgerTyped
  BY <1>1 DEF LedgerTyped, LedgerInit, Rows
<1>3. \A r \in TracedRuns : traced[r] = NoRun("new")
  BY DEF LedgerInit
<1>4. \A r \in TracedRuns :
        /\ traced[r].at = "new" /\ traced[r].thread = NoThread /\ traced[r].phase = "idle"
        /\ ~traced[r].streamed /\ traced[r].got = {} /\ traced[r].calls = 0
  BY <1>3 DEF NoRun
<1>5. \A r \in TracedRuns : RunInvariant(r)
  BY <1>3, <1>4 DEF RunInvariant, RunIsSound, ChargedIsPast, LastIsOwn, InGraph, LedgerInit
<1>6. OneRunPerThread /\ PurgedAreOver
  BY <1>4 DEF OneRunPerThread, PurgedAreOver, LedgerInit, InGraph
<1> QED
  BY <1>2, <1>5, <1>6 DEF LedgerInvariant, LedgerInit

\* A step of one request keeps what holds of the others: they keep their threads, the last
\* responses of these threads, and what they have not charged.
LEMMA OthersKeep ==
    ASSUME LedgerInvariant, NEW r \in TracedRuns,
           traced' \in [TracedRuns -> Runs],
           \A q \in TracedRuns \ {r} : traced'[q] = traced[q],
           \A x \in charged'.once : x \in charged.once \/ x[1] = r,
           \A q \in TracedRuns \ {r} : InGraph(q) =>
               /\ last'[traced[q].thread] = last[traced[q].thread]
               /\ InGraph(r)' => traced'[r].thread # traced[q].thread
    PROVE  /\ \A q \in TracedRuns \ {r} : RunInvariant(q)'
           /\ OneRunPerThread'
<1>1. \A q \in TracedRuns \ {r} : InGraph(q)' <=> InGraph(q)
  BY DEF InGraph
<1>2. ASSUME NEW q \in TracedRuns \ {r}
      PROVE  RunInvariant(q)'
  <2>1. RunInvariant(q)
    BY DEF LedgerInvariant
  <2>2. \A x \in charged'.once : x[1] = q => x \in charged.once
    BY <1>2
  <2>3. RunIsSound(q)'
    BY <1>1, <1>2, <2>1, <2>2 DEF RunInvariant, RunIsSound
  <2>4. ChargedIsPast(q)'
    BY <1>2, <2>1, <2>2 DEF RunInvariant, ChargedIsPast
  <2>5. LastIsOwn(q)'
    <3>1. <<q, traced[q].calls>>[1] = q
      OBVIOUS
    <3> QED
      BY <1>1, <1>2, <2>1, <2>2, <3>1 DEF RunInvariant, LastIsOwn
  <2> QED
    BY <2>3, <2>4, <2>5 DEF RunInvariant
<1>3. OneRunPerThread'
  BY <1>1 DEF OneRunPerThread, LedgerInvariant
<1> QED
  BY <1>2, <1>3

\* The requests do not change: only what is kept of them does.
LEMMA RunsUndisturbed ==
    ASSUME LedgerInvariant, UNCHANGED <<last, traced, charged>>, LedgerTyped', PurgedAreOver'
    PROVE  LedgerInvariant'
<1>1. ASSUME NEW r \in TracedRuns PROVE RunInvariant(r)'
  <2>1. RunInvariant(r)
    BY DEF LedgerInvariant
  <2>2. RunIsSound(r)' /\ ChargedIsPast(r)' /\ LastIsOwn(r)'
    BY <2>1 DEF RunInvariant, RunIsSound, ChargedIsPast, LastIsOwn, InGraph
  <2> QED
    BY <2>2 DEF RunInvariant
<1>2. OneRunPerThread' /\ ~charged'.twice /\ ~charged'.foreign
  BY DEF LedgerInvariant, OneRunPerThread, InGraph
<1> QED
  BY <1>1, <1>2 DEF LedgerInvariant

LEMMA LedgerStep == LedgerInvariant /\ [LedgerNext]_ledgerVars => LedgerInvariant'
<1> SUFFICES ASSUME LedgerInvariant, [LedgerNext]_ledgerVars PROVE LedgerInvariant'
  OBVIOUS
<1>1. ASSUME NEW r \in TracedRuns, NEW t \in PoolThreads, StartTrace(r, t)
      PROVE  LedgerInvariant'
  <2>1. /\ traced[r].at = "new"
        /\ \A q \in TracedRuns : traced[q].thread # t
        /\ UNCHANGED <<last, charged, purge>>
    BY <1>1 DEF StartTrace
  <2>2. /\ traced \in [TracedRuns -> Runs] /\ row \in [TracedRuns -> Rows]
    BY DEF LedgerInvariant, LedgerTyped
  <2>3. /\ traced' = [traced EXCEPT ![r] =
                [traced[r] EXCEPT !.at = "classify", !.phase = "call", !.thread = t]]
        /\ row' = [row EXCEPT ![r] = [row[r] EXCEPT !.trace = "open"]]
    BY <1>1, <2>2 DEF StartTrace, Runs, Rows
  <2> DEFINE fresh == [traced[r] EXCEPT !.at = "classify", !.phase = "call", !.thread = t]
  <2>4. /\ fresh \in Runs
        /\ fresh.at = "classify" /\ fresh.phase = "call" /\ fresh.thread = t
        /\ fresh.usage = traced[r].usage /\ fresh.got = traced[r].got
        /\ fresh.calls = traced[r].calls /\ fresh.streamed = traced[r].streamed
    <3>1. traced[r] \in Runs /\ "classify" \in Nodes
      BY <2>2 DEF Nodes
    <3> QED
      BY <3>1 DEF Runs
  <2>5. traced' = [traced EXCEPT ![r] = fresh]
    BY <2>3
  <2> HIDE DEF fresh
  <2>6. /\ traced' \in [TracedRuns -> Runs]
        /\ \A q \in TracedRuns \ {r} : traced'[q] = traced[q]
        /\ traced'[r].at = "classify" /\ traced'[r].phase = "call" /\ traced'[r].thread = t
        /\ traced'[r].usage = traced[r].usage /\ traced'[r].got = traced[r].got
        /\ traced'[r].calls = traced[r].calls /\ traced'[r].streamed = traced[r].streamed
    BY <2>2, <2>4, <2>5
  <2>7. /\ row' \in [TracedRuns -> Rows]
        /\ \A q \in TracedRuns \ {r} : row'[q] = row[q]
    <3>1. [row[r] EXCEPT !.trace = "open"] \in Rows
      BY <2>2 DEF Rows
    <3> QED
      BY <2>2, <2>3, <3>1
  <2>8. row'[r].trace = "open"
    BY <2>2, <2>3 DEF Rows
  <2>9. InGraph(r)' /\ ~InGraph(r)
    BY <2>1, <2>6 DEF InGraph
  <2>10. LedgerTyped'
    BY <2>1, <2>6, <2>7 DEF LedgerInvariant, LedgerTyped
  <2>11. /\ \A q \in TracedRuns \ {r} : RunInvariant(q)'
        /\ OneRunPerThread'
    BY <2>1, <2>6, OthersKeep
  <2>12. RunInvariant(r)'
    <3>1. RunInvariant(r) /\ traced[r] = NoRun("new")
      BY <2>1 DEF LedgerInvariant, RunInvariant, RunIsSound
    <3>2. traced[r].usage.node = "none" /\ traced[r].got = {} /\ traced[r].streamed = FALSE
      BY <3>1 DEF NoRun, NoUsage
    <3>3. RunIsSound(r)'
      BY <2>6, <2>9, <3>2 DEF RunIsSound, Carried
    <3>4. ChargedIsPast(r)' /\ LastIsOwn(r)'
      BY <2>1, <2>6, <3>1 DEF RunInvariant, ChargedIsPast, LastIsOwn
    <3> QED
      BY <3>3, <3>4 DEF RunInvariant
  <2>13. PurgedAreOver'
    BY <2>1, <2>6, <2>7, <2>8 DEF LedgerInvariant, PurgedAreOver
  <2> QED
    BY <2>1, <2>10, <2>11, <2>12, <2>13 DEF LedgerInvariant
<1>2. ASSUME NEW r \in TracedRuns, NEW m \in Llms, ModelAnswers(r, m)
      PROVE  LedgerInvariant'
  <2>1. /\ m \in ModelsOf(traced[r].at) /\ traced[r].calls < MaxModelCalls
        /\ \/ traced[r].phase = "call"
           \/ traced[r].phase = "captured" /\ traced[r].at \in Repeats
           \/ traced[r].phase = "answered" /\ traced[r].at \in {"grade", "verify"} /\ ~traced[r].streamed
        /\ UNCHANGED <<row, charged, purge>>
    BY <1>2 DEF ModelAnswers
  <2>2. /\ traced \in [TracedRuns -> Runs] /\ last \in [PoolThreads -> [Llms -> Responses \cup {NoResponse}]]
        /\ traced[r] \in Runs
    BY DEF LedgerInvariant, LedgerTyped
  <2> DEFINE t == traced[r].thread
             k == traced[r].calls + 1
  <2>3. InGraph(r) /\ t \in PoolThreads
    BY <2>1 DEF InGraph, ModelsOf, LedgerInvariant, RunInvariant, RunIsSound
  <2>4. /\ traced' = [traced EXCEPT ![r] =
                [traced[r] EXCEPT !.phase = "answered", !.model = m, !.calls = k]]
        /\ last' = [last EXCEPT ![t] = [last[t] EXCEPT ![m] = <<r, k>>]]
    BY <1>2, <2>2 DEF ModelAnswers, Seen, Runs
  <2>5. k \in 1 .. MaxModelCalls
    BY <2>1, <2>2, TraceLedgerAssumption DEF Runs, TraceLedgerAssumption
  <2>6. /\ traced' \in [TracedRuns -> Runs]
        /\ \A q \in TracedRuns \ {r} : traced'[q] = traced[q]
    <3>0. k \in 0 .. MaxModelCalls
      BY <2>5
    <3> HIDE DEF k
    <3>1. [traced[r] EXCEPT !.phase = "answered", !.model = m, !.calls = k] \in Runs
      BY <2>2, <3>0 DEF Runs
    <3> QED
      BY <2>2, <2>4, <3>1
  <2>7. /\ traced'[r].at = traced[r].at /\ traced'[r].phase = "answered" /\ traced'[r].thread = t
        /\ traced'[r].usage = traced[r].usage /\ traced'[r].got = traced[r].got
        /\ traced'[r].calls = k /\ traced'[r].streamed = traced[r].streamed
        /\ traced'[r].model = m
    BY <2>2, <2>4 DEF Runs
  <2>8. /\ last' \in [PoolThreads -> [Llms -> Responses \cup {NoResponse}]]
        /\ \A u \in PoolThreads \ {t} : last'[u] = last[u]
        /\ last'[t][m] = <<r, k>>
    <3>1. <<r, k>> \in Responses
      BY <2>5 DEF Responses
    <3> HIDE DEF t, k
    <3> QED
      BY <2>2, <2>3, <2>4, <3>1
  <2>9. InGraph(r)'
    BY <2>3, <2>7 DEF InGraph
  <2>10. \A q \in TracedRuns \ {r} : InGraph(q) => /\ traced[q].thread \in PoolThreads
                                                 /\ traced[q].thread # t
    BY <2>3 DEF LedgerInvariant, RunInvariant, RunIsSound, OneRunPerThread
  <2>11. LedgerTyped'
    BY <2>1, <2>6, <2>8 DEF LedgerInvariant, LedgerTyped
  <2>12. /\ \A q \in TracedRuns \ {r} : RunInvariant(q)'
         /\ OneRunPerThread'
    BY <2>1, <2>6, <2>7, <2>8, <2>10, OthersKeep
  <2>13. RunInvariant(r)'
    <3>1. RunInvariant(r) /\ traced[r].at # "new" /\ traced[r].at # "end"
      BY <2>3 DEF LedgerInvariant, InGraph
    <3>2. RunIsSound(r)'
      <4>1. \A x \in traced[r].got : x[2] \in Nat
        BY <2>2, TraceLedgerAssumption DEF Runs, Responses, TraceLedgerAssumption
      <4>2. traced[r].calls \in Nat
        BY <2>2 DEF Runs
      <4>3. \A x \in traced[r].got : x[2] <= traced[r].calls => x[2] <= k
        BY <4>1, <4>2
      <4> HIDE DEF k
      <4> QED
        BY <2>1, <2>3, <2>7, <2>9, <3>1, <4>3 DEF RunInvariant, RunIsSound
    <3>3. \A x \in charged.once : x[1] = r => x[2] <= traced[r].calls /\ x[2] \in Nat
      <4>1. charged.once \subseteq Responses
        BY DEF LedgerInvariant, LedgerTyped
      <4>2. \A x \in Responses : x[2] \in Nat
        BY TraceLedgerAssumption DEF Responses, TraceLedgerAssumption
      <4> QED
        BY <3>1, <4>1, <4>2 DEF RunInvariant, ChargedIsPast
    <3>4. traced[r].calls \in Nat
      BY <2>2 DEF Runs
    <3>5. ChargedIsPast(r)'
      BY <2>1, <2>7, <3>3, <3>4 DEF ChargedIsPast
    <3>6. <<r, k>> \notin charged.once
      <4>1. <<r, k>>[1] = r /\ <<r, k>>[2] = k
        OBVIOUS
      <4> QED
        BY <3>3, <3>4, <4>1
    <3>7. LastIsOwn(r)'
      BY <2>1, <2>7, <2>8, <3>6 DEF LastIsOwn
    <3> QED
      BY <3>2, <3>5, <3>7 DEF RunInvariant
  <2>14. PurgedAreOver'
    BY <2>1, <2>6, <2>7 DEF LedgerInvariant, PurgedAreOver
  <2> QED
    BY <2>1, <2>11, <2>12, <2>13, <2>14 DEF LedgerInvariant
<1>3. ASSUME NEW r \in TracedRuns, NEW m \in Llms, ModelStreams(r, m)
      PROVE  LedgerInvariant'
  <2>1. /\ traced[r].at = "generate" /\ traced[r].phase = "call"
        /\ UNCHANGED <<last, row, charged, purge>>
    BY <1>3 DEF ModelStreams
  <2>2. traced \in [TracedRuns -> Runs] /\ traced[r] \in Runs
    BY DEF LedgerInvariant, LedgerTyped
  <2>3. traced' = [traced EXCEPT ![r] =
                [traced[r] EXCEPT !.phase = "answered", !.model = m, !.streamed = TRUE]]
    BY <1>3, <2>2 DEF ModelStreams, Runs
  <2>4. /\ traced' \in [TracedRuns -> Runs]
        /\ \A q \in TracedRuns \ {r} : traced'[q] = traced[q]
    <3>1. [traced[r] EXCEPT !.phase = "answered", !.model = m, !.streamed = TRUE] \in Runs
      BY <2>2 DEF Runs
    <3> QED
      BY <2>2, <2>3, <3>1
  <2>5. /\ traced'[r].at = traced[r].at /\ traced'[r].phase = "answered"
        /\ traced'[r].thread = traced[r].thread /\ traced'[r].usage = traced[r].usage
        /\ traced'[r].calls = traced[r].calls /\ traced'[r].streamed = TRUE
    BY <2>2, <2>3 DEF Runs
  <2>6. InGraph(r) /\ InGraph(r)' /\ RunInvariant(r)
    BY <2>1, <2>5 DEF InGraph, LedgerInvariant
  <2>7. /\ \A q \in TracedRuns \ {r} : RunInvariant(q)'
        /\ OneRunPerThread'
    BY <2>1, <2>4, <2>5, <2>6, OthersKeep DEF LedgerInvariant, OneRunPerThread
  <2>8. RunInvariant(r)'
    BY <2>1, <2>5, <2>6 DEF RunInvariant, RunIsSound, ChargedIsPast, LastIsOwn
  <2>9. PurgedAreOver'
    BY <2>1, <2>4, <2>5 DEF LedgerInvariant, PurgedAreOver
  <2>10. LedgerTyped'
    BY <2>1, <2>4 DEF LedgerInvariant, LedgerTyped
  <2> QED
    BY <2>1, <2>7, <2>8, <2>9, <2>10 DEF LedgerInvariant
<1>4. ASSUME NEW r \in TracedRuns, CaptureUsage(r)
      PROVE  LedgerInvariant'
  <2> DEFINE seen == {last[traced[r].thread][traced[r].model]} \ {NoResponse}
  <2>1. /\ traced[r].phase = "answered"
        /\ UNCHANGED <<last, row, charged, purge>>
    BY <1>4 DEF CaptureUsage
  <2>2. traced \in [TracedRuns -> Runs] /\ traced[r] \in Runs
    BY DEF LedgerInvariant, LedgerTyped
  <2>3. traced' = [traced EXCEPT ![r] =
                [traced[r] EXCEPT !.phase = "captured", !.recorded = TRUE,
                                  !.got = traced[r].got \cup seen]]
    BY <1>4, <2>2 DEF CaptureUsage, Runs
  <2>4. RunInvariant(r) /\ InGraph(r) /\ traced[r].thread \in PoolThreads
    BY <2>1 DEF LedgerInvariant, RunInvariant, RunIsSound
  <2>5. seen \subseteq Responses
    BY <2>2, <2>4 DEF LedgerInvariant, LedgerTyped, Runs
  <2>6. /\ traced' \in [TracedRuns -> Runs]
        /\ \A q \in TracedRuns \ {r} : traced'[q] = traced[q]
    <3> HIDE DEF seen
    <3>1. [traced[r] EXCEPT !.phase = "captured", !.recorded = TRUE,
                            !.got = traced[r].got \cup seen] \in Runs
      BY <2>2, <2>5 DEF Runs
    <3> QED
      BY <2>2, <2>3, <3>1
  <2>7. /\ traced'[r].at = traced[r].at /\ traced'[r].phase = "captured"
        /\ traced'[r].thread = traced[r].thread /\ traced'[r].usage = traced[r].usage
        /\ traced'[r].calls = traced[r].calls /\ traced'[r].streamed = traced[r].streamed
        /\ traced'[r].got = traced[r].got \cup seen
    BY <2>2, <2>3 DEF Runs
  <2>8. ~traced[r].streamed => \A x \in seen : /\ x[1] = r /\ x[2] <= traced[r].calls
                                                /\ x \notin charged.once
    <3>1. <<r, traced[r].calls>>[1] = r /\ <<r, traced[r].calls>>[2] = traced[r].calls
      OBVIOUS
    <3>2. traced[r].calls \in Nat
      BY <2>2 DEF Runs
    <3> QED
      BY <2>1, <2>4, <3>1, <3>2 DEF RunInvariant, LastIsOwn
  <2> HIDE DEF seen
  <2>9. InGraph(r)'
    BY <2>4, <2>7 DEF InGraph
  <2>10. /\ \A q \in TracedRuns \ {r} : RunInvariant(q)'
         /\ OneRunPerThread'
    BY <2>1, <2>4, <2>6, <2>7, OthersKeep DEF LedgerInvariant, OneRunPerThread
  <2>11. RunInvariant(r)'
    <3>1. RunIsSound(r)'
      BY <2>1, <2>4, <2>7, <2>8, <2>9 DEF RunInvariant, RunIsSound, InGraph
    <3> QED
      BY <2>1, <2>4, <2>7, <3>1 DEF RunInvariant, ChargedIsPast, LastIsOwn
  <2>12. PurgedAreOver'
    BY <2>1, <2>6, <2>7 DEF LedgerInvariant, PurgedAreOver
  <2>13. LedgerTyped'
    BY <2>1, <2>6 DEF LedgerInvariant, LedgerTyped
  <2> QED
    BY <2>1, <2>10, <2>11, <2>12, <2>13 DEF LedgerInvariant
<1>5. ASSUME NEW r \in TracedRuns, LogStep(r)
      PROVE  LedgerInvariant'
  <2> DEFINE n == traced[r].at
             u == IF traced[r].recorded THEN [node |-> n, from |-> traced[r].got] ELSE traced[r].usage
             paid == UsageOfStep(u, n)
             own == \A x \in paid : x[1] = r
  <2>1. PICK next \in NextNodes(n, traced[r].recorded) :
          traced' = [traced EXCEPT ![r] =
                       IF next = "end" THEN NoRun("end")
                       ELSE [@ EXCEPT !.at = next, !.phase = "call", !.model = "fast", !.usage = u,
                                      !.got = {}, !.recorded = FALSE, !.streamed = FALSE]]
    BY <1>5 DEF LogStep
  <2>2. /\ n \notin {"new", "end"} /\ traced[r].phase \in {"call", "captured"}
        /\ charged' = IF traced[r].streamed
                      THEN charged
                      ELSE [charged EXCEPT !.once = @ \cup paid, !.foreign = @ \/ ~own,
                                           !.twice = @ \/ charged.once \cap paid # {}]
        /\ row' = [row EXCEPT ![r].steps = TRUE,
                              ![r].trace = IF n \in {"log", "handle_error"} THEN "finished" ELSE @]
        /\ UNCHANGED <<last, purge>>
    BY <1>5 DEF LogStep
  <2>3. /\ traced \in [TracedRuns -> Runs] /\ traced[r] \in Runs
        /\ row \in [TracedRuns -> Rows] /\ row[r] \in Rows
    BY DEF LedgerInvariant, LedgerTyped
  <2>4. RunInvariant(r) /\ InGraph(r) /\ n \in Nodes /\ traced[r].usage.node \in Carried[n]
        /\ traced[r].thread \in PoolThreads
    BY <2>2, <2>3 DEF LedgerInvariant, RunInvariant, RunIsSound, InGraph, Runs
  <2>5. /\ next \in Nodes \cup {"end"}
        /\ next = "end" <=> n \in {"log", "handle_error"}
        /\ next # "end" => (IF traced[r].recorded THEN n ELSE traced[r].usage.node) \in Carried[next]
        /\ traced[r].usage.node # n
    <3>1. traced[r].recorded \in BOOLEAN
      BY <2>3 DEF Runs
    <3> QED
      BY <2>1, <2>4, <3>1, UsageStaysBehind
  <2>6. /\ u.node = IF traced[r].recorded THEN n ELSE traced[r].usage.node
        /\ u.from \subseteq Responses
        /\ next # "end" => u \in [node : Charging, from : SUBSET Responses]
        /\ paid \subseteq traced[r].got
    <3>1. next # "end" => n \in Charging
      BY <2>4, <2>5 DEF Nodes, Charging
    <3> QED
      BY <2>3, <2>5, <3>1 DEF Runs, UsageOfStep
  <2> HIDE DEF u, paid
  <2>7. ~traced[r].streamed =>
            /\ own /\ charged.once \cap paid = {}
            /\ \A x \in paid : x[2] <= traced[r].calls
    BY <2>4, <2>6 DEF RunInvariant, RunIsSound
  <2> HIDE DEF own
  <2>8. /\ charged' \in [once : SUBSET Responses, twice : BOOLEAN, foreign : BOOLEAN]
        /\ ~charged'.twice /\ ~charged'.foreign
        /\ charged'.once \subseteq charged.once \cup (IF traced[r].streamed THEN {} ELSE paid)
    <3>1. charged \in [once : SUBSET Responses, twice : BOOLEAN, foreign : BOOLEAN]
          /\ ~charged.twice /\ ~charged.foreign
      BY DEF LedgerInvariant, LedgerTyped
    <3>2. paid \subseteq Responses
      BY <2>3, <2>6 DEF Runs
    <3>3. CASE traced[r].streamed
      BY <2>2, <3>1, <3>3
    <3>4. CASE ~traced[r].streamed
      <4>1. /\ charged' = [charged EXCEPT !.once = charged.once \cup paid,
                               !.foreign = charged.foreign \/ ~own,
                               !.twice = charged.twice \/ charged.once \cap paid # {}]
        BY <2>2, <3>4
      <4>2. /\ charged'.once = charged.once \cup paid
            /\ charged'.foreign = (charged.foreign \/ ~own)
            /\ charged'.twice = (charged.twice \/ charged.once \cap paid # {})
            /\ charged' = [once |-> charged'.once, twice |-> charged'.twice,
                           foreign |-> charged'.foreign]
        BY <3>1, <4>1
      <4> QED
        BY <2>7, <3>1, <3>2, <3>4, <4>2
    <3> QED
      BY <3>3, <3>4
  <2>9. \A x \in charged'.once : x \in charged.once \/ (x[1] = r /\ x[2] <= traced[r].calls)
    BY <2>7, <2>8 DEF own
  <2>10. /\ row' \in [TracedRuns -> Rows]
         /\ \A q \in TracedRuns \ {r} : row'[q] = row[q]
         /\ row'[r].trace \in IF n \in {"log", "handle_error"} THEN {"finished"} ELSE {row[r].trace}
    <3> DEFINE mark == IF n \in {"log", "handle_error"} THEN "finished" ELSE row[r].trace
    <3>1. row' = [row EXCEPT ![r] = [row[r] EXCEPT !.steps = TRUE, !.trace = mark]]
      BY <2>2, <2>3 DEF Rows
    <3>2. mark \in {"none", "open", "finished", "purged"}
      BY <2>3 DEF Rows
    <3> HIDE DEF mark
    <3>3. [row[r] EXCEPT !.steps = TRUE, !.trace = mark] \in Rows
      BY <2>3, <3>2 DEF Rows
    <3>4. row'[r].trace = mark
      BY <2>3, <3>1 DEF Rows
    <3> QED
      BY <2>3, <3>1, <3>3, <3>4 DEF mark
  <2>11. CASE next = "end"
    <3>1. traced' = [traced EXCEPT ![r] = NoRun("end")]
      BY <2>1, <2>11
    <3>2. NoRun("end") \in Runs
      <4>1. NoUsage \in [node : Charging, from : SUBSET Responses]
        BY DEF NoUsage, Charging
      <4> QED
        BY <4>1, TraceLedgerAssumption DEF NoRun, Runs, Llms, TraceLedgerAssumption
    <3>3. /\ traced' \in [TracedRuns -> Runs] /\ traced'[r] = NoRun("end")
          /\ \A q \in TracedRuns \ {r} : traced'[q] = traced[q]
      BY <2>3, <3>1, <3>2
    <3>4. /\ traced'[r].at = "end" /\ traced'[r].phase = "idle" /\ traced'[r].thread = NoThread
          /\ traced'[r].got = {} /\ traced'[r].streamed = FALSE
      BY <3>3 DEF NoRun
    <3>5. ~InGraph(r)'
      BY <3>4 DEF InGraph
    <3>6. /\ \A q \in TracedRuns \ {r} : RunInvariant(q)'
          /\ OneRunPerThread'
      BY <2>2, <2>9, <3>3, <3>5, OthersKeep
    <3>7. RunInvariant(r)'
      BY <3>4, <3>5 DEF RunInvariant, RunIsSound, ChargedIsPast, LastIsOwn
    <3>8. PurgedAreOver'
      BY <2>2, <2>4, <2>10, <3>3, <3>4 DEF LedgerInvariant, PurgedAreOver, InGraph
    <3>9. LedgerTyped'
      BY <2>2, <2>8, <2>10, <3>3 DEF LedgerInvariant, LedgerTyped
    <3> QED
      BY <2>8, <3>6, <3>7, <3>8, <3>9 DEF LedgerInvariant
  <2>12. CASE next # "end"
    <3> DEFINE v == [traced[r] EXCEPT !.at = next, !.phase = "call", !.model = "fast", !.usage = u,
                                      !.got = {}, !.recorded = FALSE, !.streamed = FALSE]
    <3>1. traced' = [traced EXCEPT ![r] = v]
      BY <2>1, <2>12
    <3>2. v \in Runs
      BY <2>3, <2>5, <2>6, <2>12 DEF Runs, Llms
    <3>3. /\ v.at = next /\ v.phase = "call" /\ v.thread = traced[r].thread
          /\ v.got = {} /\ v.streamed = FALSE /\ v.calls = traced[r].calls /\ v.usage = u
      BY <2>3 DEF Runs
    <3> HIDE DEF v
    <3>4. /\ traced' \in [TracedRuns -> Runs] /\ traced'[r] = v
          /\ \A q \in TracedRuns \ {r} : traced'[q] = traced[q]
      BY <2>3, <3>1, <3>2
    <3>5. next \notin {"new", "end"} /\ InGraph(r)'
      BY <2>5, <2>12, <3>3, <3>4 DEF InGraph, Nodes
    <3>6. /\ \A q \in TracedRuns \ {r} : RunInvariant(q)'
          /\ OneRunPerThread'
      BY <2>2, <2>4, <2>9, <3>3, <3>4, <3>5, OthersKeep DEF LedgerInvariant, OneRunPerThread
    <3>7. RunIsSound(r)'
      BY <2>4, <2>5, <2>6, <2>12, <3>3, <3>4, <3>5 DEF RunIsSound
    <3>8. ChargedIsPast(r)' /\ LastIsOwn(r)'
      BY <2>4, <2>9, <3>3, <3>4, <3>5 DEF RunInvariant, ChargedIsPast, LastIsOwn, InGraph
    <3>9. PurgedAreOver'
      BY <2>2, <2>4, <2>5, <2>10, <2>12, <3>3, <3>4 DEF LedgerInvariant, PurgedAreOver, InGraph
    <3>10. LedgerTyped'
      BY <2>2, <2>8, <2>10, <3>4 DEF LedgerInvariant, LedgerTyped
    <3> QED
      BY <2>8, <3>6, <3>7, <3>8, <3>9, <3>10 DEF LedgerInvariant, RunInvariant
  <2> QED
    BY <2>11, <2>12
<1>6. ASSUME NEW r \in TracedRuns, NodeRaises(r)
      PROVE  LedgerInvariant'
  <2>1. /\ traced[r].at \notin {"new", "log", "handle_error", "end"}
        /\ UNCHANGED <<last, row, charged, purge>>
    BY <1>6 DEF NodeRaises
  <2>2. traced \in [TracedRuns -> Runs] /\ traced[r] \in Runs
    BY DEF LedgerInvariant, LedgerTyped
  <2> DEFINE v == [traced[r] EXCEPT !.at = "handle_error", !.phase = "call", !.got = {},
                                    !.model = "fast", !.recorded = FALSE, !.streamed = FALSE]
  <2>3. traced' = [traced EXCEPT ![r] = v]
    BY <1>6, <2>2 DEF NodeRaises, Runs
  <2>4. v \in Runs
    BY <2>2 DEF Runs, Llms, Nodes
  <2>5. /\ v.at = "handle_error" /\ v.phase = "call" /\ v.thread = traced[r].thread
        /\ v.got = {} /\ v.streamed = FALSE /\ v.calls = traced[r].calls
        /\ v.usage = traced[r].usage
    BY <2>2 DEF Runs
  <2> HIDE DEF v
  <2>6. /\ traced' \in [TracedRuns -> Runs] /\ traced'[r] = v
        /\ \A q \in TracedRuns \ {r} : traced'[q] = traced[q]
    BY <2>2, <2>3, <2>4
  <2>7. InGraph(r) /\ InGraph(r)' /\ RunInvariant(r)
    BY <2>1, <2>5, <2>6 DEF InGraph, LedgerInvariant
  <2>8. /\ \A q \in TracedRuns \ {r} : RunInvariant(q)'
        /\ OneRunPerThread'
    BY <2>1, <2>5, <2>6, <2>7, OthersKeep DEF LedgerInvariant, OneRunPerThread
  <2>9. traced[r].usage.node \in Carried["handle_error"]
    BY <2>2 DEF Runs, Carried
  <2>10. RunInvariant(r)'
    BY <2>1, <2>5, <2>6, <2>7, <2>9 DEF RunInvariant, RunIsSound, ChargedIsPast, LastIsOwn, InGraph
  <2>11. PurgedAreOver'
    BY <2>1, <2>5, <2>6 DEF LedgerInvariant, PurgedAreOver
  <2>12. LedgerTyped'
    BY <2>1, <2>6 DEF LedgerInvariant, LedgerTyped
  <2> QED
    BY <2>1, <2>8, <2>10, <2>11, <2>12 DEF LedgerInvariant
<1>7. ASSUME NEW r \in TracedRuns, SaveFeedback(r) \/ TraceAges(r)
      PROVE  LedgerInvariant'
  <2>1. /\ row[r].trace \in {"finished", "purged"}
        /\ UNCHANGED <<last, traced, charged, purge>>
    BY <1>7 DEF SaveFeedback, TraceAges
  <2>2. row \in [TracedRuns -> Rows] /\ row[r] \in Rows
    BY DEF LedgerInvariant, LedgerTyped
  <2>3. PICK v \in Rows : /\ row' = [row EXCEPT ![r] = v]
                          /\ v.trace = row[r].trace /\ v.steps = row[r].steps
                          /\ row[r].trace = "purged" => v.feedback = row[r].feedback
    <3>1. CASE SaveFeedback(r) /\ row[r].trace = "purged"
      <4> DEFINE w == [row[r] EXCEPT !.late = TRUE]
      <4>1. w \in Rows /\ row' = [row EXCEPT ![r] = w]
        BY <2>2, <3>1 DEF SaveFeedback, Rows
      <4>2. w.trace = row[r].trace /\ w.steps = row[r].steps /\ w.feedback = row[r].feedback
        BY <2>2 DEF Rows
      <4> HIDE DEF w
      <4> QED
        BY <4>1, <4>2
    <3>2. CASE SaveFeedback(r) /\ row[r].trace # "purged"
      <4> DEFINE w == [row[r] EXCEPT !.feedback = TRUE]
      <4>1. w \in Rows /\ row' = [row EXCEPT ![r] = w]
        BY <2>2, <3>2 DEF SaveFeedback, Rows
      <4>2. w.trace = row[r].trace /\ w.steps = row[r].steps
        BY <2>2 DEF Rows
      <4> HIDE DEF w
      <4> QED
        BY <3>2, <4>1, <4>2
    <3>3. CASE TraceAges(r)
      <4> DEFINE w == [row[r] EXCEPT !.age = row[r].age + 1]
      <4>1. row[r].age + 1 \in Nat
        BY <2>2 DEF Rows
      <4>2. w \in Rows /\ row' = [row EXCEPT ![r] = w]
        BY <2>2, <3>3, <4>1 DEF TraceAges, Rows
      <4>3. w.trace = row[r].trace /\ w.steps = row[r].steps /\ w.feedback = row[r].feedback
        BY <2>2 DEF Rows
      <4> HIDE DEF w
      <4> QED
        BY <4>2, <4>3
    <3> QED
      BY <1>7, <3>1, <3>2, <3>3
  <2>4. /\ row' \in [TracedRuns -> Rows] /\ row'[r] = v
        /\ \A q \in TracedRuns \ {r} : row'[q] = row[q]
    BY <2>2, <2>3
  <2>5. LedgerTyped'
    BY <2>1, <2>4 DEF LedgerInvariant, LedgerTyped
  <2>6. PurgedAreOver'
    <3> SUFFICES ASSUME NEW q \in TracedRuns
                 PROVE  /\ q \in purge'.selected \/ row'[q].trace \in {"finished", "purged"} =>
                              traced'[q].at = "end"
                        /\ row'[q].trace = "purged" => ~row'[q].steps /\ ~row'[q].feedback
      BY DEF PurgedAreOver
    <3>1. CASE q = r
      BY <2>1, <2>3, <2>4, <3>1 DEF LedgerInvariant, PurgedAreOver
    <3>2. CASE q # r
      BY <2>1, <2>4, <3>2 DEF LedgerInvariant, PurgedAreOver
    <3> QED
      BY <3>1, <3>2
  <2> QED
    BY <2>1, <2>5, <2>6, RunsUndisturbed, Zenon
<1>8. CASE SelectOld
  <2>1. /\ UNCHANGED <<last, traced, row, charged>>
        /\ purge' = [step |-> "delete",
                     selected |-> {r \in TracedRuns : row[r].trace = "finished" /\ row[r].age = 2}]
    BY <1>8 DEF SelectOld
  <2>2. LedgerTyped'
    BY <2>1 DEF LedgerInvariant, LedgerTyped
  <2>3. PurgedAreOver'
    BY <2>1 DEF LedgerInvariant, PurgedAreOver
  <2> QED
    BY <2>1, <2>2, <2>3, RunsUndisturbed, Zenon
<1>9. CASE DeleteOld
  <2>1. /\ UNCHANGED <<last, traced, charged>>
        /\ purge' = [step |-> "idle", selected |-> {}]
    BY <1>9 DEF DeleteOld
  <2>2. row \in [TracedRuns -> Rows] /\ \A r \in TracedRuns : row[r] \in Rows
    BY DEF LedgerInvariant, LedgerTyped
  <2>3. \A r \in TracedRuns :
          row'[r] = [row[r] EXCEPT !.steps = row[r].steps /\ r \notin purge.selected,
                                   !.feedback = row[r].feedback /\ r \notin purge.selected,
                                   !.trace = IF r \in purge.selected THEN "purged" ELSE row[r].trace]
    BY <1>9, <2>2 DEF DeleteOld, Expired, Rows
  <2>4. \A r \in TracedRuns :
          /\ row'[r] \in Rows
          /\ row'[r].trace = (IF r \in purge.selected THEN "purged" ELSE row[r].trace)
          /\ row'[r].steps = (row[r].steps /\ r \notin purge.selected)
          /\ row'[r].feedback = (row[r].feedback /\ r \notin purge.selected)
    <3> TAKE r \in TracedRuns
    <3>1. PICK steps \in BOOLEAN, feedback \in BOOLEAN,
               trace \in {"none", "open", "finished", "purged"} :
             /\ steps = (row[r].steps /\ r \notin purge.selected)
             /\ feedback = (row[r].feedback /\ r \notin purge.selected)
             /\ trace = IF r \in purge.selected THEN "purged" ELSE row[r].trace
      BY <2>2 DEF Rows
    <3>2. row'[r] = [row[r] EXCEPT !.steps = steps, !.feedback = feedback, !.trace = trace]
      BY <2>3, <3>1
    <3>3. row'[r] \in Rows /\ row'[r].trace = trace /\ row'[r].steps = steps
          /\ row'[r].feedback = feedback
      BY <2>2, <3>2 DEF Rows
    <3> QED
      BY <3>1, <3>3
  <2>5. row' \in [TracedRuns -> Rows]
    BY <1>9, <2>4 DEF DeleteOld
  <2>6. LedgerTyped'
    BY <2>1, <2>5 DEF LedgerInvariant, LedgerTyped
  <2>7. PurgedAreOver'
    BY <2>1, <2>4 DEF LedgerInvariant, PurgedAreOver
  <2>8. UNCHANGED <<last, traced, charged>>
    BY <2>1
  <2> QED
    BY <2>6, <2>7, <2>8, RunsUndisturbed
<1>10. CASE UNCHANGED ledgerVars
  <2>1. UNCHANGED <<last, traced, row, charged, purge>>
    BY <1>10 DEF ledgerVars
  <2>2. LedgerTyped' /\ PurgedAreOver'
    BY <2>1 DEF LedgerInvariant, LedgerTyped, PurgedAreOver
  <2> QED
    BY <2>1, <2>2, RunsUndisturbed
<1> QED
  BY <1>1, <1>2, <1>3, <1>4, <1>5, <1>6, <1>7, <1>8, <1>9, <1>10 DEF LedgerNext

\* A model response is charged once and to the request that made the call, and a purge
\* takes a trace whole, for any number of requests and threads of the pool (log_step,
\* last_response, purge_old_traces).
THEOREM ChargesAreSound == LedgerSpec => []LedgerSafety
<1>1. LedgerInvariant => LedgerSafety
  <2> SUFFICES ASSUME LedgerInvariant PROVE LedgerSafety
    OBVIOUS
  <2>1. LedgerTypeOK
    <3>1. \A r \in TracedRuns : traced[r] \in Runs /\ row[r] \in Rows
      BY DEF LedgerInvariant, LedgerTyped
    <3>2. DOMAIN Follows = Nodes
      BY DEF Follows, Nodes
    <3>3. \A r \in TracedRuns :
            /\ traced[r].at \in Nodes \cup {"new", "end"}
            /\ traced[r].got \cup traced[r].usage.from \subseteq Responses
            /\ traced[r].calls \in 0 .. MaxModelCalls
            /\ row[r].trace \in {"none", "open", "finished", "purged"}
      BY <3>1 DEF Runs, Rows
    <3> QED
      BY <3>2, <3>3 DEF LedgerInvariant, LedgerTyped, LedgerTypeOK
  <2> QED
    BY <2>1 DEF LedgerInvariant, LedgerSafety, NotChargedTwice, ChargedToItsCaller, PurgedWhole,
                PurgedAreOver
<1> QED
  BY <1>1, LedgerStarts, LedgerStep, PTL DEF LedgerSpec

----------------------------------------------------------------------------
(* RoutingCalibration.                                                     *)

\* What two annotators agree on beyond chance, written out.
LEMMA AgreementBeyondChance ==
    ASSUME NEW a \in Nat, NEW b \in Nat, NEW c \in Nat, NEW d \in Nat
    PROVE  /\ (a + b + c + d) * (a + d) - ((a + b) * (a + c) + (d + c) * (d + b))
                = 2 * (a * d) - 2 * (b * c)
           /\ (a + b + c + d) * (a + b + c + d) - ((a + b) * (a + c) + (d + c) * (d + b))
                = (a + b) * (d + b) + (a + c) * (d + c)
  OBVIOUS

LEMMA ProductOfNaturals ==
    ASSUME NEW a \in Nat, NEW b \in Nat
    PROVE  a * b \in Nat
  OBVIOUS

LEMMA ProductIsPositive ==
    ASSUME NEW a \in Nat \ {0}, NEW b \in Nat \ {0}
    PROVE  a * b \in Nat \ {0}
  OBVIOUS

\* An artifact that is ready for a claim of human labels has earned it.
LEMMA ReadyIsEarned ==
    ASSUME NEW l \in LabelFiles, Ready(l)
    PROVE  Earned(l)
<1>0. Double(l) > 0 /\ l.blemish \in {"none", "one label"}
  BY DEF Ready
<1> SUFFICES ASSUME MinKappaPercent > 0 PROVE Earned(l)
  BY <1>0 DEF Earned
<1>a. MinKappaPercent \in Nat \ {0}
  BY RoutingCalibrationAssumption DEF RoutingCalibrationAssumption
<1>1. l.aa \in Nat /\ l.ah \in Nat /\ l.ha \in Nat /\ l.hh \in Nat
  BY RoutingCalibrationAssumption DEF LabelFiles, RoutingCalibrationAssumption
<1> DEFINE n == l.aa + l.ah + l.ha + l.hh
           agreed == l.aa + l.hh
           chance == (l.aa + l.ah) * (l.aa + l.ha) + (l.hh + l.ha) * (l.hh + l.ah)
<1>2. /\ n >= 1
      /\ IF chance = n * n THEN agreed = n
         ELSE 100 * n * agreed >= MinKappaPercent * (n * n - chance) + 100 * chance
  <2>2. n > 0 /\ KappaReaches(l)
    BY <1>0 DEF Ready, Double
  <2>3. n \in Nat
    BY <1>1
  <2>4. Double(l) = n /\ Agreed(l) = agreed /\ Chance(l) = chance
    BY DEF Double, Agreed, Chance
  <2> HIDE DEF n, agreed, chance
  <2>5. n >= 1
    BY <2>2, <2>3
  <2> QED
    BY <1>a, <2>2, <2>4, <2>5 DEF KappaReaches
<1>3. /\ n * agreed - chance = 2 * (l.aa * l.hh) - 2 * (l.ah * l.ha)
      /\ n * n - chance = (l.aa + l.ah) * (l.hh + l.ah) + (l.aa + l.ha) * (l.hh + l.ha)
  BY <1>1, AgreementBeyondChance
<1>4. n \in Nat /\ agreed \in Nat /\ chance \in Nat /\ n * agreed \in Nat /\ n * n \in Nat
      /\ l.aa * l.hh \in Nat /\ l.ah * l.ha \in Nat
      /\ (l.aa + l.ah) * (l.hh + l.ah) \in Nat /\ (l.aa + l.ha) * (l.hh + l.ha) \in Nat
  <2> DEFINE p == l.aa + l.ah
             q == l.aa + l.ha
             r == l.hh + l.ha
             s == l.hh + l.ah
  <2>1. n \in Nat /\ agreed \in Nat /\ p \in Nat /\ q \in Nat /\ r \in Nat /\ s \in Nat
    BY <1>1
  <2>2. l.aa * l.hh \in Nat /\ l.ah * l.ha \in Nat
    BY <1>1, ProductOfNaturals
  <2>3. p * q \in Nat /\ r * s \in Nat /\ p * s \in Nat /\ q * r \in Nat
        /\ n * n \in Nat /\ n * agreed \in Nat
    <3> HIDE DEF n, agreed, p, q, r, s
    <3> QED
      BY <2>1, ProductOfNaturals
  <2>4. chance = p * q + r * s
    OBVIOUS
  <2>5. chance \in Nat
    <3> HIDE DEF p, q, r, s, chance
    <3> QED
      BY <2>3, <2>4
  <2> QED
    BY <2>1, <2>2, <2>3, <2>5
<1>5. CASE chance = n * n
  <2>1. agreed = n
    BY <1>2, <1>5
  <2>0. l.ah = 0 /\ l.ha = 0
    BY <1>1, <2>1
  <2>2. l.aa * l.hh = 0
    <3>1. l.ah * l.ha = 0
      BY <2>0
    <3>2. n * agreed - chance = 0
      <4> HIDE DEF n, agreed, chance
      <4> QED
        BY <1>4, <1>5, <2>1
    <3>3. 2 * (l.aa * l.hh) = 0
      <4>1. 0 = 2 * (l.aa * l.hh) - 2 * (l.ah * l.ha)
        BY <1>3, <3>2
      <4> QED
        BY <1>4, <3>1, <4>1
    <3> QED
      BY <1>4, <3>3
  <2>3. l.aa = 0 \/ l.hh = 0
    BY <1>1, <2>2, ProductIsPositive
  <2> QED
    <3>1. Double(l) = l.aa \/ Double(l) = l.hh
      BY <1>1, <2>0, <2>3 DEF Double
    <3> QED
      BY <1>0, <3>1 DEF Earned
<1>6. CASE chance # n * n
  <2> DEFINE gap == n * n - chance
             lead == n * agreed - chance
  <2>1. gap \in Nat \ {0}
    BY <1>3, <1>4, <1>6
  <2>3. MinKappaPercent * gap \in Nat \ {0}
    BY <1>a, <2>1, ProductIsPositive
  <2>4. 100 * n * agreed = 100 * (n * agreed)
    BY <1>4
  <2>5. 100 * (n * agreed) >= MinKappaPercent * gap + 100 * chance
    BY <1>2, <1>6, <2>4
  <2>6. n * agreed > chance
    <3> HIDE DEF gap, n, agreed, chance
    <3> QED
      BY <1>4, <2>3, <2>5
  <2>7. l.aa * l.hh > l.ah * l.ha
    <3> HIDE DEF n, agreed, chance
    <3> QED
      BY <1>3, <1>4, <2>6
  <2> QED
    BY <1>0, <2>7 DEF Earned
<1> QED
  BY <1>5, <1>6

Reissues == [step : {"idle", "write"}, runs : 0 .. MaxReissues,
             source : {"none", "human", "synthetic", "operator"},
             floors : Floors \cup {NoFloors}, earned : BOOLEAN]

AskerRecords == [step : {"new", "graph", "compile", "run"}, resolved : Floors \cup {NoFloors},
                 runs : Floors \cup {NoFloors}, retriever : 1 .. MaxRetrievers]

CalibrationTyped ==
    /\ calibration \in [file : {"absent", "torn", "whole"},
                        source : {"none", "human", "synthetic", "operator"},
                        floors : Floors \cup {NoFloors}, earned : BOOLEAN]
    /\ reissue \in Reissues
    /\ graphs \in [GraphKeys -> Floors \cup {NoFloors}]
    /\ retriever \in 1 .. MaxRetrievers
    /\ asker \in [Askers -> AskerRecords]

\* A claim of human labels is earned in the file and on its way there, and a file that can
\* be loaded, or is being written, has floors.
ClaimsAreEarned ==
    /\ calibration.source = "human" => calibration.earned
    /\ reissue.source = "human" => reissue.earned
    /\ calibration.file = "whole" => calibration.floors \in Floors
    /\ reissue.step = "write" => reissue.floors \in Floors

\* A compiled graph has the quality floor of its key.
GraphsOfTheirKey ==
    \A k \in GraphKeys : graphs[k] # NoFloors => graphs[k].quality = k[2]

\* A request has resolved floors before it looks for a graph, and runs in one with its
\* quality floor.
AskersResolved ==
    \A a \in Askers :
        /\ asker[a].step \in {"graph", "compile", "run"} => asker[a].resolved \in Floors
        /\ asker[a].step = "run" => asker[a].runs.quality = asker[a].resolved.quality

CalibrationInvariant ==
    CalibrationTyped /\ ClaimsAreEarned /\ GraphsOfTheirKey /\ AskersResolved

LEMMA NewAskerTyped == NewAsker \in AskerRecords /\ NewAsker.step = "new"
  BY RoutingCalibrationAssumption DEF NewAsker, AskerRecords, RoutingCalibrationAssumption

LEMMA CalibrationStarts == CalibrationInit => CalibrationInvariant
<1> SUFFICES ASSUME CalibrationInit PROVE CalibrationInvariant
  OBVIOUS
<1>1. CalibrationTyped
  <2>1. /\ 0 \in 0 .. MaxReissues /\ 1 \in 1 .. MaxRetrievers /\ DefaultFloors \in Floors
    BY RoutingCalibrationAssumption DEF RoutingCalibrationAssumption
  <2>2. reissue \in Reissues
    BY <2>1 DEF CalibrationInit, Reissues
  <2>3. calibration \in [file : {"absent", "torn", "whole"},
                         source : {"none", "human", "synthetic", "operator"},
                         floors : Floors \cup {NoFloors}, earned : BOOLEAN]
    <3>1. CASE calibration = [file |-> "absent", source |-> "none", floors |-> NoFloors,
                              earned |-> FALSE]
      BY <3>1
    <3>2. CASE calibration = [file |-> "whole", source |-> "synthetic", floors |-> DefaultFloors,
                              earned |-> FALSE]
      BY <2>1, <3>2
    <3> QED
      BY <3>1, <3>2 DEF CalibrationInit
  <2>4. asker \in [Askers -> AskerRecords] /\ graphs \in [GraphKeys -> Floors \cup {NoFloors}]
    BY NewAskerTyped DEF CalibrationInit
  <2> QED
    BY <2>1, <2>2, <2>3, <2>4 DEF CalibrationTyped, CalibrationInit
<1>2. ClaimsAreEarned
  BY RoutingCalibrationAssumption DEF ClaimsAreEarned, CalibrationInit, RoutingCalibrationAssumption
<1>3. GraphsOfTheirKey /\ AskersResolved
  BY NewAskerTyped DEF GraphsOfTheirKey, AskersResolved, CalibrationInit
<1> QED
  BY <1>1, <1>2, <1>3 DEF CalibrationInvariant

\* A step that changes one request keeps what holds of the others.
LEMMA OnlyThisAsker ==
    ASSUME CalibrationInvariant, NEW a \in Askers, NEW v \in AskerRecords,
           asker' = [asker EXCEPT ![a] = v],
           v.step \in {"graph", "compile", "run"} => v.resolved \in Floors,
           v.step = "run" => v.runs.quality = v.resolved.quality
    PROVE  asker' \in [Askers -> AskerRecords] /\ AskersResolved'
<1>1. /\ asker' \in [Askers -> AskerRecords] /\ asker'[a] = v
      /\ \A b \in Askers \ {a} : asker'[b] = asker[b]
  BY DEF CalibrationInvariant, CalibrationTyped
<1> QED
  BY <1>1 DEF CalibrationInvariant, AskersResolved

LEMMA CalibrationStep ==
    CalibrationInvariant /\ [CalibrationNext]_calibrationVars => CalibrationInvariant'
<1> SUFFICES ASSUME CalibrationInvariant, [CalibrationNext]_calibrationVars
             PROVE  CalibrationInvariant'
  OBVIOUS
<1> USE DEF CalibrationInvariant
<1>1. ASSUME NEW v \in Assessments, NEW f \in Floors, Reissue(v, f)
      PROVE  CalibrationInvariant'
  <2>1. PICK s \in Sources(v) :
          reissue' = [step |-> "write", runs |-> reissue.runs + 1, source |-> s, floors |-> f,
                      earned |-> v.earned]
    BY <1>1 DEF Reissue
  <2>2. /\ reissue.runs < MaxReissues
        /\ calibration' = [calibration EXCEPT !.file = "torn"]
        /\ UNCHANGED <<graphs, retriever, asker>>
    BY <1>1 DEF Reissue
  <2>3. v.earned \in BOOLEAN /\ (v.ready => v.earned)
    <3>1. PICK l \in LabelFiles : v = [ready |-> Ready(l), earned |-> Earned(l)]
      BY DEF Assessments
    <3>2. Earned(l) \in BOOLEAN
      BY DEF Earned
    <3> HIDE DEF Ready, Earned
    <3>3. v.ready = Ready(l) /\ v.earned = Earned(l)
      BY <3>1
    <3> QED
      BY <3>2, <3>3, ReadyIsEarned
  <2>4. s \in {"human", "synthetic", "operator"} /\ (s = "human" => v.earned)
    BY <2>3 DEF Sources
  <2>5. reissue.runs + 1 \in 0 .. MaxReissues
    BY <2>2, RoutingCalibrationAssumption DEF CalibrationTyped, Reissues, RoutingCalibrationAssumption
  <2>6. reissue' \in Reissues
    BY <2>1, <2>3, <2>4, <2>5 DEF Reissues
  <2>7. CalibrationTyped'
    BY <2>2, <2>6 DEF CalibrationTyped
  <2>8. ClaimsAreEarned'
    BY <2>1, <2>2, <2>4 DEF ClaimsAreEarned, CalibrationTyped
  <2> QED
    BY <2>2, <2>7, <2>8 DEF GraphsOfTheirKey, AskersResolved
<1>2. CASE ArtifactWritten \/ ReissueDies
  <2>1. /\ reissue.step = "write"
        /\ reissue' = [reissue EXCEPT !.step = "idle", !.source = "none", !.floors = NoFloors,
                                      !.earned = FALSE]
        /\ \/ calibration' = calibration
           \/ calibration' = [file |-> "whole", source |-> reissue.source,
                              floors |-> reissue.floors, earned |-> reissue.earned]
        /\ UNCHANGED <<graphs, retriever, asker>>
    BY <1>2 DEF ArtifactWritten, ReissueDies
  <2>2. reissue' \in Reissues /\ reissue'.step = "idle" /\ reissue'.source = "none"
    BY <2>1 DEF CalibrationTyped, Reissues
  <2>3. CalibrationTyped'
    BY <2>1, <2>2 DEF CalibrationTyped, Reissues
  <2>4. ClaimsAreEarned'
    BY <2>1, <2>2 DEF ClaimsAreEarned
  <2> QED
    BY <2>1, <2>3, <2>4 DEF GraphsOfTheirKey, AskersResolved
<1>3. CASE NewRetriever
  <2>1. /\ retriever' = retriever + 1 /\ retriever < MaxRetrievers
        /\ UNCHANGED <<calibration, reissue, graphs, asker>>
    BY <1>3 DEF NewRetriever
  <2>2. retriever' \in 1 .. MaxRetrievers
    BY <2>1, RoutingCalibrationAssumption DEF CalibrationTyped, RoutingCalibrationAssumption
  <2> QED
    BY <2>1, <2>2 DEF CalibrationTyped, ClaimsAreEarned, GraphsOfTheirKey, AskersResolved
<1>4. ASSUME NEW a \in Askers, ResolveThresholds(a)
      PROVE  CalibrationInvariant'
  <2> DEFINE v == [asker[a] EXCEPT !.step = "graph", !.resolved = Resolved]
  <2>1. asker[a] \in AskerRecords /\ UNCHANGED <<calibration, reissue, graphs, retriever>>
    BY <1>4 DEF ResolveThresholds, CalibrationTyped
  <2>2. Resolved \in Floors
    BY RoutingCalibrationAssumption
       DEF Resolved, Usable, ClaimsAreEarned, RoutingCalibrationAssumption
  <2>3. v \in AskerRecords /\ v.step = "graph" /\ v.resolved \in Floors
    BY <2>1, <2>2 DEF AskerRecords
  <2>4. asker' = [asker EXCEPT ![a] = v]
    BY <1>4, <2>1 DEF ResolveThresholds, AskerRecords
  <2> HIDE DEF v
  <2>5. asker' \in [Askers -> AskerRecords] /\ AskersResolved'
    BY <2>3, <2>4, OnlyThisAsker
  <2> QED
    BY <2>1, <2>5 DEF CalibrationTyped, ClaimsAreEarned, GraphsOfTheirKey
<1>5. ASSUME NEW a \in Askers, GraphHit(a)
      PROVE  CalibrationInvariant'
  <2> DEFINE k == GraphKey(retriever, asker[a].resolved)
             g == graphs[k]
             v == [asker[a] EXCEPT !.step = "run", !.runs = g]
  <2>1. /\ asker[a] \in AskerRecords /\ UNCHANGED <<calibration, reissue, graphs, retriever>>
        /\ asker[a].step = "graph" /\ g # NoFloors
    BY <1>5 DEF GraphHit, CalibrationTyped
  <2>2. k \in GraphKeys /\ k[2] = asker[a].resolved.quality
    BY <2>1 DEF AskersResolved, GraphKey, GraphKeys, Floors, CalibrationTyped
  <2>3. g \in Floors \cup {NoFloors} /\ g.quality = asker[a].resolved.quality
    BY <2>1, <2>2 DEF GraphsOfTheirKey, CalibrationTyped
  <2>4. asker' = [asker EXCEPT ![a] = v]
    BY <1>5, <2>1 DEF GraphHit, AskerRecords
  <2> HIDE DEF g, k
  <2>5. /\ v \in AskerRecords /\ v.step = "run" /\ v.runs = g
        /\ v.resolved = asker[a].resolved /\ v.resolved \in Floors
    BY <2>1, <2>3 DEF AskerRecords, AskersResolved
  <2> HIDE DEF v
  <2>6. asker' \in [Askers -> AskerRecords] /\ AskersResolved'
    BY <2>3, <2>4, <2>5, OnlyThisAsker
  <2> QED
    BY <2>1, <2>6 DEF CalibrationTyped, ClaimsAreEarned, GraphsOfTheirKey
<1>6. ASSUME NEW a \in Askers, GraphMiss(a) \/ AskerEnds(a)
      PROVE  CalibrationInvariant'
  <2>1. asker[a] \in AskerRecords /\ UNCHANGED <<calibration, reissue, graphs, retriever>>
    BY <1>6 DEF GraphMiss, AskerEnds, CalibrationTyped
  <2>2. PICK v \in AskerRecords :
          /\ asker' = [asker EXCEPT ![a] = v]
          /\ v.step \in {"graph", "compile", "run"} => v.resolved \in Floors
          /\ v.step # "run"
    <3>1. CASE GraphMiss(a)
      <4> DEFINE w == [asker[a] EXCEPT !.step = "compile", !.retriever = retriever]
      <4>1. asker[a].step = "graph" /\ asker[a].resolved \in Floors
        BY <3>1 DEF GraphMiss, AskersResolved
      <4>2. w \in AskerRecords /\ w.step = "compile" /\ w.resolved \in Floors
        BY <2>1, <4>1 DEF AskerRecords, CalibrationTyped
      <4>3. asker' = [asker EXCEPT ![a] = w]
        BY <2>1, <3>1 DEF GraphMiss, AskerRecords
      <4> HIDE DEF w
      <4> QED
        BY <4>2, <4>3
    <3>2. CASE AskerEnds(a)
      BY <3>2, NewAskerTyped DEF AskerEnds
    <3> QED
      BY <1>6, <3>1, <3>2
  <2>3. asker' \in [Askers -> AskerRecords] /\ AskersResolved'
    BY <2>2, OnlyThisAsker
  <2> QED
    BY <2>1, <2>3 DEF CalibrationTyped, ClaimsAreEarned, GraphsOfTheirKey
<1>7. ASSUME NEW a \in Askers, StoreGraph(a)
      PROVE  CalibrationInvariant'
  <2> DEFINE f == asker[a].resolved
             k == GraphKey(asker[a].retriever, f)
             v == [asker[a] EXCEPT !.step = "run", !.runs = f]
  <2>1. /\ asker[a] \in AskerRecords /\ UNCHANGED <<calibration, reissue, retriever>>
        /\ asker[a].step = "compile" /\ f \in Floors
        /\ graphs' = [graphs EXCEPT ![k] = f]
    BY <1>7 DEF StoreGraph, CalibrationTyped, AskersResolved
  <2>2. k \in GraphKeys /\ k[2] = f.quality
    BY <2>1 DEF GraphKey, GraphKeys, Floors, AskerRecords
  <2>3. asker' = [asker EXCEPT ![a] = v]
    BY <1>7, <2>1 DEF StoreGraph, AskerRecords
  <2>4. v \in AskerRecords /\ v.step = "run" /\ v.runs = f /\ v.resolved = f
    BY <2>1 DEF AskerRecords
  <2> HIDE DEF f, k, v
  <2>5. asker' \in [Askers -> AskerRecords] /\ AskersResolved'
    BY <2>1, <2>3, <2>4, OnlyThisAsker
  <2>6. graphs' \in [GraphKeys -> Floors \cup {NoFloors}] /\ GraphsOfTheirKey'
    BY <2>1, <2>2 DEF CalibrationTyped, GraphsOfTheirKey
  <2> QED
    BY <2>1, <2>5, <2>6 DEF CalibrationTyped, ClaimsAreEarned
<1>8. CASE UNCHANGED calibrationVars
  BY <1>8 DEF calibrationVars, CalibrationTyped, ClaimsAreEarned, GraphsOfTheirKey, AskersResolved
<1> QED
  BY <1>1, <1>2, <1>3, <1>4, <1>5, <1>6, <1>7, <1>8 DEF CalibrationNext

\* An artifact that claims human labels has earned the claim, whatever the numbers of rows
\* and reissues and the thresholds the operator types, and a request is held to the quality floor resolved for
\* it (assess_human_calibration_readiness, graph_cache_key).
THEOREM CalibrationIsEarned == CalibrationSpec => []CalibrationSafety
<1>1. CalibrationInvariant => CalibrationSafety
  BY DEF CalibrationInvariant, CalibrationSafety, CalibrationTypeOK, HumanClaimIsEarned,
         QualityFloorInForce, CalibrationTyped, ClaimsAreEarned, AskersResolved, Reissues,
         AskerRecords
<1> QED
  BY <1>1, CalibrationStarts, CalibrationStep, PTL DEF CalibrationSpec

----------------------------------------------------------------------------
(* ThresholdTuning: the candidates are tried one by one.                   *)

\* A bounded set of numbers that is not empty has a smallest and a largest one.
LEMMA MinOfBounded ==
    ASSUME NEW T, T \subseteq Int, T # {}, NEW b \in Int, \A n \in T : b <= n
    PROVE  Min(T) \in T /\ \A n \in T : Min(T) <= n
<1>1. PICK S : S = {k \in Nat : b + k \in T}
  OBVIOUS
<1>2. S # {} /\ S \subseteq Nat
  <2>1. PICK n : n \in T
    OBVIOUS
  <2>2. n - b \in Nat /\ b + (n - b) = n
    BY <2>1
  <2> QED
    BY <1>1, <2>1, <2>2
<1>3. \E k \in S : \A l \in S : ~ (<<l, k>> \in OpToRel(<, Nat))
  BY <1>2, NatLessThanWellFounded, WFMin
<1>4. PICK k \in S : \A l \in S : ~ (l < k)
  BY <1>2, <1>3 DEF OpToRel
<1>5. b + k \in T /\ \A n \in T : b + k <= n
  <2>1. b + k \in T /\ k \in Nat
    BY <1>1
  <2>2. ASSUME NEW n \in T PROVE b + k <= n
    <3>1. n - b \in Nat /\ b + (n - b) = n
      OBVIOUS
    <3>2. n - b \in S
      BY <1>1, <3>1
    <3> QED
      BY <1>4, <2>1, <3>1, <3>2
  <2> QED
    BY <2>1, <2>2
<1> QED
  BY <1>5 DEF Min

LEMMA MaxOfBounded ==
    ASSUME NEW T, T \subseteq Int, T # {}, NEW b \in Int, \A n \in T : n <= b
    PROVE  Max(T) \in T /\ \A n \in T : Max(T) >= n
<1>1. PICK S : S = {k \in Int : -k \in T}
  OBVIOUS
<1>2. S # {} /\ S \subseteq Int /\ \A k \in S : -b <= k
  <2>1. PICK n : n \in T
    OBVIOUS
  <2>2. -n \in Int /\ -(-n) = n
    BY <2>1
  <2>3. -n \in S
    BY <1>1, <2>1, <2>2
  <2>4. ASSUME NEW k \in S PROVE -b <= k
    BY <1>1
  <2> QED
    BY <1>1, <2>3, <2>4
<1>3. PICK k \in S : \A l \in S : k <= l
  <2>1. -b \in Int
    OBVIOUS
  <2>2. Min(S) \in S /\ \A l \in S : Min(S) <= l
    BY <1>2, <2>1, MinOfBounded
  <2> QED
    BY <2>2
<1>4. -k \in T /\ \A n \in T : -k >= n
  <2>1. -k \in T /\ k \in Int
    BY <1>1
  <2>2. ASSUME NEW n \in T PROVE -k >= n
    <3>1. -n \in Int /\ -(-n) = n
      OBVIOUS
    <3>2. -n \in S
      BY <1>1, <3>1
    <3> QED
      BY <1>3, <2>1, <3>2
  <2> QED
    BY <2>1, <2>2
<1> QED
  BY <1>4 DEF Max

\* Values of F1.
Fractions == Nat \X (Nat \ {0})

AtLeast(f, g) == Better(f, g) \/ Same(f, g)

\* A common factor does not change an order.
LEMMA Cancel ==
    ASSUME NEW d \in Nat \ {0}, NEW x \in Nat, NEW y \in Nat
    PROVE  (d * x > d * y => x > y) /\ (d * x >= d * y => x >= y) /\ (d * x = d * y => x = y)
  OBVIOUS

LEMMA Monotone ==
    ASSUME NEW d \in Nat, NEW x \in Nat, NEW y \in Nat
    PROVE  /\ x >= y => d * x >= d * y
           /\ x > y /\ d > 0 => d * x > d * y
  OBVIOUS

LEMMA Products ==
    ASSUME NEW a \in Nat, NEW b \in Nat
    PROVE  a * b \in Nat
  OBVIOUS

LEMMA Regroup ==
    ASSUME NEW a \in Nat, NEW b \in Nat, NEW c \in Nat
    PROVE  a * (b * c) = c * (b * a)
  OBVIOUS

\* The order of fractions is transitive, and strict as soon as a step is.
LEMMA FractionsInOrder ==
    ASSUME NEW f \in Fractions, NEW g \in Fractions, NEW h \in Fractions,
           AtLeast(f, g), AtLeast(g, h)
    PROVE  /\ AtLeast(f, h)
           /\ Better(f, g) \/ Better(g, h) => Better(f, h)
<1>1. PICK a \in Nat, b \in Nat \ {0} : a = f[1] /\ b = f[2]
  BY DEF Fractions
<1>2. PICK c \in Nat, d \in Nat \ {0} : c = g[1] /\ d = g[2]
  BY DEF Fractions
<1>3. PICK e \in Nat, i \in Nat \ {0} : e = h[1] /\ i = h[2]
  BY DEF Fractions
<1>4. PICK ad \in Nat, cb \in Nat, ci \in Nat, ed \in Nat, ai \in Nat, eb \in Nat :
         ad = a * d /\ cb = c * b /\ ci = c * i /\ ed = e * d /\ ai = a * i /\ eb = e * b
  BY Products, <1>1, <1>2, <1>3
<1>5. ad >= cb /\ ci >= ed /\ (Better(f, g) <=> ad > cb) /\ (Better(g, h) <=> ci > ed)
  BY <1>1, <1>2, <1>3, <1>4 DEF AtLeast, Better, Same
<1>6. i * ad = d * ai /\ i * cb = b * ci /\ b * ed = d * eb
  BY <1>1, <1>2, <1>3, <1>4, Regroup
<1>7. PICK u \in Nat, v \in Nat, w \in Nat :
         /\ u = i * ad /\ v = i * cb /\ w = b * ed
         /\ u >= v /\ v >= w /\ (ad > cb => u > v) /\ (ci > ed => v > w)
  <2>1. i * ad \in Nat /\ i * cb \in Nat /\ b * ed \in Nat
    BY <1>1, <1>3, <1>4, Products
  <2> DEFINE P(n, x, y) == (x >= y => n * x >= n * y) /\ (x > y => n * x > n * y)
  <2>2. P(i, ad, cb) /\ P(b, ci, ed)
    <3> HIDE DEF P
    <3>1. \A n \in Nat \ {0}, x, y \in Nat : P(n, x, y)
      BY Monotone DEF P
    <3> QED
      BY <3>1
  <2>3. i * ad >= i * cb /\ (ad > cb => i * ad > i * cb)
        /\ b * ci >= b * ed /\ (ci > ed => b * ci > b * ed)
    BY <1>5, <2>2, Zenon
  <2> QED
    BY <1>6, <2>1, <2>3
<1>8. u >= w /\ (ad > cb \/ ci > ed => u > w)
  BY <1>7
<1>9. u = d * ai /\ w = d * eb
  BY <1>6, <1>7
<1>10. ai >= eb /\ (ad > cb \/ ci > ed => ai > eb)
  BY <1>2, <1>4, <1>8, <1>9, Cancel
<1> QED
  BY <1>1, <1>3, <1>4, <1>5, <1>10 DEF AtLeast, Better, Same

\* Of two fractions one is better, or they are the same.
LEMMA FractionsCompare ==
    ASSUME NEW f \in Fractions, NEW g \in Fractions
    PROVE  /\ Better(f, g) \/ Same(f, g) \/ Better(g, f)
           /\ Same(f, g) => Same(g, f)
           /\ AtLeast(f, g) => ~Better(g, f)
           /\ ~Better(g, f) => AtLeast(f, g)
           /\ Same(f, f)
<1>1. PICK x \in Nat, y \in Nat : x = f[1] * g[2] /\ y = g[1] * f[2]
  BY Products DEF Fractions
<1> QED
  BY <1>1 DEF AtLeast, Better, Same

\* F1 is a fraction.
LEMMA F1IsAFraction ==
    ASSUME NEW samples, IsFiniteSet(samples), NEW flagged, flagged \subseteq samples
    PROVE  F1(samples, flagged) \in Fractions
<1>1. PICK bad : bad = {x \in samples : x.bad}
  OBVIOUS
<1>2. PICK tp, fp, fn : /\ tp = Cardinality(flagged \cap bad) /\ fp = Cardinality(flagged \ bad)
                        /\ fn = Cardinality(bad \ flagged)
  OBVIOUS
<1>3. tp \in Nat /\ fp \in Nat /\ fn \in Nat
  <2>1. /\ flagged \cap bad \subseteq samples /\ flagged \ bad \subseteq samples
        /\ bad \ flagged \subseteq samples
    BY <1>1
  <2>2. IsFiniteSet(flagged \cap bad) /\ IsFiniteSet(flagged \ bad) /\ IsFiniteSet(bad \ flagged)
    BY <2>1, FS_Subset, Zenon
  <2> QED
    BY <1>2, <2>2, FS_CardinalityType
<1>4. F1(samples, flagged) = IF tp = 0 THEN <<0, 1>> ELSE <<2 * tp, 2 * tp + fp + fn>>
  BY <1>1, <1>2 DEF F1
<1> QED
  BY <1>3, <1>4 DEF Fractions

\* The variables have their shape, and only candidates are to be tried.
SearchTypes ==
    /\ traces \in Seq(TraceRows) /\ asked \in Asked
    /\ search = [todo |-> search.todo, best |-> search.best]
    /\ search.todo \subseteq ThresholdCandidates /\ search.best \in Int
    /\ advice = [status |-> advice.status, suggested |-> advice.suggested]
    /\ advice.status \in {"none", "searching", "ok", "insufficient_data"}
    /\ advice.suggested \in Int

Measure(samples, t, higher) == F1(samples, Flagged(samples, t, higher))

\* A best value that no candidate tried so far beats, at the same F1 by its distance.
Searched(samples, higher, current, tried, best) ==
    /\ \A c \in tried : \/ Better(Measure(samples, best, higher), Measure(samples, c, higher))
                        \/ /\ Same(Measure(samples, best, higher), Measure(samples, c, higher))
                           /\ Distance(best, current) <= Distance(c, current)
    /\ best = current \/ Better(Measure(samples, best, higher), Measure(samples, current, higher))

Tried == ThresholdCandidates \ search.todo

\* While it searches and when it has advice, the best so far is the best of the tried.
BestOfTheTried ==
    advice.status \in {"searching", "ok"} =>
        /\ Cardinality(Labelled) >= MinLabels
        /\ Searched(Labelled, asked.higher, asked.current, Tried, search.best)

\* Advice comes after the last candidate, and before the first one nothing is found.
AllTried == advice.status = "ok" => search.todo = {}
NotBegun ==
    advice.status \in {"none", "insufficient_data"} =>
        search.todo = {} /\ search.best = asked.current

TuningInv == SearchTypes /\ BestOfTheTried /\ AllTried /\ NotBegun

\* The sample is finite, and its scores are scores.
LEMMA SampleIsFinite ==
    ASSUME traces \in Seq(TraceRows)
    PROVE  IsFiniteSet(Labelled) /\ ScoreValues \subseteq 0 .. TopScore
<1>1. PICK reviewed :
         reviewed = (\/ asked.reviews = "more"
                     \/ /\ asked.reviews = "here"
                        /\ \E i \in DOMAIN traces : traces[i].review # "none")
  OBVIOUS
<1> DEFINE sample(i) == [trace |-> i, score |-> traces[i].score,
                         bad |-> IF reviewed THEN traces[i].review = "bad" ELSE traces[i].human]
<1>2. PICK kept : kept = {j \in DOMAIN traces : /\ traces[j].score # NoScore
                                                /\ reviewed => traces[j].review # "none"}
  OBVIOUS
<1>3. Labelled = {sample(i) : i \in kept}
  BY <1>1, <1>2 DEF Labelled
<1>4. kept \subseteq 1 .. Len(traces) /\ Len(traces) \in Nat
  BY <1>2
<1>5. IsFiniteSet(kept)
  <2>1. IsFiniteSet(1 .. Len(traces))
    BY <1>4, FS_Interval
  <2> QED
    BY <1>4, <2>1, FS_Subset, Zenon
<1>6. IsFiniteSet(Labelled)
  <2> HIDE DEF sample
  <2> DEFINE f == [i \in kept |-> sample(i)]
  <2>1. f \in Surjection(kept, Labelled)
    BY <1>3 DEF Surjection
  <2> QED
    BY <1>5, <2>1, FS_Surjection
<1>7. \A i \in kept : traces[i].score \in 0 .. TopScore
  <2>1. \A i \in kept : traces[i] \in TraceRows /\ traces[i].score # NoScore
    BY <1>2
  <2> QED
    BY <2>1 DEF TraceRows
<1>8. ScoreValues \subseteq 0 .. TopScore
  BY <1>3, <1>7 DEF ScoreValues
<1> QED
  BY <1>6, <1>8

\* The step past the scores is one, and the candidates are numbers bounded below.
LEMMA StepIsPositive ==
    ASSUME ThresholdTuningAssumption
    PROVE  CandidateStep \in Nat \ {0}
<1>1. PICK gaps : gaps = {g \in 1 .. TopScore : \E x, y \in ScoreValues : g = x - y}
  OBVIOUS
<1>2. CASE gaps = {}
  BY <1>1, <1>2 DEF CandidateStep
<1>3. CASE gaps # {}
  <2>1. gaps \subseteq Nat \ {0} /\ gaps \subseteq Int /\ \A g \in gaps : 1 <= g
    BY <1>1 DEF ThresholdTuningAssumption
  <2>2. Min(gaps) \in gaps
    <3>1. PICK one \in Int : \A g \in gaps : one <= g
      BY <2>1
    <3> QED
      BY <1>3, <2>1, <3>1, MinOfBounded
  <2>3. PICK m \in Nat \ {0} : m = Min(gaps)
    BY <2>1, <2>2
  <2>4. PICK r \in Int : r = Rounded(m)
    BY DEF Rounded
  <2>5. Max({2, r}) \in {2, r} /\ Max({2, r}) >= 2
    <3>1. PICK b \in Int : r <= b /\ 2 <= b
      <4>1. CASE r <= 2
        BY <4>1
      <4>2. CASE r >= 2
        BY <4>2
      <4> QED
        BY <4>1, <4>2
    <3>2. {2, r} \subseteq Int /\ \A n \in {2, r} : n <= b
      BY <3>1
    <3> QED
      BY <3>2, MaxOfBounded
  <2>6. CandidateStep = IF asked.whole THEN Max({2, r}) ELSE m
    BY <1>1, <1>3, <2>3, <2>4 DEF CandidateStep
  <2> QED
    BY <2>5, <2>6
<1> QED
  BY <1>2, <1>3

LEMMA PastIsPast ==
    ASSUME ThresholdTuningAssumption, traces \in Seq(TraceRows), ScoreValues # {}
    PROVE  /\ PastScores \in Int
           /\ \A s \in ScoreValues : IF asked.higher THEN s > PastScores ELSE s < PastScores
<1>1. PICK top \in Int : top = TopScore
  BY DEF ThresholdTuningAssumption
<1>2. ScoreValues \subseteq Int /\ \A s \in ScoreValues : 0 <= s /\ s <= top
  BY <1>1, SampleIsFinite
<1>3. Min(ScoreValues) \in ScoreValues /\ \A s \in ScoreValues : Min(ScoreValues) <= s
  <2>1. PICK zero \in Int : \A s \in ScoreValues : zero <= s
    <3>1. 0 \in Int /\ \A s \in ScoreValues : 0 <= s
      BY <1>2
    <3> QED
      BY <3>1, Zenon
  <2> QED
    BY <1>2, <2>1, MinOfBounded
<1>4. Max(ScoreValues) \in ScoreValues /\ \A s \in ScoreValues : Max(ScoreValues) >= s
  BY <1>2, MaxOfBounded
<1>5. PICK step \in Nat \ {0} : step = CandidateStep
  BY StepIsPositive
<1>6. PICK lo \in Int, hi \in Int : lo = Min(ScoreValues) /\ hi = Max(ScoreValues)
  BY <1>2, <1>3, <1>4
<1>7. PastScores = IF asked.higher THEN lo - step ELSE hi + step
  BY <1>5, <1>6 DEF PastScores
<1>8. \A s \in ScoreValues : s \in Int /\ lo <= s /\ s <= hi
  BY <1>2, <1>3, <1>4, <1>6
<1>9. /\ lo - step \in Int /\ hi + step \in Int
      /\ \A s \in ScoreValues : s > lo - step /\ s < hi + step
  BY <1>8
<1> QED
  BY <1>7, <1>9

LEMMA CandidatesBounded ==
    ASSUME ThresholdTuningAssumption, traces \in Seq(TraceRows), asked \in Asked, ScoreValues # {}
    PROVE  /\ ThresholdCandidates \subseteq Int
           /\ \E b \in Int : \A c \in ThresholdCandidates : b <= c
<1>1. PICK past \in Int : past = PastScores
  BY PastIsPast
<1>2. asked.current \in Nat
  BY DEF Asked, ThresholdTuningAssumption
<1>3. ScoreValues \subseteq Nat
  BY SampleIsFinite DEF ThresholdTuningAssumption
<1>4. \A c \in ThresholdCandidates : c \in Nat \/ c = past
  BY <1>1, <1>2, <1>3 DEF ThresholdCandidates
<1>5. CASE past >= 0
  BY <1>4, <1>5
<1>6. CASE past <= 0
  <2>1. \A c \in ThresholdCandidates : past <= c
    BY <1>4, <1>6
  <2> QED
    BY <1>4, <2>1
<1> QED
  BY <1>5, <1>6

\* Whatever threshold one takes, some candidate flags the same traces: the nearest score
\* on its far side, or the value past all of them.
LEMMA CandidatesSuffice ==
    ASSUME ThresholdTuningAssumption, traces \in Seq(TraceRows), ScoreValues # {}, NEW t \in Int
    PROVE  \E c \in ThresholdCandidates :
              Flagged(Labelled, c, asked.higher) = Flagged(Labelled, t, asked.higher)
<1>1. PICK top \in Int : top = TopScore
  BY DEF ThresholdTuningAssumption
<1>2. \A s \in ScoreValues : s \in Int /\ 0 <= s /\ s <= top
  BY <1>1, SampleIsFinite
<1>3. \A x \in Labelled : x.score \in ScoreValues
  BY DEF ScoreValues
<1>4. SUFFICES \E c \in ThresholdCandidates : \A s \in ScoreValues :
                   IF asked.higher THEN s > c <=> s > t ELSE s < c <=> s < t
  BY <1>3 DEF Flagged
<1>5. PICK near : near = {s \in ScoreValues : IF asked.higher THEN s <= t ELSE s >= t}
  OBVIOUS
<1>6. CASE near = {}
  <2>1. PICK past \in Int : past = PastScores /\ past \in ThresholdCandidates
    BY PastIsPast DEF ThresholdCandidates
  <2>2. \A s \in ScoreValues : IF asked.higher THEN s > past ELSE s < past
    BY <2>1, PastIsPast
  <2>3. \A s \in ScoreValues : IF asked.higher THEN s > t ELSE s < t
    BY <1>2, <1>5, <1>6
  <2> QED
    BY <2>1, <2>2, <2>3
<1>7. CASE near # {} /\ asked.higher
  <2>1. near \subseteq Int /\ \A n \in near : n <= top
    BY <1>2, <1>5
  <2>2. PICK c \in near : \A n \in near : c >= n
    BY <1>1, <1>7, <2>1, MaxOfBounded
  <2>3. c \in ThresholdCandidates /\ c \in Int
    BY <1>5, <2>1 DEF ThresholdCandidates
  <2>4. \A s \in ScoreValues : s > c <=> s > t
    BY <1>2, <1>5, <1>7, <2>2, <2>3
  <2> QED
    BY <1>7, <2>3, <2>4
<1>8. CASE near # {} /\ ~asked.higher
  <2>1. near \subseteq Int /\ \A n \in near : 0 <= n
    BY <1>2, <1>5
  <2>2. PICK c \in near : \A n \in near : c <= n
    <3>1. PICK zero \in Int : \A n \in near : zero <= n
      BY <2>1
    <3> QED
      BY <1>8, <2>1, <3>1, MinOfBounded
  <2>3. c \in ThresholdCandidates /\ c \in Int
    BY <1>5, <2>1 DEF ThresholdCandidates
  <2>4. \A s \in ScoreValues : s < c <=> s < t
    BY <1>2, <1>5, <1>8, <2>2, <2>3
  <2> QED
    BY <1>8, <2>3, <2>4
<1> QED
  BY <1>6, <1>7, <1>8

LEMMA TuningInitInv == ThresholdTuningAssumption /\ TuningInit => TuningInv
<1> SUFFICES ASSUME ThresholdTuningAssumption, TuningInit PROVE TuningInv
  OBVIOUS
<1>1. traces \in Seq(TraceRows)
  <2>1. PICK n \in 0 .. MaxTraces : traces \in [1 .. n -> TraceRows]
    BY DEF TuningInit
  <2>2. n \in Nat
    BY DEF ThresholdTuningAssumption
  <2> QED
    BY <2>1, <2>2
<1>2. asked \in Asked /\ asked.current \in Int
  BY DEF TuningInit, Asked
<1>3. /\ search = [todo |-> {}, best |-> asked.current]
      /\ advice = [status |-> "none", suggested |-> 0]
  BY DEF TuningInit
<1>4. SearchTypes
  BY <1>1, <1>2, <1>3 DEF SearchTypes
<1> QED
  BY <1>3, <1>4 DEF TuningInv, BestOfTheTried, AllTried, NotBegun

\* With the traces and the question stays all that is computed from them.
LEMMA SameQuestion ==
    ASSUME UNCHANGED <<traces, asked>>
    PROVE  UNCHANGED <<Labelled, ThresholdCandidates>>
<1>1. Labelled' = Labelled
  BY DEF Labelled
<1>2. ScoreValues' = ScoreValues
  BY <1>1 DEF ScoreValues
<1>3. CandidateStep' = CandidateStep
  BY <1>2 DEF CandidateStep
<1>4. PastScores' = PastScores
  BY <1>2, <1>3 DEF PastScores
<1> QED
  BY <1>1, <1>2, <1>4 DEF ThresholdCandidates

LEMMA StartHolds ==
    ThresholdTuningAssumption /\ TuningInv /\ StartSearch => TuningInv'
<1> SUFFICES ASSUME ThresholdTuningAssumption, TuningInv, StartSearch PROVE TuningInv'
  OBVIOUS
<1>1. SearchTypes /\ NotBegun
  BY DEF TuningInv
<1>2. UNCHANGED <<traces, asked, Labelled, ThresholdCandidates>>
  BY SameQuestion DEF StartSearch
<1>3. /\ search' = [todo |-> ThresholdCandidates, best |-> search.best]
      /\ advice' = [status |-> "searching", suggested |-> advice.suggested]
      /\ Cardinality(Labelled) >= MinLabels /\ search.best = asked.current
  BY <1>1 DEF StartSearch, SearchTypes, NotBegun
<1>4. SearchTypes'
  BY <1>1, <1>2, <1>3 DEF SearchTypes
<1>5. BestOfTheTried'
  <2>1. Searched(Labelled, asked.higher, asked.current, {}, asked.current)
    BY DEF Searched
  <2>2. Tried' = {}
    BY <1>2, <1>3 DEF Tried
  <2> QED
    BY <1>2, <1>3, <2>1, <2>2 DEF BestOfTheTried
<1> QED
  BY <1>3, <1>4, <1>5 DEF TuningInv, AllTried, NotBegun

\* Trying one more candidate keeps the best so far the best of the tried.
LEMMA SearchedGrows ==
    ASSUME NEW samples, IsFiniteSet(samples), NEW higher, NEW current \in Int, NEW tried,
           tried \subseteq Int, NEW best \in Int, NEW c \in Int, NEW next,
           Searched(samples, higher, current, tried, best),
           LET f == Measure(samples, c, higher)
               g == Measure(samples, best, higher)
           IN  next = IF \/ Better(f, g)
                         \/ Same(f, g) /\ Distance(c, current) < Distance(best, current)
                      THEN c ELSE best
    PROVE  Searched(samples, higher, current, tried \union {c}, next)
<1> DEFINE M(t) == Measure(samples, t, higher)
           D(t) == Distance(t, current)
           Beats(b, d) == Better(M(b), M(d)) \/ (Same(M(b), M(d)) /\ D(b) <= D(d))
<1>1. \A t : M(t) \in Fractions
  <2>1. \A t : Flagged(samples, t, higher) \subseteq samples
    BY DEF Flagged
  <2> QED
    BY <2>1, F1IsAFraction DEF Measure
<1>2. \A t \in Int : D(t) \in Nat
  BY DEF Distance
<1>3. D(current) = 0
  BY DEF Distance
<1>4. \A d \in tried : Beats(best, d)
  BY DEF Searched
<1>5. best = current \/ Better(M(best), M(current))
  BY DEF Searched
<1>6. next = IF Better(M(c), M(best)) \/ (Same(M(c), M(best)) /\ D(c) < D(best)) THEN c ELSE best
  OBVIOUS
<1>7. SUFFICES /\ \A d \in tried \union {c} : Beats(next, d)
               /\ next = current \/ Better(M(next), M(current))
  BY DEF Searched
<1> HIDE DEF M, D
<1>8. \A u, v, w \in Int : Beats(u, v) /\ Beats(v, w) => Beats(u, w)
  <2> SUFFICES ASSUME NEW u \in Int, NEW v \in Int, NEW w \in Int, Beats(u, v), Beats(v, w)
               PROVE  Beats(u, w)
    OBVIOUS
  <2>1. AtLeast(M(u), M(v)) /\ AtLeast(M(v), M(w))
    BY DEF AtLeast
  <2>2. AtLeast(M(u), M(w)) /\ (Better(M(u), M(v)) \/ Better(M(v), M(w)) => Better(M(u), M(w)))
    BY <1>1, <2>1, FractionsInOrder
  <2>3. CASE Better(M(u), M(v)) \/ Better(M(v), M(w))
    BY <2>2, <2>3
  <2>4. CASE D(u) <= D(v) /\ D(v) <= D(w)
    <3>1. D(u) <= D(w)
      BY <1>2, <2>4
    <3> QED
      BY <2>2, <3>1 DEF AtLeast
  <2> QED
    BY <2>3, <2>4
<1>9. \A t \in Int : Beats(t, t)
  BY <1>1, <1>2, FractionsCompare
<1>10. CASE next = c /\ (Better(M(c), M(best)) \/ (Same(M(c), M(best)) /\ D(c) < D(best)))
  <2>1. Beats(c, best)
    BY <1>2, <1>10
  <2>2. \A d \in tried \union {c} : Beats(c, d)
    BY <1>4, <1>8, <1>9, <2>1
  <2>3. Better(M(c), M(current))
    <3>1. CASE best = current
      BY <1>2, <1>3, <1>10, <3>1
    <3>2. CASE Better(M(best), M(current))
      <4>1. AtLeast(M(c), M(best)) /\ AtLeast(M(best), M(current))
        BY <1>10, <3>2 DEF AtLeast
      <4> QED
        BY <1>1, <3>2, <4>1, FractionsInOrder
    <3> QED
      BY <1>5, <3>1, <3>2
  <2> QED
    BY <1>10, <2>2, <2>3
<1>11. CASE next = best /\ ~(Better(M(c), M(best)) \/ (Same(M(c), M(best)) /\ D(c) < D(best)))
  <2>1. Better(M(best), M(c)) \/ Same(M(best), M(c))
    BY <1>1, <1>11, FractionsCompare DEF AtLeast
  <2>2. Same(M(best), M(c)) => D(best) <= D(c)
    <3>1. Same(M(best), M(c)) => Same(M(c), M(best))
      BY <1>1, FractionsCompare
    <3> QED
      BY <1>2, <1>11, <3>1
  <2>3. \A d \in tried \union {c} : Beats(best, d)
    BY <1>4, <2>1, <2>2
  <2> QED
    BY <1>5, <1>11, <2>3
<1> QED
  BY <1>6, <1>10, <1>11

LEMMA TryHolds ==
    ThresholdTuningAssumption /\ TuningInv /\ TryCandidate => TuningInv'
<1> SUFFICES ASSUME ThresholdTuningAssumption, TuningInv, TryCandidate PROVE TuningInv'
  OBVIOUS
<1>1. SearchTypes /\ BestOfTheTried
  BY DEF TuningInv
<1>2. UNCHANGED <<traces, asked, advice, Labelled, ThresholdCandidates>>
  BY SameQuestion DEF TryCandidate
<1>3. PICK c : /\ c = Min(search.todo)
               /\ search' = [todo |-> search.todo \ {c},
                             best |-> IF Preferred(c) THEN c ELSE search.best]
               /\ advice.status = "searching" /\ search.todo # {}
  BY DEF TryCandidate
<1>4. /\ Cardinality(Labelled) >= MinLabels
      /\ Searched(Labelled, asked.higher, asked.current, Tried, search.best)
  BY <1>1, <1>3 DEF BestOfTheTried
<1>5. ScoreValues # {}
  <2>1. Labelled # {}
    BY <1>4, FS_EmptySet DEF ThresholdTuningAssumption
  <2> QED
    BY <2>1 DEF ScoreValues
<1>6. ThresholdCandidates \subseteq Int /\ c \in search.todo /\ c \in ThresholdCandidates
  <2>1. PICK b \in Int : ThresholdCandidates \subseteq Int /\ \A d \in ThresholdCandidates : b <= d
    BY <1>1, <1>5, CandidatesBounded DEF SearchTypes
  <2>2. search.todo \subseteq Int /\ \A d \in search.todo : b <= d
    BY <1>1, <2>1 DEF SearchTypes
  <2>3. c \in search.todo
    BY <1>3, <2>2, MinOfBounded
  <2> QED
    BY <1>1, <2>1, <2>3 DEF SearchTypes
<1>7. PICK next : next = IF Preferred(c) THEN c ELSE search.best
  OBVIOUS
<1>8. Searched(Labelled, asked.higher, asked.current, Tried \union {c}, next)
  <2>1. IsFiniteSet(Labelled) /\ asked.current \in Int /\ search.best \in Int /\ c \in Int
    BY <1>1, <1>6, SampleIsFinite DEF SearchTypes, Asked
  <2>2. Tried \subseteq Int
    BY <1>6 DEF Tried
  <2>3. LET f == Measure(Labelled, c, asked.higher)
            g == Measure(Labelled, search.best, asked.higher)
        IN  next = IF \/ Better(f, g)
                      \/ /\ Same(f, g)
                         /\ Distance(c, asked.current) < Distance(search.best, asked.current)
                   THEN c ELSE search.best
    BY <1>7 DEF Preferred, Metric, Measure
  <2> QED
    BY <1>4, <2>1, <2>2, <2>3, SearchedGrows
<1>9. /\ search'.todo = search.todo \ {c} /\ search'.best = next
      /\ search' = [todo |-> search'.todo, best |-> search'.best]
  BY <1>3, <1>7
<1>10. BestOfTheTried'
  <2>1. Tried' = Tried \union {c}
    BY <1>2, <1>6, <1>9 DEF Tried
  <2> QED
    BY <1>2, <1>4, <1>8, <1>9, <2>1 DEF BestOfTheTried
<1>11. SearchTypes'
  <2>1. next \in Int
    BY <1>1, <1>6, <1>7 DEF SearchTypes
  <2> QED
    BY <1>1, <1>2, <1>9, <2>1 DEF SearchTypes
<1> QED
  BY <1>2, <1>3, <1>10, <1>11 DEF TuningInv, AllTried, NotBegun

LEMMA TuningStep ==
    ThresholdTuningAssumption /\ TuningInv /\ [TuningNext]_tuningVars => TuningInv'
<1> SUFFICES ASSUME ThresholdTuningAssumption, TuningInv, [TuningNext]_tuningVars PROVE TuningInv'
  OBVIOUS
<1>1. CASE TooFewLabels
  <2>1. UNCHANGED <<traces, asked, search, Labelled, ThresholdCandidates>>
    BY <1>1, SameQuestion DEF TooFewLabels
  <2>2. advice' = [status |-> "insufficient_data", suggested |-> advice.suggested]
    BY <1>1 DEF TooFewLabels, TuningInv, SearchTypes
  <2>3. SearchTypes'
    BY <2>1, <2>2 DEF TuningInv, SearchTypes
  <2> QED
    BY <1>1, <2>1, <2>2, <2>3 DEF TuningInv, BestOfTheTried, AllTried, NotBegun, TooFewLabels
<1>2. CASE StartSearch
  BY <1>2, StartHolds
<1>3. CASE TryCandidate
  BY <1>3, TryHolds
<1>4. CASE Suggest
  <2>1. UNCHANGED <<traces, asked, search, Labelled, ThresholdCandidates>>
    BY <1>4, SameQuestion DEF Suggest
  <2>2. /\ advice' = [status |-> "ok", suggested |-> Rounded(search.best)]
        /\ advice.status = "searching" /\ search.todo = {}
    BY <1>4 DEF Suggest
  <2>3. Rounded(search.best) \in Int
    BY DEF TuningInv, SearchTypes, Rounded
  <2>4. SearchTypes'
    BY <2>1, <2>2, <2>3 DEF TuningInv, SearchTypes
  <2>5. BestOfTheTried'
    BY <2>1, <2>2 DEF TuningInv, BestOfTheTried, Tried
  <2> QED
    BY <2>1, <2>2, <2>4, <2>5 DEF TuningInv, AllTried, NotBegun
<1>5. CASE UNCHANGED tuningVars
  <2>1. UNCHANGED <<traces, asked, search, advice, Labelled, ThresholdCandidates>>
    BY <1>5, SameQuestion DEF tuningVars
  <2> QED
    BY <2>1 DEF TuningInv, SearchTypes, BestOfTheTried, Tried, AllTried, NotBegun
<1> QED
  BY <1>1, <1>2, <1>3, <1>4, <1>5 DEF TuningNext

LEMMA TuningInvIsSafe == ThresholdTuningAssumption /\ TuningInv => TuningSafety
<1> SUFFICES ASSUME ThresholdTuningAssumption, TuningInv PROVE TuningSafety
  OBVIOUS
<1>1. SearchTypes
  BY DEF TuningInv
<1>2. CASE advice.status \in {"none", "insufficient_data"}
  BY <1>1, <1>2
     DEF TuningInv, SearchTypes, NotBegun, TuningSafety, TuningTypeOK, NoThresholdIsBetter,
         MovesOnlyForGain
<1>3. CASE advice.status \in {"searching", "ok"}
  <2>1. /\ Searched(Labelled, asked.higher, asked.current, Tried, search.best)
        /\ Cardinality(Labelled) >= MinLabels
    BY <1>3 DEF TuningInv, BestOfTheTried
  <2>2. ScoreValues # {}
    <3>1. Labelled # {}
      BY <2>1, FS_EmptySet DEF ThresholdTuningAssumption
    <3> QED
      BY <3>1 DEF ScoreValues
  <2>3. ThresholdCandidates \subseteq Int
    BY <1>1, <2>2, CandidatesBounded DEF SearchTypes
  <2>4. TuningTypeOK
    BY <1>1, <2>3 DEF SearchTypes, TuningTypeOK
  <2> DEFINE M(t) == Measure(Labelled, t, asked.higher)
  <2>5. \A t : Metric(t) = M(t)
    BY DEF Metric, Measure
  <2>6. \A t : M(t) \in Fractions
    <3>1. IsFiniteSet(Labelled)
      BY <1>1, SampleIsFinite DEF SearchTypes
    <3>2. \A t : Flagged(Labelled, t, asked.higher) \subseteq Labelled
      BY DEF Flagged
    <3> QED
      BY <3>1, <3>2, F1IsAFraction DEF Measure
  <2>7. ASSUME advice.status = "ok" PROVE NoThresholdIsBetter /\ MovesOnlyForGain
    <3>1. search.todo = {}
      BY <2>7 DEF TuningInv, AllTried
    <3>2. \A c \in ThresholdCandidates :
             \/ Better(M(search.best), M(c))
             \/ /\ Same(M(search.best), M(c))
                /\ Distance(search.best, asked.current) <= Distance(c, asked.current)
      BY <2>1, <3>1 DEF Searched, Tried
    <3>3. search.best = asked.current \/ Better(M(search.best), M(asked.current))
      BY <2>1 DEF Searched
    <3>4. ASSUME NEW t \in Int PROVE ~Better(M(t), M(search.best))
      <4>1. PICK c \in ThresholdCandidates : M(c) = M(t)
        BY <1>1, <2>2, CandidatesSuffice DEF SearchTypes, Measure
      <4> HIDE DEF M
      <4>2. AtLeast(M(search.best), M(t))
        BY <3>2, <4>1 DEF AtLeast
      <4> QED
        BY <2>6, <4>2, FractionsCompare
    <3>5. NoThresholdIsBetter
      <4>1. \A t \in -2 .. TopScore + 2 : t \in Int
        OBVIOUS
      <4> HIDE DEF M
      <4> QED
        BY <2>5, <3>4, <4>1 DEF NoThresholdIsBetter
    <3>6. MovesOnlyForGain
      <4>1. ASSUME NEW c \in ScoreValues,
                   Distance(c, asked.current) < Distance(search.best, asked.current)
            PROVE  Better(M(search.best), M(c))
        <5>1. c \in ThresholdCandidates /\ c \in Int
          BY <2>3 DEF ThresholdCandidates
        <5>2. search.best \in Int /\ asked.current \in Int
          BY <1>1 DEF SearchTypes, Asked
        <5>3. Distance(c, asked.current) \in Int /\ Distance(search.best, asked.current) \in Int
          BY <5>1, <5>2 DEF Distance
        <5> HIDE DEF M
        <5> QED
          BY <3>2, <4>1, <5>1, <5>3
      <4> HIDE DEF M
      <4> QED
        BY <2>5, <3>3, <4>1 DEF MovesOnlyForGain
    <3> QED
      BY <3>5, <3>6
  <2> QED
    BY <2>4, <2>7 DEF TuningSafety, NoThresholdIsBetter, MovesOnlyForGain
<1> QED
  BY <1>1, <1>2, <1>3 DEF SearchTypes

\* For every sample of labelled traces and every threshold asked about: the threshold found
\* has the best F1 there is, moves only for a gain, and no further than needed.
THEOREM SuggestionIsBest == TuningSpec => []TuningSafety
<1>1. ThresholdTuningAssumption
  BY ThresholdTuningAssumption
<1> QED
  BY <1>1, TuningInitInv, TuningStep, TuningInvIsSafe, PTL DEF TuningSpec
=============================================================================
