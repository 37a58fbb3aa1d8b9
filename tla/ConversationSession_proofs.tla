---------------------- MODULE ConversationSession_proofs ----------------------
(***************************************************************************)
(* Theorems about ConversationSession, for any number of asks, budgeted or *)
(* not, any length of the history and any number of clears.                *)
(***************************************************************************)
EXTENDS ConversationSession, TLAPS

\* What the place of a caller says of its other variables.
Phases ==
    \A a \in Asks :
        /\ pc[a] \in {"new", "waiting", "conflict"} => turn[a] = 0 /\ run[a] = "none"
        /\ pc[a] \in {"new", "waiting", "running"} => outcome[a] = "none"
        /\ pc[a] \in {"new", "waiting"} => version[a] = NoVersion
        /\ pc[a] = "conflict" => outcome[a] = "conflict"
        /\ pc[a] = "invalidate" => outcome[a] \in TimedOut
        /\ pc[a] \in {"append", "stamp"} => outcome[a] \notin {"none", "raised", "conflict"}
        /\ pc[a] \in Holding => busy /\ turn[a] > 0
        /\ run[a] \in {"finish", "done"} => result[a] # "none"

\* One ask at a time holds the turn, and its turn is the newest.
Exclusive ==
    \A a, b \in Asks : pc[a] \in Holding /\ a # b => pc[b] \notin Holding /\ turn[b] < turn[a]

Invalidated(a) == pc[a] # "invalidate" /\ outcome[a] \in TimedOut

\* The epoch is the holder's turn, or the next when it has been invalidated.
Epochs ==
    \A a \in Asks : pc[a] \in Holding =>
        /\ cleared < turn[a]
        /\ active = turn[a]
        /\ epoch = IF Invalidated(a) THEN turn[a] + 1 ELSE turn[a]

TurnInv == TypeOK /\ Phases /\ Exclusive /\ Epochs

\* Only asks that have appended are in the history.
Recorded ==
    /\ Len(history) <= MaxHistory
    /\ \A i \in 1..Len(history) : pc[history[i]] \in {"stamp", "release", "done"}

\* Ask a has appended its answer.
Answered(a) == pc[a] \in {"stamp", "release", "done"} /\ outcome[a] \notin {"raised", "conflict"}

InHistory(a) == \E i \in 1..Len(history) : history[i] = a

Displaced(a) == Len(history) = MaxHistory /\ turn[a] < turn[history[1]]

\* NothingIsLost, from the append on.
Kept == \A a \in Asks : Answered(a) /\ turn[a] > cleared => InHistory(a) \/ Displaced(a)

HistoryInv == Recorded /\ HistoryInOrder /\ Kept

\* A client replies to an ask that has returned, with its version.
Replies ==
    \A a \in Asks : replyTo[a] # None =>
        /\ pc[replyTo[a]] = "done"
        /\ expected[a] = version[replyTo[a]]
        /\ version[replyTo[a]] # NoVersion

\* Nothing happened between a turn and the version it was stamped with.
Stamped ==
    \A b \in Asks : version[b] # NoVersion /\ turn[b] > 0 =>
        /\ \A d \in Asks : ~(turn[b] < turn[d] /\ turn[d] <= version[b])
        /\ ~(turn[b] < cleared /\ cleared <= version[b])

VersionInv == Replies /\ Stamped /\ AcceptedVersionIsFresh

Working(a) == run[a] \in {"submitted", "looked", "ticket", "finish"}

\* No worker runs on behind its caller's back.
Attached == \A a \in Asks : Working(a) => pc[a] = "running"

\* What a worker looked at is still pending when it acts on it.
Current == \A a \in Asks : run[a] = "looked" => snap[a] = pending

\* An action that is pending, being executed or executed was proposed.
Proposed ==
    /\ pending # None => run[pending] \in {"finish", "done"}
    /\ \A a \in Asks :
          /\ run[a] = "ticket" => subject[a] # None /\ run[subject[a]] \in {"finish", "done"}
          /\ ticket[a] # None => run[a] \in {"finish", "done"} /\ run[ticket[a]] \in {"finish", "done"}

\* An action is in one of three places: pending, being executed, executed.
Unspent ==
    /\ \A a \in Asks : pending # None => ticket[a] # pending
    /\ \A a \in Asks : pending # None /\ run[a] = "ticket" => subject[a] # pending
    /\ \A a, b \in Asks : run[a] = "ticket" => ticket[b] # subject[a]
    /\ \A a, b \in Asks : ticket[a] # None /\ ticket[a] = ticket[b] => a = b

\* Ask b shows an action to its client, or is about to.
Shows(b) ==
    \/ outcome[b] = "confirm"
    \/ pc[b] = "running" /\ run[b] \in {"finish", "done"} /\ result[b] = "confirm"

\* What was shown is pending until the epoch moves.
Shown ==
    \A b \in Asks :
        /\ Shows(b) /\ epoch = turn[b] => pending = subject[b]
        /\ pc[b] \in {"release", "done"} /\ outcome[b] = "confirm" => version[b] = turn[b]

\* A reply to what was shown is about just that, until its ticket exists.
Confirming ==
    \A a, b \in Asks : replyTo[a] = b /\ outcome[b] = "confirm" =>
        /\ run[a] \in {"submitted", "looked"} => pending = subject[b]
        /\ run[a] = "ticket" => subject[a] = subject[b]
        /\ ticket[a] # None => ticket[a] = subject[b]

Calm == Attached /\ Current /\ Proposed /\ Unspent /\ Shown /\ Confirming

ActionInv == NobodyOverran => Calm

Inv == TurnInv /\ HistoryInv /\ VersionInv /\ ActionInv

----------------------------------------------------------------------------
(* The history as a sequence.                                              *)

\* A truncated history is a history.
LEMMA TruncateAppend ==
  ASSUME NEW h \in Seq(Asks), NEW a \in Asks
  PROVE  Truncate(Append(h, a)) \in Seq(Asks)
  <1> DEFINE g == Append(h, a)
  <1>1. g \in Seq(Asks) /\ Len(g) \in Nat
    OBVIOUS
  <1> HIDE DEF g
  <1>2. CASE Len(g) > MaxHistory
    <2>1. SubSeq(g, Len(g) - MaxHistory + 1, Len(g)) \in Seq(Asks)
      BY <1>1, <1>2, ConstantsAssumption
    <2>2. QED
      BY <1>2, <2>1 DEF Truncate, g
  <1>3. CASE ~(Len(g) > MaxHistory)
    BY <1>1, <1>3 DEF Truncate, g
  <1>4. QED
    BY <1>2, <1>3

----------------------------------------------------------------------------
(* Turns.                                                                  *)

\* The session keeps its type.
LEMMA SessionTypeStep ==
  ASSUME TurnInv, Recorded, [Next]_vars
  PROVE  SessionTypeOK'
  <1> USE ConstantsAssumption
      DEF TurnInv, Recorded, TypeOK, SessionTypeOK, CallerTypeOK, vars, sessionVars, callVars,
          workVars, Goto, Advance, Produce
  <1>1. ASSUME NEW a \in Asks,
                Call(a)
       PROVE  SessionTypeOK'
    BY <1>1
    DEF Call
  <1>2. ASSUME NEW a \in Asks,
                AcquireTurn(a)
       PROVE  SessionTypeOK'
    BY <1>2
    DEF AcquireTurn, VersionMatches
  <1>3. ASSUME NEW a \in Asks,
                RefuseVersion(a)
       PROVE  SessionTypeOK'
    BY <1>3
    DEF RefuseVersion, VersionMatches
  <1>4. ASSUME NEW a \in Asks,
                ReportConflict(a)
       PROVE  SessionTypeOK'
    BY <1>4
    DEF ReportConflict
  <1>5. ASSUME NEW a \in Asks,
                CollectResult(a)
       PROVE  SessionTypeOK'
    BY <1>5
    DEF CollectResult, Proceed
  <1>6. ASSUME NEW a \in Asks,
                OverrunBudget(a)
       PROVE  SessionTypeOK'
    BY <1>6
    DEF OverrunBudget, Proceed, MayOverrun
  <1>7. ASSUME NEW a \in Asks,
                InvalidateTurn(a)
       PROVE  SessionTypeOK'
    BY <1>7
    DEF InvalidateTurn
  <1>8. ASSUME NEW a \in Asks,
                AppendHistory(a)
       PROVE  SessionTypeOK'
    BY <1>8, TruncateAppend
    DEF AppendHistory, MayAppend
  <1>9. ASSUME NEW a \in Asks,
                StampVersion(a)
       PROVE  SessionTypeOK'
    BY <1>9
    DEF StampVersion
  <1>10. ASSUME NEW a \in Asks,
                ReleaseTurn(a)
       PROVE  SessionTypeOK'
    <2>1. active' \in 0..epoch'
      BY <1>10 DEF ReleaseTurn
    <2>2. busy' \in BOOLEAN
      BY <1>10 DEF ReleaseTurn
    <2>3. QED
      BY <1>10, <2>1, <2>2 DEF ReleaseTurn
  <1>11. ASSUME NEW a \in Asks,
                LookAtPending(a) \/ TakePending(a) \/ CreateTicket(a) \/ CancelPending(a) \/ AskAgain(a)
       PROVE  SessionTypeOK'
    BY <1>11
    DEF LookAtPending, TakePending, CreateTicket, CancelPending, AskAgain, PendingAfterTake
  <1>12. ASSUME NEW a \in Asks,
                ProposeAction(a) \/ AnswerQuestion(a) \/ HitDeadline(a) \/ WorkerRaises(a) \/
                FinishTrace(a)
       PROVE  SessionTypeOK'
    BY <1>12
    DEF ProposeAction, AnswerQuestion, HitDeadline, WorkerRaises, FinishTrace
  <1>13. CASE Clear
    BY <1>13
    DEF Clear, EpochAfterClear
  <1>14. CASE UNCHANGED vars
    BY <1>14
  <1>15. QED
    BY <1>1, <1>2, <1>3, <1>4, <1>5, <1>6, <1>7, <1>8, <1>9, <1>10, <1>11, <1>12, <1>13, <1>14
    DEF Next, CallerStep, WorkerStep


\* So do the callers.
LEMMA CallerTypeStep ==
  ASSUME TurnInv, [Next]_vars
  PROVE  CallerTypeOK'
  <1> USE ConstantsAssumption
      DEF TurnInv, Results, Outcomes, Places, Holding, NoVersion, TypeOK, SessionTypeOK,
          CallerTypeOK, WorkerTypeOK, vars, sessionVars, callVars, workVars, Goto, Advance,
          Produce
  <1>1. ASSUME NEW a \in Asks,
                Call(a)
       PROVE  CallerTypeOK'
    BY <1>1
    DEF Call
  <1>2. ASSUME NEW a \in Asks,
                AcquireTurn(a)
       PROVE  CallerTypeOK'
    BY <1>2
    DEF AcquireTurn, VersionMatches
  <1>3. ASSUME NEW a \in Asks,
                RefuseVersion(a)
       PROVE  CallerTypeOK'
    BY <1>3
    DEF RefuseVersion, VersionMatches
  <1>4. ASSUME NEW a \in Asks,
                ReportConflict(a)
       PROVE  CallerTypeOK'
    BY <1>4
    DEF ReportConflict
  <1>5. ASSUME NEW a \in Asks,
                CollectResult(a)
       PROVE  CallerTypeOK'
    BY <1>5
    DEF CollectResult, Proceed
  <1>6. ASSUME NEW a \in Asks,
                OverrunBudget(a)
       PROVE  CallerTypeOK'
    BY <1>6
    DEF OverrunBudget, Proceed, MayOverrun
  <1>7. ASSUME NEW a \in Asks,
                InvalidateTurn(a)
       PROVE  CallerTypeOK'
    BY <1>7
    DEF InvalidateTurn
  <1>8. ASSUME NEW a \in Asks,
                AppendHistory(a)
       PROVE  CallerTypeOK'
    BY <1>8
    DEF AppendHistory
  <1>9. ASSUME NEW a \in Asks,
                StampVersion(a)
       PROVE  CallerTypeOK'
    BY <1>9
    DEF StampVersion
  <1>10. ASSUME NEW a \in Asks,
                ReleaseTurn(a)
       PROVE  CallerTypeOK'
    BY <1>10
    DEF ReleaseTurn
  <1>11. ASSUME NEW a \in Asks,
                LookAtPending(a) \/ TakePending(a) \/ CreateTicket(a) \/ CancelPending(a) \/ AskAgain(a)
       PROVE  CallerTypeOK'
    BY <1>11
    DEF LookAtPending, TakePending, CreateTicket, CancelPending, AskAgain, PendingAfterTake
  <1>12. ASSUME NEW a \in Asks,
                ProposeAction(a) \/ AnswerQuestion(a) \/ HitDeadline(a) \/ WorkerRaises(a) \/
                FinishTrace(a)
       PROVE  CallerTypeOK'
    BY <1>12
    DEF ProposeAction, AnswerQuestion, HitDeadline, WorkerRaises, FinishTrace
  <1>13. CASE Clear
    BY <1>13
    DEF Clear, EpochAfterClear
  <1>14. CASE UNCHANGED vars
    BY <1>14
  <1>15. QED
    BY <1>1, <1>2, <1>3, <1>4, <1>5, <1>6, <1>7, <1>8, <1>9, <1>10, <1>11, <1>12, <1>13, <1>14
    DEF Next, CallerStep, WorkerStep


\* So do the workers.
LEMMA WorkerTypeStep ==
  ASSUME TurnInv, [Next]_vars
  PROVE  WorkerTypeOK'
  <1> USE ConstantsAssumption
      DEF TurnInv, Results, RunPlaces, TypeOK, SessionTypeOK, CallerTypeOK, WorkerTypeOK, vars,
          sessionVars, callVars, workVars, Goto, Advance, Produce
  <1>1. ASSUME NEW a \in Asks,
                Call(a) \/ AcquireTurn(a) \/ RefuseVersion(a) \/ ReportConflict(a)
       PROVE  WorkerTypeOK'
    BY <1>1
    DEF Call, AcquireTurn, RefuseVersion, ReportConflict, VersionMatches
  <1>2. ASSUME NEW a \in Asks,
                CollectResult(a) \/ OverrunBudget(a) \/ InvalidateTurn(a)
       PROVE  WorkerTypeOK'
    BY <1>2
    DEF CollectResult, OverrunBudget, InvalidateTurn, Proceed, MayOverrun
  <1>3. ASSUME NEW a \in Asks,
                AppendHistory(a) \/ StampVersion(a) \/ ReleaseTurn(a)
       PROVE  WorkerTypeOK'
    BY <1>3
    DEF AppendHistory, StampVersion, ReleaseTurn
  <1>4. ASSUME NEW a \in Asks,
                LookAtPending(a)
       PROVE  WorkerTypeOK'
    BY <1>4
    DEF LookAtPending
  <1>5. ASSUME NEW a \in Asks,
                TakePending(a)
       PROVE  WorkerTypeOK'
    BY <1>5
    DEF TakePending, PendingAfterTake
  <1>6. ASSUME NEW a \in Asks,
                CreateTicket(a)
       PROVE  WorkerTypeOK'
    BY <1>6
    DEF CreateTicket
  <1>7. ASSUME NEW a \in Asks,
                CancelPending(a)
       PROVE  WorkerTypeOK'
    BY <1>7
    DEF CancelPending
  <1>8. ASSUME NEW a \in Asks,
                AskAgain(a)
       PROVE  WorkerTypeOK'
    BY <1>8
    DEF AskAgain
  <1>9. ASSUME NEW a \in Asks,
                ProposeAction(a)
       PROVE  WorkerTypeOK'
    BY <1>9
    DEF ProposeAction
  <1>10. ASSUME NEW a \in Asks,
                AnswerQuestion(a)
       PROVE  WorkerTypeOK'
    BY <1>10
    DEF AnswerQuestion
  <1>11. ASSUME NEW a \in Asks,
                HitDeadline(a)
       PROVE  WorkerTypeOK'
    BY <1>11
    DEF HitDeadline
  <1>12. ASSUME NEW a \in Asks,
                WorkerRaises(a)
       PROVE  WorkerTypeOK'
    BY <1>12
    DEF WorkerRaises
  <1>13. ASSUME NEW a \in Asks,
                FinishTrace(a)
       PROVE  WorkerTypeOK'
    BY <1>13
    DEF FinishTrace
  <1>14. CASE Clear
    BY <1>14
    DEF Clear, EpochAfterClear
  <1>15. CASE UNCHANGED vars
    BY <1>15
  <1>16. QED
    BY <1>1, <1>2, <1>3, <1>4, <1>5, <1>6, <1>7, <1>8, <1>9, <1>10, <1>11, <1>12, <1>13, <1>14, <1>15
    DEF Next, CallerStep, WorkerStep


\* The places of the callers mean what Phases says.
LEMMA PhasesStep ==
  ASSUME TurnInv, [Next]_vars
  PROVE  Phases'
  <1> USE ConstantsAssumption
      DEF TurnInv, Phases, Holding, TimedOut, NoVersion, Places, TypeOK, SessionTypeOK,
          CallerTypeOK, WorkerTypeOK, Results, Outcomes, vars, sessionVars, callVars, workVars,
          Goto, Advance, Produce
  <1>1. ASSUME NEW a \in Asks,
                Call(a)
       PROVE  Phases'
    BY <1>1
    DEF Call
  <1>2. ASSUME NEW a \in Asks,
                AcquireTurn(a)
       PROVE  Phases'
    BY <1>2
    DEF AcquireTurn, VersionMatches, Exclusive
  <1>3. ASSUME NEW a \in Asks,
                RefuseVersion(a)
       PROVE  Phases'
    BY <1>3
    DEF RefuseVersion, VersionMatches
  <1>4. ASSUME NEW a \in Asks,
                ReportConflict(a)
       PROVE  Phases'
    BY <1>4
    DEF ReportConflict
  <1>5. ASSUME NEW a \in Asks,
                CollectResult(a)
       PROVE  Phases'
    <2>1. /\ pc[a] = "running" /\ run[a] = "done" /\ result[a] \in Results \ {"none"}
          /\ UNCHANGED <<busy, turn, version, run, result>>
      BY <1>5 DEF CollectResult
    <2>2. PICK o \in (Results \ {"none"}) \cup {"wall"} : Proceed(a, o)
      BY <1>5, <2>1 DEF CollectResult
    <2>3. CASE o \in TimedOut
      BY <2>1, <2>2, <2>3 DEF Proceed
    <2>4. CASE o = "raised"
      BY <2>1, <2>2, <2>4 DEF Proceed
    <2>5. CASE o \notin TimedOut \cup {"raised"}
      BY <2>1, <2>2, <2>5 DEF Proceed
    <2>6. QED
      BY <2>3, <2>4, <2>5
  <1>6. ASSUME NEW a \in Asks,
                OverrunBudget(a)
       PROVE  Phases'
    BY <1>6
    DEF OverrunBudget, Proceed, MayOverrun
  <1>7. ASSUME NEW a \in Asks,
                InvalidateTurn(a)
       PROVE  Phases'
    BY <1>7
    DEF InvalidateTurn
  <1>8. ASSUME NEW a \in Asks,
                AppendHistory(a)
       PROVE  Phases'
    BY <1>8
    DEF AppendHistory
  <1>9. ASSUME NEW a \in Asks,
                StampVersion(a)
       PROVE  Phases'
    BY <1>9
    DEF StampVersion
  <1>10. ASSUME NEW a \in Asks,
                ReleaseTurn(a)
       PROVE  Phases'
    BY <1>10
    DEF ReleaseTurn, Exclusive
  <1>11. ASSUME NEW a \in Asks,
                LookAtPending(a)
       PROVE  Phases'
    BY <1>11
    DEF LookAtPending
  <1>12. ASSUME NEW a \in Asks,
                TakePending(a)
       PROVE  Phases'
    BY <1>12
    DEF TakePending, PendingAfterTake
  <1>13. ASSUME NEW a \in Asks,
                CreateTicket(a)
       PROVE  Phases'
    BY <1>13
    DEF CreateTicket
  <1>14. ASSUME NEW a \in Asks,
                CancelPending(a)
       PROVE  Phases'
    BY <1>14
    DEF CancelPending
  <1>15. ASSUME NEW a \in Asks,
                AskAgain(a)
       PROVE  Phases'
    BY <1>15
    DEF AskAgain
  <1>16. ASSUME NEW a \in Asks,
                ProposeAction(a)
       PROVE  Phases'
    BY <1>16
    DEF ProposeAction
  <1>17. ASSUME NEW a \in Asks,
                AnswerQuestion(a)
       PROVE  Phases'
    BY <1>17
    DEF AnswerQuestion
  <1>18. ASSUME NEW a \in Asks,
                HitDeadline(a)
       PROVE  Phases'
    BY <1>18
    DEF HitDeadline
  <1>19. ASSUME NEW a \in Asks,
                WorkerRaises(a)
       PROVE  Phases'
    BY <1>19
    DEF WorkerRaises
  <1>20. ASSUME NEW a \in Asks,
                FinishTrace(a)
       PROVE  Phases'
    BY <1>20
    DEF FinishTrace
  <1>21. CASE Clear
    BY <1>21
    DEF Clear, EpochAfterClear
  <1>22. CASE UNCHANGED vars
    BY <1>22
  <1>23. QED
    BY <1>1, <1>2, <1>3, <1>4, <1>5, <1>6, <1>7, <1>8, <1>9, <1>10, <1>11, <1>12, <1>13, <1>14, <1>15, <1>16, <1>17, <1>18, <1>19, <1>20, <1>21, <1>22
    DEF Next, CallerStep, WorkerStep


\* A turn is taken when nobody holds one, above all earlier turns.
LEMMA ExclusiveStep ==
  ASSUME TurnInv, [Next]_vars
  PROVE  Exclusive'
  <1> USE ConstantsAssumption
      DEF TurnInv, Phases, Holding, TimedOut, NoVersion, Places, TypeOK, SessionTypeOK,
          CallerTypeOK, WorkerTypeOK, Exclusive, vars, sessionVars, callVars, workVars, Goto,
          Advance, Produce
  <1>1. ASSUME NEW a \in Asks,
                Call(a)
       PROVE  Exclusive'
    BY <1>1
    DEF Call
  <1>2. ASSUME NEW a \in Asks,
                AcquireTurn(a)
       PROVE  Exclusive'
    BY <1>2
    DEF AcquireTurn, VersionMatches
  <1>3. ASSUME NEW a \in Asks,
                RefuseVersion(a)
       PROVE  Exclusive'
    BY <1>3
    DEF RefuseVersion, VersionMatches
  <1>4. ASSUME NEW a \in Asks,
                ReportConflict(a)
       PROVE  Exclusive'
    BY <1>4
    DEF ReportConflict
  <1>5. ASSUME NEW a \in Asks,
                CollectResult(a)
       PROVE  Exclusive'
    BY <1>5
    DEF CollectResult, Proceed
  <1>6. ASSUME NEW a \in Asks,
                OverrunBudget(a)
       PROVE  Exclusive'
    BY <1>6
    DEF OverrunBudget, Proceed, MayOverrun
  <1>7. ASSUME NEW a \in Asks,
                InvalidateTurn(a)
       PROVE  Exclusive'
    BY <1>7
    DEF InvalidateTurn
  <1>8. ASSUME NEW a \in Asks,
                AppendHistory(a)
       PROVE  Exclusive'
    BY <1>8
    DEF AppendHistory
  <1>9. ASSUME NEW a \in Asks,
                StampVersion(a)
       PROVE  Exclusive'
    BY <1>9
    DEF StampVersion
  <1>10. ASSUME NEW a \in Asks,
                ReleaseTurn(a)
       PROVE  Exclusive'
    BY <1>10
    DEF ReleaseTurn
  <1>11. ASSUME NEW a \in Asks,
                LookAtPending(a) \/ TakePending(a) \/ CreateTicket(a) \/ CancelPending(a) \/ AskAgain(a)
       PROVE  Exclusive'
    BY <1>11
    DEF LookAtPending, TakePending, CreateTicket, CancelPending, AskAgain, PendingAfterTake
  <1>12. ASSUME NEW a \in Asks,
                ProposeAction(a) \/ AnswerQuestion(a) \/ HitDeadline(a) \/ WorkerRaises(a) \/
                FinishTrace(a)
       PROVE  Exclusive'
    BY <1>12
    DEF ProposeAction, AnswerQuestion, HitDeadline, WorkerRaises, FinishTrace
  <1>13. CASE Clear
    BY <1>13
    DEF Clear, EpochAfterClear
  <1>14. CASE UNCHANGED vars
    BY <1>14
  <1>15. QED
    BY <1>1, <1>2, <1>3, <1>4, <1>5, <1>6, <1>7, <1>8, <1>9, <1>10, <1>11, <1>12, <1>13, <1>14
    DEF Next, CallerStep, WorkerStep


\* The holder's turn and the epoch move together.
LEMMA EpochsStep ==
  ASSUME TurnInv, [Next]_vars
  PROVE  Epochs'
  <1> USE ConstantsAssumption
      DEF TurnInv, Phases, Holding, TimedOut, NoVersion, Places, TypeOK, SessionTypeOK,
          CallerTypeOK, WorkerTypeOK, Exclusive, Epochs, Invalidated, vars, sessionVars, callVars,
          workVars, Goto, Advance, Produce
  <1>1. ASSUME NEW a \in Asks,
                Call(a)
       PROVE  Epochs'
    BY <1>1
    DEF Call
  <1>2. ASSUME NEW a \in Asks,
                AcquireTurn(a)
       PROVE  Epochs'
    BY <1>2
    DEF AcquireTurn, VersionMatches
  <1>3. ASSUME NEW a \in Asks,
                RefuseVersion(a)
       PROVE  Epochs'
    BY <1>3
    DEF RefuseVersion, VersionMatches
  <1>4. ASSUME NEW a \in Asks,
                ReportConflict(a)
       PROVE  Epochs'
    BY <1>4
    DEF ReportConflict
  <1>5. ASSUME NEW a \in Asks,
                CollectResult(a)
       PROVE  Epochs'
    BY <1>5
    DEF CollectResult, Proceed
  <1>6. ASSUME NEW a \in Asks,
                OverrunBudget(a)
       PROVE  Epochs'
    BY <1>6
    DEF OverrunBudget, Proceed, MayOverrun
  <1>7. ASSUME NEW a \in Asks,
                InvalidateTurn(a)
       PROVE  Epochs'
    BY <1>7
    DEF InvalidateTurn
  <1>8. ASSUME NEW a \in Asks,
                AppendHistory(a)
       PROVE  Epochs'
    BY <1>8
    DEF AppendHistory
  <1>9. ASSUME NEW a \in Asks,
                StampVersion(a)
       PROVE  Epochs'
    BY <1>9
    DEF StampVersion
  <1>10. ASSUME NEW a \in Asks,
                ReleaseTurn(a)
       PROVE  Epochs'
    BY <1>10
    DEF ReleaseTurn
  <1>11. ASSUME NEW a \in Asks,
                LookAtPending(a) \/ TakePending(a) \/ CreateTicket(a) \/ CancelPending(a) \/ AskAgain(a)
       PROVE  Epochs'
    BY <1>11
    DEF LookAtPending, TakePending, CreateTicket, CancelPending, AskAgain, PendingAfterTake
  <1>12. ASSUME NEW a \in Asks,
                ProposeAction(a) \/ AnswerQuestion(a) \/ HitDeadline(a) \/ WorkerRaises(a) \/
                FinishTrace(a)
       PROVE  Epochs'
    BY <1>12
    DEF ProposeAction, AnswerQuestion, HitDeadline, WorkerRaises, FinishTrace
  <1>13. CASE Clear
    BY <1>13
    DEF Clear, EpochAfterClear
  <1>14. CASE UNCHANGED vars
    BY <1>14
  <1>15. QED
    BY <1>1, <1>2, <1>3, <1>4, <1>5, <1>6, <1>7, <1>8, <1>9, <1>10, <1>11, <1>12, <1>13, <1>14
    DEF Next, CallerStep, WorkerStep


----------------------------------------------------------------------------
(* The history.                                                            *)

\* The history holds asks, and only ones that have appended.
LEMMA HistoryElements ==
  ASSUME TurnInv, Recorded
  PROVE  /\ Len(history) \in Nat /\ Len(history) <= MaxHistory
         /\ \A i \in 1..Len(history) : history[i] \in Asks
         /\ \A i \in 1..Len(history) : pc[history[i]] \in {"stamp", "release", "done"}
  BY DEF TurnInv, TypeOK, SessionTypeOK, Recorded

\* Appending puts the newest turn at the end and drops the oldest pair when
\* the history is full.
LEMMA AppendShape ==
  ASSUME TurnInv, HistoryInv, NEW a \in Asks, AppendHistory(a)
  PROVE  /\ pc[a] = "append" /\ pc' = [pc EXCEPT ![a] = "stamp"]
         /\ UNCHANGED <<turn, outcome, cleared>>
         /\ history' \in Seq(Asks)
         /\ Len(history) < MaxHistory =>
              Len(history') = Len(history) + 1 /\ \A i \in 1..Len(history) : history'[i] = history[i]
         /\ Len(history) = MaxHistory =>
              Len(history') = MaxHistory /\ \A i \in 1..(MaxHistory - 1) : history'[i] = history[i + 1]
         /\ history'[Len(history')] = a
         /\ \A i \in 1..Len(history) : turn[history[i]] < turn[a]
  <1>1. /\ pc[a] = "append" /\ pc' = [pc EXCEPT ![a] = "stamp"] /\ MayAppend(a)
        /\ UNCHANGED <<turn, outcome, cleared>>
    BY DEF AppendHistory, MayAppend, TurnInv, Epochs, Invalidated, Holding, Goto
  <1>2. history' = Truncate(Append(history, a))
    BY <1>1 DEF AppendHistory
  <1>3. /\ history \in Seq(Asks) /\ Len(history) <= MaxHistory
        /\ \A i \in 1..Len(history) : history[i] \in Asks
        /\ \A i \in 1..Len(history) : pc[history[i]] \in {"stamp", "release", "done"}
    BY HistoryElements DEF HistoryInv, TurnInv, TypeOK, SessionTypeOK
  <1>4. \A i \in 1..Len(history) : turn[history[i]] < turn[a]
    BY <1>1, <1>3 DEF TurnInv, Exclusive, Holding
  <1>5. /\ history' \in Seq(Asks)
        /\ Len(history) < MaxHistory =>
             Len(history') = Len(history) + 1 /\ \A i \in 1..Len(history) : history'[i] = history[i]
        /\ Len(history) = MaxHistory =>
             Len(history') = MaxHistory /\ \A i \in 1..(MaxHistory - 1) : history'[i] = history[i + 1]
        /\ history'[Len(history')] = a
    <2> USE ConstantsAssumption
    <2> DEFINE g == Append(history, a)
    <2>1. /\ g \in Seq(Asks) /\ Len(g) = Len(history) + 1 /\ g[Len(g)] = a
          /\ \A i \in 1..Len(history) : g[i] = history[i]
      BY <1>3
    <2>2. Len(history) \in Nat
      BY <1>3
    <2> HIDE DEF g
    <2>3. history' = IF Len(g) > MaxHistory THEN SubSeq(g, Len(g) - MaxHistory + 1, Len(g)) ELSE g
      BY <1>2 DEF Truncate, g
    <2>4. CASE Len(history) < MaxHistory
      <3>1. history' = g
        BY <2>1, <2>2, <2>3, <2>4
      <3>2. QED
        BY <3>1, <2>1, <2>2, <2>4
    <2>5. CASE Len(history) = MaxHistory
      <3>1. history' = SubSeq(g, 2, MaxHistory + 1)
        BY <2>1, <2>3, <2>5
      <3>2. /\ history' \in Seq(Asks) /\ Len(history') = MaxHistory
            /\ \A i \in 1..MaxHistory : history'[i] = g[i + 1]
        BY <3>1, <2>1, <2>5
      <3>3. QED
        BY <3>2, <2>1, <2>5
    <2>6. QED
      BY <2>4, <2>5, <2>2, <1>3
  <1>6. QED
    BY <1>1, <1>3, <1>4, <1>5

\* Appending keeps the three parts of the invariant.
LEMMA AppendKeeps ==
  ASSUME TurnInv, HistoryInv, NEW a \in Asks, AppendHistory(a)
  PROVE  HistoryInv'
  <1>1. /\ pc[a] = "append" /\ pc' = [pc EXCEPT ![a] = "stamp"]
        /\ UNCHANGED <<turn, outcome, cleared>>
        /\ history' \in Seq(Asks) /\ history'[Len(history')] = a
        /\ \A i \in 1..Len(history) : turn[history[i]] < turn[a]
    BY AppendShape
  <1>2. Len(history) < MaxHistory =>
          Len(history') = Len(history) + 1 /\ \A i \in 1..Len(history) : history'[i] = history[i]
    BY AppendShape
  <1>3. Len(history) = MaxHistory =>
          Len(history') = MaxHistory /\ \A i \in 1..(MaxHistory - 1) : history'[i] = history[i + 1]
    BY AppendShape
  <1>4. /\ Len(history) \in Nat /\ Len(history) <= MaxHistory
        /\ \A i \in 1..Len(history) : history[i] \in Asks
        /\ \A i \in 1..Len(history) : pc[history[i]] \in {"stamp", "release", "done"}
    BY HistoryElements DEF HistoryInv
  <1>5. pc \in [Asks -> Places] /\ turn \in [Asks -> 0..epoch] /\ epoch \in Nat
    BY DEF TurnInv, TypeOK, CallerTypeOK, SessionTypeOK
  <1>6. Len(history') \in Nat /\ Len(history') >= 1 /\ Len(history') <= MaxHistory
    BY <1>1, <1>2, <1>3, <1>4, ConstantsAssumption
  <1>7. Recorded'
    <2>1. ASSUME NEW i \in 1..Len(history')
          PROVE  history'[i] = a \/ \E k \in 1..Len(history) : history'[i] = history[k]
      <3>1. CASE i = Len(history')
        BY <1>1, <3>1
      <3>2. CASE Len(history) < MaxHistory /\ i # Len(history')
        BY <1>2, <1>4, <3>2
      <3>3. CASE Len(history) = MaxHistory /\ i # Len(history')
        <4>1. i \in 1..(MaxHistory - 1) /\ i + 1 \in 1..Len(history)
          BY <1>3, <1>4, <3>3, ConstantsAssumption
        <4>2. QED
          BY <1>3, <3>3, <4>1
      <3>4. QED
        BY <3>1, <3>2, <3>3, <1>4, ConstantsAssumption
    <2>2. \A i \in 1..Len(history') : pc'[history'[i]] \in {"stamp", "release", "done"}
      BY <2>1, <1>1, <1>4, <1>5
    <2>3. QED
      BY <2>2, <1>6 DEF Recorded
  <1>8. HistoryInOrder'
    <2>1. HistoryInOrder
      BY DEF HistoryInv
    <2> SUFFICES ASSUME NEW i \in 1..Len(history'), NEW k \in 1..Len(history'), i < k
                 PROVE  turn[history'[i]] < turn[history'[k]]
      BY <1>1 DEF HistoryInOrder
    <2>2. CASE Len(history) < MaxHistory
      <3>1. i \in 1..Len(history) /\ history'[i] = history[i]
        BY <1>2, <1>4, <2>2
      <3>2. CASE k = Len(history')
        BY <1>1, <3>1, <3>2
      <3>3. CASE k # Len(history')
        <4>1. k \in 1..Len(history) /\ history'[k] = history[k]
          BY <1>2, <1>4, <2>2, <3>3
        <4>2. QED
          BY <2>1, <3>1, <4>1 DEF HistoryInOrder
      <3>4. QED
        BY <3>2, <3>3
    <2>3. CASE Len(history) = MaxHistory
      <3>1. i \in 1..(MaxHistory - 1) /\ i + 1 \in 1..Len(history) /\ history'[i] = history[i + 1]
        BY <1>3, <1>4, <2>3, ConstantsAssumption
      <3>2. CASE k = Len(history')
        BY <1>1, <3>1, <3>2
      <3>3. CASE k # Len(history')
        <4>1. k \in 1..(MaxHistory - 1) /\ k + 1 \in 1..Len(history) /\ history'[k] = history[k + 1]
          BY <1>3, <1>4, <2>3, <3>3, ConstantsAssumption
        <4>2. i + 1 < k + 1
          BY <3>1, <4>1
        <4>3. QED
          BY <2>1, <3>1, <4>1, <4>2 DEF HistoryInOrder
      <3>4. QED
        BY <3>2, <3>3
    <2>4. QED
      BY <2>2, <2>3, <1>4, ConstantsAssumption
  <1>9. Kept'
    <2> SUFFICES ASSUME NEW b \in Asks, Answered(b)', turn[b] > cleared
                 PROVE  InHistory(b)' \/ Displaced(b)'
      BY <1>1 DEF Kept
    <2>1. CASE b = a
      <3>1. Len(history') \in 1..Len(history') /\ history'[Len(history')] = b
        BY <1>1, <1>6, <2>1
      <3>2. QED
        BY <3>1 DEF InHistory
    <2>2. ASSUME b # a
          PROVE  InHistory(b) \/ Displaced(b)
      BY <1>1, <1>5, <2>2 DEF HistoryInv, Kept, Answered
    <2>3. CASE b # a /\ Len(history) < MaxHistory
      <3>1. PICK i \in 1..Len(history) : history[i] = b
        BY <2>2, <2>3, <1>4, ConstantsAssumption DEF InHistory, Displaced
      <3>2. i \in 1..Len(history') /\ history'[i] = b
        BY <1>2, <1>4, <2>3, <3>1
      <3>3. QED
        BY <3>2 DEF InHistory
    <2>4. CASE b # a /\ Len(history) = MaxHistory
      <3>1. history[1] \in Asks /\ history'[1] \in Asks /\ turn[history[1]] < turn[history'[1]]
        <4>1. CASE MaxHistory = 1
          <5>1. 1 \in 1..Len(history) /\ Len(history') = 1
            BY <1>3, <2>4, <4>1
          <5>2. history'[1] = a
            BY <1>1, <5>1, Zenon
          <5>3. QED
            BY <1>1, <1>4, <5>1, <5>2
        <4>2. CASE MaxHistory > 1
          <5>1. 1 \in 1..(MaxHistory - 1) /\ 1 \in 1..Len(history) /\ 2 \in 1..Len(history)
            BY <2>4, <4>2, ConstantsAssumption
          <5>2. history'[1] = history[1 + 1]
            BY <1>3, <2>4, <5>1
          <5>3. turn[history[1]] < turn[history[2]]
            BY <5>1 DEF HistoryInv, HistoryInOrder
          <5>4. QED
            BY <1>4, <5>1, <5>2, <5>3
        <4>3. QED
          BY <4>1, <4>2, ConstantsAssumption
      <3>2. ASSUME turn[b] <= turn[history[1]]
            PROVE  Displaced(b)'
        <4>1. turn[b] < turn[history'[1]]
          BY <1>5, <3>1, <3>2
        <4>2. QED
          BY <1>1, <1>3, <2>4, <4>1 DEF Displaced
      <3>3. CASE InHistory(b)
        <4>1. PICK i \in 1..Len(history) : history[i] = b
          BY <3>3 DEF InHistory
        <4>2. CASE i = 1
          BY <1>5, <3>1, <3>2, <4>1, <4>2
        <4>3. CASE i > 1
          <5>1. i - 1 \in 1..(MaxHistory - 1) /\ i - 1 \in 1..Len(history')
            BY <1>3, <2>4, <4>1, <4>3, ConstantsAssumption
          <5>2. history'[i - 1] = history[(i - 1) + 1] /\ (i - 1) + 1 = i
            BY <1>3, <2>4, <4>1, <5>1
          <5>3. QED
            BY <4>1, <5>1, <5>2 DEF InHistory
        <4>4. QED
          BY <4>1, <4>2, <4>3
      <3>4. CASE Displaced(b)
        BY <1>5, <3>1, <3>2, <3>4 DEF Displaced
      <3>5. QED
        BY <2>2, <2>4, <3>3, <3>4
    <2>5. QED
      BY <2>1, <2>3, <2>4, <1>4, ConstantsAssumption
  <1>10. QED
    BY <1>7, <1>8, <1>9 DEF HistoryInv

\* A step that leaves the history alone keeps the invariant, if no other ask
\* becomes one that has answered.
LEMMA HistoryStable ==
  ASSUME TurnInv, HistoryInv, UNCHANGED <<history, turn, cleared>>,
         \A b \in Asks : Answered(b)' => Answered(b),
         \A b \in Asks : pc[b] \in {"stamp", "release", "done"} => pc'[b] \in {"stamp", "release", "done"}
  PROVE  HistoryInv'
  <1>1. Recorded'
    BY HistoryElements DEF HistoryInv, Recorded
  <1>2. HistoryInOrder'
    BY DEF HistoryInv, HistoryInOrder
  <1>3. Kept'
    BY DEF HistoryInv, Kept, InHistory, Displaced
  <1>4. QED
    BY <1>1, <1>2, <1>3 DEF HistoryInv

\* clear() leaves nothing that could be missing.
LEMMA ClearKeeps ==
  ASSUME TurnInv, Clear
  PROVE  HistoryInv'
  <1>1. history' = <<>> /\ cleared' = epoch + 1 /\ turn' = turn
    BY DEF Clear, EpochAfterClear
  <1>2. \A a \in Asks : ~(turn'[a] > cleared')
    BY <1>1 DEF TurnInv, TypeOK, SessionTypeOK, CallerTypeOK
  <1>3. Recorded' /\ HistoryInOrder'
    BY <1>1, ConstantsAssumption DEF Recorded, HistoryInOrder
  <1>4. QED
    BY <1>2, <1>3 DEF HistoryInv, Kept

\* A turn begins above everything in the history.
LEMMA AcquireKeeps ==
  ASSUME TurnInv, HistoryInv, NEW a \in Asks, AcquireTurn(a)
  PROVE  HistoryInv'
  <1>1. /\ pc[a] = "waiting" /\ pc' = [pc EXCEPT ![a] = "running"]
        /\ turn' = [turn EXCEPT ![a] = epoch + 1] /\ UNCHANGED <<history, outcome, cleared>>
    BY DEF AcquireTurn, Goto
  <1>2. /\ Len(history) \in Nat /\ Len(history) <= MaxHistory
        /\ \A i \in 1..Len(history) : history[i] \in Asks
        /\ \A i \in 1..Len(history) : pc[history[i]] \in {"stamp", "release", "done"}
    BY HistoryElements DEF HistoryInv
  <1>3. pc \in [Asks -> Places] /\ turn \in [Asks -> 0..epoch] /\ epoch \in Nat
    BY DEF TurnInv, TypeOK, CallerTypeOK, SessionTypeOK
  <1>4. \A i \in 1..Len(history) : history[i] # a /\ turn'[history[i]] = turn[history[i]]
    BY <1>1, <1>2, <1>3
  <1>5. Recorded'
    BY <1>1, <1>2, <1>3, <1>4 DEF Recorded
  <1>6. HistoryInOrder'
    BY <1>1, <1>4 DEF HistoryInv, HistoryInOrder
  <1>7. Kept'
    <2> SUFFICES ASSUME NEW b \in Asks, Answered(b)', turn'[b] > cleared'
                 PROVE  InHistory(b)' \/ Displaced(b)'
      BY DEF Kept
    <2>1. b # a /\ Answered(b) /\ turn[b] > cleared /\ turn'[b] = turn[b]
      BY <1>1, <1>3 DEF Answered
    <2>2. CASE InHistory(b)
      BY <2>2, <1>1 DEF InHistory
    <2>3. CASE Displaced(b)
      BY <2>1, <2>3, <1>1, <1>2, <1>4, ConstantsAssumption DEF Displaced
    <2>4. QED
      BY <2>1, <2>2, <2>3 DEF HistoryInv, Kept
  <1>8. QED
    BY <1>5, <1>6, <1>7 DEF HistoryInv

\* The history is kept in order and complete by every step.
LEMMA HistoryStep ==
  ASSUME TurnInv, HistoryInv, [Next]_vars
  PROVE  HistoryInv'
  <1>a. ASSUME NEW a \in Asks, AppendHistory(a)
        PROVE  HistoryInv'
    BY <1>a, AppendKeeps
  <1>b. ASSUME NEW a \in Asks, AcquireTurn(a)
        PROVE  HistoryInv'
    BY <1>b, AcquireKeeps
  <1>c. CASE Clear
    BY <1>c, ClearKeeps
  <1>s. ASSUME UNCHANGED <<history, turn, cleared>>,
               \A b \in Asks : Answered(b)' => Answered(b),
               \A b \in Asks : pc[b] \in {"stamp", "release", "done"} =>
                                  pc'[b] \in {"stamp", "release", "done"}
        PROVE  HistoryInv'
    BY <1>s, HistoryStable
  <1> USE ConstantsAssumption
      DEF TurnInv, TypeOK, CallerTypeOK, Phases, TimedOut, Answered, vars, sessionVars, callVars,
          workVars, Goto, Advance, Produce
  <1>1. ASSUME NEW a \in Asks,
                Call(a) \/ RefuseVersion(a) \/ ReportConflict(a)
       PROVE  HistoryInv'
    BY <1>1, <1>s
    DEF Call, RefuseVersion, ReportConflict, VersionMatches
  <1>2. ASSUME NEW a \in Asks,
                CollectResult(a)
       PROVE  HistoryInv'
    BY <1>2, <1>s
    DEF CollectResult, Proceed
  <1>3. ASSUME NEW a \in Asks,
                OverrunBudget(a) \/ InvalidateTurn(a)
       PROVE  HistoryInv'
    BY <1>3, <1>s
    DEF OverrunBudget, InvalidateTurn, Proceed, MayOverrun
  <1>4. ASSUME NEW a \in Asks,
                StampVersion(a) \/ ReleaseTurn(a)
       PROVE  HistoryInv'
    BY <1>4, <1>s
    DEF StampVersion, ReleaseTurn
  <1>5. ASSUME NEW a \in Asks,
                LookAtPending(a) \/ TakePending(a) \/ CreateTicket(a) \/ CancelPending(a) \/ AskAgain(a)
       PROVE  HistoryInv'
    BY <1>5, <1>s
    DEF LookAtPending, TakePending, CreateTicket, CancelPending, AskAgain, PendingAfterTake
  <1>6. ASSUME NEW a \in Asks,
                ProposeAction(a) \/ AnswerQuestion(a) \/ HitDeadline(a) \/ WorkerRaises(a) \/
                FinishTrace(a)
       PROVE  HistoryInv'
    BY <1>6, <1>s
    DEF ProposeAction, AnswerQuestion, HitDeadline, WorkerRaises, FinishTrace
  <1>7. CASE UNCHANGED vars
    BY <1>7, <1>s
  <1>8. QED
    BY <1>a, <1>b, <1>c, <1>1, <1>2, <1>3, <1>4, <1>5, <1>6, <1>7
    DEF Next, CallerStep, WorkerStep


----------------------------------------------------------------------------
(* Versions.                                                               *)

\* A reply's version is that of an ask that has returned.
LEMMA RepliesStep ==
  ASSUME TurnInv, VersionInv, [Next]_vars
  PROVE  Replies'
  <1> USE ConstantsAssumption
      DEF TurnInv, VersionInv, Phases, Holding, NoVersion, Places, TypeOK, SessionTypeOK,
          CallerTypeOK, WorkerTypeOK, Replies, vars, sessionVars, callVars, workVars, Goto,
          Advance, Produce
  <1>1. ASSUME NEW a \in Asks,
                Call(a)
       PROVE  Replies'
    BY <1>1
    DEF Call
  <1>2. ASSUME NEW a \in Asks,
                AcquireTurn(a)
       PROVE  Replies'
    BY <1>2
    DEF AcquireTurn, VersionMatches
  <1>3. ASSUME NEW a \in Asks,
                RefuseVersion(a)
       PROVE  Replies'
    BY <1>3
    DEF RefuseVersion, VersionMatches
  <1>4. ASSUME NEW a \in Asks,
                ReportConflict(a)
       PROVE  Replies'
    BY <1>4
    DEF ReportConflict
  <1>5. ASSUME NEW a \in Asks,
                CollectResult(a)
       PROVE  Replies'
    BY <1>5
    DEF CollectResult, Proceed
  <1>6. ASSUME NEW a \in Asks,
                OverrunBudget(a)
       PROVE  Replies'
    BY <1>6
    DEF OverrunBudget, Proceed, MayOverrun
  <1>7. ASSUME NEW a \in Asks,
                InvalidateTurn(a)
       PROVE  Replies'
    BY <1>7
    DEF InvalidateTurn
  <1>8. ASSUME NEW a \in Asks,
                AppendHistory(a)
       PROVE  Replies'
    BY <1>8
    DEF AppendHistory
  <1>9. ASSUME NEW a \in Asks,
                StampVersion(a)
       PROVE  Replies'
    BY <1>9
    DEF StampVersion
  <1>10. ASSUME NEW a \in Asks,
                ReleaseTurn(a)
       PROVE  Replies'
    BY <1>10
    DEF ReleaseTurn
  <1>11. ASSUME NEW a \in Asks,
                LookAtPending(a) \/ TakePending(a) \/ CreateTicket(a) \/ CancelPending(a) \/ AskAgain(a)
       PROVE  Replies'
    BY <1>11
    DEF LookAtPending, TakePending, CreateTicket, CancelPending, AskAgain, PendingAfterTake
  <1>12. ASSUME NEW a \in Asks,
                ProposeAction(a) \/ AnswerQuestion(a) \/ HitDeadline(a) \/ WorkerRaises(a) \/
                FinishTrace(a)
       PROVE  Replies'
    BY <1>12
    DEF ProposeAction, AnswerQuestion, HitDeadline, WorkerRaises, FinishTrace
  <1>13. CASE Clear
    BY <1>13
    DEF Clear, EpochAfterClear
  <1>14. CASE UNCHANGED vars
    BY <1>14
  <1>15. QED
    BY <1>1, <1>2, <1>3, <1>4, <1>5, <1>6, <1>7, <1>8, <1>9, <1>10, <1>11, <1>12, <1>13, <1>14
    DEF Next, CallerStep, WorkerStep


\* No turn and no clear falls between a turn and its version.
LEMMA StampedStep ==
  ASSUME TurnInv, VersionInv, [Next]_vars
  PROVE  Stamped'
  <1> USE ConstantsAssumption
      DEF TurnInv, VersionInv, Phases, Holding, NoVersion, Places, TypeOK, SessionTypeOK,
          CallerTypeOK, WorkerTypeOK, Stamped, vars, sessionVars, callVars, workVars, Goto,
          Advance, Produce
  <1>1. ASSUME NEW a \in Asks,
                Call(a)
       PROVE  Stamped'
    BY <1>1
    DEF Call
  <1>2. ASSUME NEW a \in Asks,
                AcquireTurn(a)
       PROVE  Stamped'
    BY <1>2
    DEF AcquireTurn, VersionMatches
  <1>3. ASSUME NEW a \in Asks,
                RefuseVersion(a)
       PROVE  Stamped'
    BY <1>3
    DEF RefuseVersion, VersionMatches
  <1>4. ASSUME NEW a \in Asks,
                ReportConflict(a)
       PROVE  Stamped'
    BY <1>4
    DEF ReportConflict
  <1>5. ASSUME NEW a \in Asks,
                CollectResult(a)
       PROVE  Stamped'
    BY <1>5
    DEF CollectResult, Proceed
  <1>6. ASSUME NEW a \in Asks,
                OverrunBudget(a)
       PROVE  Stamped'
    BY <1>6
    DEF OverrunBudget, Proceed, MayOverrun
  <1>7. ASSUME NEW a \in Asks,
                InvalidateTurn(a)
       PROVE  Stamped'
    BY <1>7
    DEF InvalidateTurn
  <1>8. ASSUME NEW a \in Asks,
                AppendHistory(a)
       PROVE  Stamped'
    BY <1>8
    DEF AppendHistory
  <1>9. ASSUME NEW a \in Asks,
                StampVersion(a)
       PROVE  Stamped'
    <2>1. /\ pc[a] = "stamp" /\ version' = [version EXCEPT ![a] = epoch]
          /\ UNCHANGED <<turn, cleared, epoch>>
      BY <1>9 DEF StampVersion
    <2>2. cleared < turn[a] /\ \A d \in Asks : d # a => turn[d] < turn[a]
      BY <2>1 DEF Exclusive, Epochs
    <2> SUFFICES ASSUME NEW b \in Asks, version'[b] # NoVersion, turn[b] > 0
                 PROVE  /\ \A d \in Asks : ~(turn[b] < turn[d] /\ turn[d] <= version'[b])
                        /\ ~(turn[b] < cleared /\ cleared <= version'[b])
      BY <2>1
    <2>3. CASE b = a
      <3>1. cleared \in Int /\ \A d \in Asks : turn[d] \in Int
        OBVIOUS
      <3>2. ASSUME NEW d \in Asks
            PROVE  turn[d] <= turn[b]
        <4>1. CASE d = b
          BY <3>1, <4>1
        <4>2. CASE d # b
          <5>1. turn[d] < turn[b]
            BY <2>2, <2>3, <4>2, Zenon
          <5>2. QED
            BY <3>1, <5>1
        <4>3. QED
          BY <4>1, <4>2
      <3>3. cleared <= turn[b]
        BY <2>2, <2>3, <3>1
      <3>4. QED
        BY <3>1, <3>2, <3>3
    <2>4. CASE b # a
      BY <2>1, <2>4
    <2>5. QED
      BY <2>3, <2>4
  <1>10. ASSUME NEW a \in Asks,
                ReleaseTurn(a)
       PROVE  Stamped'
    BY <1>10
    DEF ReleaseTurn
  <1>11. ASSUME NEW a \in Asks,
                LookAtPending(a) \/ TakePending(a) \/ CreateTicket(a) \/ CancelPending(a) \/ AskAgain(a)
       PROVE  Stamped'
    BY <1>11
    DEF LookAtPending, TakePending, CreateTicket, CancelPending, AskAgain, PendingAfterTake
  <1>12. ASSUME NEW a \in Asks,
                ProposeAction(a) \/ AnswerQuestion(a) \/ HitDeadline(a) \/ WorkerRaises(a) \/
                FinishTrace(a)
       PROVE  Stamped'
    BY <1>12
    DEF ProposeAction, AnswerQuestion, HitDeadline, WorkerRaises, FinishTrace
  <1>13. CASE Clear
    BY <1>13
    DEF Clear, EpochAfterClear
  <1>14. CASE UNCHANGED vars
    BY <1>14
  <1>15. QED
    BY <1>1, <1>2, <1>3, <1>4, <1>5, <1>6, <1>7, <1>8, <1>9, <1>10, <1>11, <1>12, <1>13, <1>14
    DEF Next, CallerStep, WorkerStep


\* An accepted version is fresh.
LEMMA FreshStep ==
  ASSUME TurnInv, VersionInv, [Next]_vars
  PROVE  AcceptedVersionIsFresh'
  <1> USE ConstantsAssumption
      DEF TurnInv, VersionInv, Phases, Holding, NoVersion, Places, TypeOK, SessionTypeOK,
          CallerTypeOK, WorkerTypeOK, Replies, Stamped, AcceptedVersionIsFresh, Acquired, vars,
          sessionVars, callVars, workVars, Goto, Advance, Produce
  <1>1. ASSUME NEW a \in Asks,
                Call(a)
       PROVE  AcceptedVersionIsFresh'
    BY <1>1
    DEF Call
  <1>2. ASSUME NEW a \in Asks,
                AcquireTurn(a)
       PROVE  AcceptedVersionIsFresh'
    BY <1>2
    DEF AcquireTurn, VersionMatches
  <1>3. ASSUME NEW a \in Asks,
                RefuseVersion(a)
       PROVE  AcceptedVersionIsFresh'
    BY <1>3
    DEF RefuseVersion, VersionMatches
  <1>4. ASSUME NEW a \in Asks,
                ReportConflict(a)
       PROVE  AcceptedVersionIsFresh'
    BY <1>4
    DEF ReportConflict
  <1>5. ASSUME NEW a \in Asks,
                CollectResult(a)
       PROVE  AcceptedVersionIsFresh'
    BY <1>5
    DEF CollectResult, Proceed
  <1>6. ASSUME NEW a \in Asks,
                OverrunBudget(a)
       PROVE  AcceptedVersionIsFresh'
    BY <1>6
    DEF OverrunBudget, Proceed, MayOverrun
  <1>7. ASSUME NEW a \in Asks,
                InvalidateTurn(a)
       PROVE  AcceptedVersionIsFresh'
    BY <1>7
    DEF InvalidateTurn
  <1>8. ASSUME NEW a \in Asks,
                AppendHistory(a)
       PROVE  AcceptedVersionIsFresh'
    BY <1>8
    DEF AppendHistory
  <1>9. ASSUME NEW a \in Asks,
                StampVersion(a)
       PROVE  AcceptedVersionIsFresh'
    BY <1>9
    DEF StampVersion
  <1>10. ASSUME NEW a \in Asks,
                ReleaseTurn(a)
       PROVE  AcceptedVersionIsFresh'
    BY <1>10
    DEF ReleaseTurn
  <1>11. ASSUME NEW a \in Asks,
                LookAtPending(a) \/ TakePending(a) \/ CreateTicket(a) \/ CancelPending(a) \/ AskAgain(a)
       PROVE  AcceptedVersionIsFresh'
    BY <1>11
    DEF LookAtPending, TakePending, CreateTicket, CancelPending, AskAgain, PendingAfterTake
  <1>12. ASSUME NEW a \in Asks,
                ProposeAction(a) \/ AnswerQuestion(a) \/ HitDeadline(a) \/ WorkerRaises(a) \/
                FinishTrace(a)
       PROVE  AcceptedVersionIsFresh'
    BY <1>12
    DEF ProposeAction, AnswerQuestion, HitDeadline, WorkerRaises, FinishTrace
  <1>13. CASE Clear
    BY <1>13
    DEF Clear, EpochAfterClear
  <1>14. CASE UNCHANGED vars
    BY <1>14
  <1>15. QED
    BY <1>1, <1>2, <1>3, <1>4, <1>5, <1>6, <1>7, <1>8, <1>9, <1>10, <1>11, <1>12, <1>13, <1>14
    DEF Next, CallerStep, WorkerStep


----------------------------------------------------------------------------
(* Actions and tickets, while nobody has overrun.                          *)

\* An overrun is never forgotten.
LEMMA OverrunsStay ==
  ASSUME TurnInv, NobodyOverran', [Next]_vars
  PROVE  NobodyOverran
  <1> USE ConstantsAssumption
      DEF TurnInv, TypeOK, CallerTypeOK, Phases, NobodyOverran, vars, sessionVars, callVars,
          workVars, Goto, Advance, Produce
  <1>1. ASSUME NEW a \in Asks,
                Call(a)
       PROVE  NobodyOverran
    BY <1>1
    DEF Call
  <1>2. ASSUME NEW a \in Asks,
                AcquireTurn(a)
       PROVE  NobodyOverran
    BY <1>2
    DEF AcquireTurn, VersionMatches
  <1>3. ASSUME NEW a \in Asks,
                RefuseVersion(a)
       PROVE  NobodyOverran
    BY <1>3
    DEF RefuseVersion, VersionMatches
  <1>4. ASSUME NEW a \in Asks,
                ReportConflict(a)
       PROVE  NobodyOverran
    BY <1>4
    DEF ReportConflict
  <1>5. ASSUME NEW a \in Asks,
                CollectResult(a)
       PROVE  NobodyOverran
    BY <1>5
    DEF CollectResult, Proceed
  <1>6. ASSUME NEW a \in Asks,
                OverrunBudget(a)
       PROVE  NobodyOverran
    BY <1>6
    DEF OverrunBudget, Proceed, MayOverrun
  <1>7. ASSUME NEW a \in Asks,
                InvalidateTurn(a)
       PROVE  NobodyOverran
    BY <1>7
    DEF InvalidateTurn
  <1>8. ASSUME NEW a \in Asks,
                AppendHistory(a)
       PROVE  NobodyOverran
    BY <1>8
    DEF AppendHistory
  <1>9. ASSUME NEW a \in Asks,
                StampVersion(a)
       PROVE  NobodyOverran
    BY <1>9
    DEF StampVersion
  <1>10. ASSUME NEW a \in Asks,
                ReleaseTurn(a)
       PROVE  NobodyOverran
    BY <1>10
    DEF ReleaseTurn
  <1>11. ASSUME NEW a \in Asks,
                LookAtPending(a) \/ TakePending(a) \/ CreateTicket(a) \/ CancelPending(a) \/ AskAgain(a)
       PROVE  NobodyOverran
    BY <1>11
    DEF LookAtPending, TakePending, CreateTicket, CancelPending, AskAgain, PendingAfterTake
  <1>12. ASSUME NEW a \in Asks,
                ProposeAction(a) \/ AnswerQuestion(a) \/ HitDeadline(a) \/ WorkerRaises(a) \/
                FinishTrace(a)
       PROVE  NobodyOverran
    BY <1>12
    DEF ProposeAction, AnswerQuestion, HitDeadline, WorkerRaises, FinishTrace
  <1>13. CASE Clear
    BY <1>13
    DEF Clear, EpochAfterClear
  <1>14. CASE UNCHANGED vars
    BY <1>14
  <1>15. QED
    BY <1>1, <1>2, <1>3, <1>4, <1>5, <1>6, <1>7, <1>8, <1>9, <1>10, <1>11, <1>12, <1>13, <1>14
    DEF Next, CallerStep, WorkerStep


\* A worker ends before its caller goes on.
LEMMA AttachedStep ==
  ASSUME TurnInv, Replies, Calm, NobodyOverran', [Next]_vars
  PROVE  Attached'
  <1> USE ConstantsAssumption
      DEF TurnInv, Calm, TypeOK, CallerTypeOK, WorkerTypeOK, Phases, Holding, Attached, Working,
          vars, sessionVars, callVars, workVars, Goto, Advance, Produce
  <1>1. ASSUME NEW a \in Asks,
                Call(a)
       PROVE  Attached'
    BY <1>1
    DEF Call
  <1>2. ASSUME NEW a \in Asks,
                AcquireTurn(a)
       PROVE  Attached'
    BY <1>2
    DEF AcquireTurn, VersionMatches
  <1>3. ASSUME NEW a \in Asks,
                RefuseVersion(a)
       PROVE  Attached'
    BY <1>3
    DEF RefuseVersion, VersionMatches
  <1>4. ASSUME NEW a \in Asks,
                ReportConflict(a)
       PROVE  Attached'
    BY <1>4
    DEF ReportConflict
  <1>5. ASSUME NEW a \in Asks,
                CollectResult(a)
       PROVE  Attached'
    BY <1>5
    DEF CollectResult, Proceed
  <1>6. ASSUME NEW a \in Asks,
                OverrunBudget(a)
       PROVE  Attached'
    BY <1>6
    DEF OverrunBudget, Proceed, MayOverrun, NobodyOverran
  <1>7. ASSUME NEW a \in Asks,
                InvalidateTurn(a)
       PROVE  Attached'
    BY <1>7
    DEF InvalidateTurn
  <1>8. ASSUME NEW a \in Asks,
                AppendHistory(a)
       PROVE  Attached'
    BY <1>8
    DEF AppendHistory
  <1>9. ASSUME NEW a \in Asks,
                StampVersion(a)
       PROVE  Attached'
    BY <1>9
    DEF StampVersion
  <1>10. ASSUME NEW a \in Asks,
                ReleaseTurn(a)
       PROVE  Attached'
    BY <1>10
    DEF ReleaseTurn
  <1>11. ASSUME NEW a \in Asks,
                LookAtPending(a)
       PROVE  Attached'
    BY <1>11
    DEF LookAtPending
  <1>12. ASSUME NEW a \in Asks,
                TakePending(a)
       PROVE  Attached'
    BY <1>12
    DEF TakePending, PendingAfterTake
  <1>13. ASSUME NEW a \in Asks,
                CreateTicket(a)
       PROVE  Attached'
    BY <1>13
    DEF CreateTicket
  <1>14. ASSUME NEW a \in Asks,
                CancelPending(a)
       PROVE  Attached'
    BY <1>14
    DEF CancelPending
  <1>15. ASSUME NEW a \in Asks,
                AskAgain(a)
       PROVE  Attached'
    BY <1>15
    DEF AskAgain
  <1>16. ASSUME NEW a \in Asks,
                ProposeAction(a)
       PROVE  Attached'
    BY <1>16
    DEF ProposeAction
  <1>17. ASSUME NEW a \in Asks,
                AnswerQuestion(a)
       PROVE  Attached'
    BY <1>17
    DEF AnswerQuestion
  <1>18. ASSUME NEW a \in Asks,
                HitDeadline(a)
       PROVE  Attached'
    BY <1>18
    DEF HitDeadline
  <1>19. ASSUME NEW a \in Asks,
                WorkerRaises(a)
       PROVE  Attached'
    BY <1>19
    DEF WorkerRaises
  <1>20. ASSUME NEW a \in Asks,
                FinishTrace(a)
       PROVE  Attached'
    BY <1>20
    DEF FinishTrace
  <1>21. CASE Clear
    BY <1>21
    DEF Clear, EpochAfterClear
  <1>22. CASE UNCHANGED vars
    BY <1>22
  <1>23. QED
    BY <1>1, <1>2, <1>3, <1>4, <1>5, <1>6, <1>7, <1>8, <1>9, <1>10, <1>11, <1>12, <1>13, <1>14, <1>15, <1>16, <1>17, <1>18, <1>19, <1>20, <1>21, <1>22
    DEF Next, CallerStep, WorkerStep


\* Nothing changes the pending action under a worker.
LEMMA CurrentStep ==
  ASSUME TurnInv, Replies, Calm, NobodyOverran', [Next]_vars
  PROVE  Current'
  <1> USE ConstantsAssumption
      DEF TurnInv, Calm, TypeOK, CallerTypeOK, WorkerTypeOK, Phases, Holding, Exclusive, Attached,
          Working, Current, vars, sessionVars, callVars, workVars, Goto, Advance, Produce
  <1>1. ASSUME NEW a \in Asks,
                Call(a)
       PROVE  Current'
    BY <1>1
    DEF Call
  <1>2. ASSUME NEW a \in Asks,
                AcquireTurn(a)
       PROVE  Current'
    BY <1>2
    DEF AcquireTurn, VersionMatches
  <1>3. ASSUME NEW a \in Asks,
                RefuseVersion(a)
       PROVE  Current'
    BY <1>3
    DEF RefuseVersion, VersionMatches
  <1>4. ASSUME NEW a \in Asks,
                ReportConflict(a)
       PROVE  Current'
    BY <1>4
    DEF ReportConflict
  <1>5. ASSUME NEW a \in Asks,
                CollectResult(a)
       PROVE  Current'
    BY <1>5
    DEF CollectResult, Proceed
  <1>6. ASSUME NEW a \in Asks,
                OverrunBudget(a)
       PROVE  Current'
    BY <1>6
    DEF OverrunBudget, Proceed, MayOverrun
  <1>7. ASSUME NEW a \in Asks,
                InvalidateTurn(a)
       PROVE  Current'
    BY <1>7
    DEF InvalidateTurn
  <1>8. ASSUME NEW a \in Asks,
                AppendHistory(a)
       PROVE  Current'
    BY <1>8
    DEF AppendHistory
  <1>9. ASSUME NEW a \in Asks,
                StampVersion(a)
       PROVE  Current'
    BY <1>9
    DEF StampVersion
  <1>10. ASSUME NEW a \in Asks,
                ReleaseTurn(a)
       PROVE  Current'
    BY <1>10
    DEF ReleaseTurn
  <1>11. ASSUME NEW a \in Asks,
                LookAtPending(a)
       PROVE  Current'
    BY <1>11
    DEF LookAtPending
  <1>12. ASSUME NEW a \in Asks,
                TakePending(a)
       PROVE  Current'
    BY <1>12
    DEF TakePending, PendingAfterTake
  <1>13. ASSUME NEW a \in Asks,
                CreateTicket(a)
       PROVE  Current'
    BY <1>13
    DEF CreateTicket
  <1>14. ASSUME NEW a \in Asks,
                CancelPending(a)
       PROVE  Current'
    BY <1>14
    DEF CancelPending
  <1>15. ASSUME NEW a \in Asks,
                AskAgain(a)
       PROVE  Current'
    BY <1>15
    DEF AskAgain
  <1>16. ASSUME NEW a \in Asks,
                ProposeAction(a)
       PROVE  Current'
    BY <1>16
    DEF ProposeAction
  <1>17. ASSUME NEW a \in Asks,
                AnswerQuestion(a)
       PROVE  Current'
    BY <1>17
    DEF AnswerQuestion
  <1>18. ASSUME NEW a \in Asks,
                HitDeadline(a)
       PROVE  Current'
    BY <1>18
    DEF HitDeadline
  <1>19. ASSUME NEW a \in Asks,
                WorkerRaises(a)
       PROVE  Current'
    BY <1>19
    DEF WorkerRaises
  <1>20. ASSUME NEW a \in Asks,
                FinishTrace(a)
       PROVE  Current'
    BY <1>20
    DEF FinishTrace
  <1>21. CASE Clear
    BY <1>21
    DEF Clear, EpochAfterClear
  <1>22. CASE UNCHANGED vars
    BY <1>22
  <1>23. QED
    BY <1>1, <1>2, <1>3, <1>4, <1>5, <1>6, <1>7, <1>8, <1>9, <1>10, <1>11, <1>12, <1>13, <1>14, <1>15, <1>16, <1>17, <1>18, <1>19, <1>20, <1>21, <1>22
    DEF Next, CallerStep, WorkerStep


\* Only what was proposed is confirmed.
LEMMA ProposedStep ==
  ASSUME TurnInv, Replies, Calm, NobodyOverran', [Next]_vars
  PROVE  Proposed'
  <1> USE ConstantsAssumption
      DEF TurnInv, Calm, TypeOK, CallerTypeOK, WorkerTypeOK, Phases, Holding, SessionTypeOK,
          Attached, Current, Working, Proposed, vars, sessionVars, callVars, workVars, Goto,
          Advance, Produce
  <1>1. ASSUME NEW a \in Asks,
                Call(a)
       PROVE  Proposed'
    BY <1>1
    DEF Call
  <1>2. ASSUME NEW a \in Asks,
                AcquireTurn(a)
       PROVE  Proposed'
    BY <1>2
    DEF AcquireTurn, VersionMatches
  <1>3. ASSUME NEW a \in Asks,
                RefuseVersion(a)
       PROVE  Proposed'
    BY <1>3
    DEF RefuseVersion, VersionMatches
  <1>4. ASSUME NEW a \in Asks,
                ReportConflict(a)
       PROVE  Proposed'
    BY <1>4
    DEF ReportConflict
  <1>5. ASSUME NEW a \in Asks,
                CollectResult(a)
       PROVE  Proposed'
    BY <1>5
    DEF CollectResult, Proceed
  <1>6. ASSUME NEW a \in Asks,
                OverrunBudget(a)
       PROVE  Proposed'
    BY <1>6
    DEF OverrunBudget, Proceed, MayOverrun
  <1>7. ASSUME NEW a \in Asks,
                InvalidateTurn(a)
       PROVE  Proposed'
    BY <1>7
    DEF InvalidateTurn
  <1>8. ASSUME NEW a \in Asks,
                AppendHistory(a)
       PROVE  Proposed'
    BY <1>8
    DEF AppendHistory
  <1>9. ASSUME NEW a \in Asks,
                StampVersion(a)
       PROVE  Proposed'
    BY <1>9
    DEF StampVersion
  <1>10. ASSUME NEW a \in Asks,
                ReleaseTurn(a)
       PROVE  Proposed'
    BY <1>10
    DEF ReleaseTurn
  <1>11. ASSUME NEW a \in Asks,
                LookAtPending(a)
       PROVE  Proposed'
    BY <1>11
    DEF LookAtPending
  <1>12. ASSUME NEW a \in Asks,
                TakePending(a)
       PROVE  Proposed'
    BY <1>12
    DEF TakePending, PendingAfterTake
  <1>13. ASSUME NEW a \in Asks,
                CreateTicket(a)
       PROVE  Proposed'
    BY <1>13
    DEF CreateTicket
  <1>14. ASSUME NEW a \in Asks,
                CancelPending(a)
       PROVE  Proposed'
    BY <1>14
    DEF CancelPending
  <1>15. ASSUME NEW a \in Asks,
                AskAgain(a)
       PROVE  Proposed'
    BY <1>15
    DEF AskAgain
  <1>16. ASSUME NEW a \in Asks,
                ProposeAction(a)
       PROVE  Proposed'
    BY <1>16
    DEF ProposeAction
  <1>17. ASSUME NEW a \in Asks,
                AnswerQuestion(a)
       PROVE  Proposed'
    BY <1>17
    DEF AnswerQuestion
  <1>18. ASSUME NEW a \in Asks,
                HitDeadline(a)
       PROVE  Proposed'
    BY <1>18
    DEF HitDeadline
  <1>19. ASSUME NEW a \in Asks,
                WorkerRaises(a)
       PROVE  Proposed'
    BY <1>19
    DEF WorkerRaises
  <1>20. ASSUME NEW a \in Asks,
                FinishTrace(a)
       PROVE  Proposed'
    BY <1>20
    DEF FinishTrace
  <1>21. CASE Clear
    BY <1>21
    DEF Clear, EpochAfterClear
  <1>22. CASE UNCHANGED vars
    BY <1>22
  <1>23. QED
    BY <1>1, <1>2, <1>3, <1>4, <1>5, <1>6, <1>7, <1>8, <1>9, <1>10, <1>11, <1>12, <1>13, <1>14, <1>15, <1>16, <1>17, <1>18, <1>19, <1>20, <1>21, <1>22
    DEF Next, CallerStep, WorkerStep


\* An action is taken once.
LEMMA UnspentStep ==
  ASSUME TurnInv, Replies, Calm, NobodyOverran', [Next]_vars
  PROVE  Unspent'
  <1> USE ConstantsAssumption
      DEF TurnInv, Calm, TypeOK, CallerTypeOK, WorkerTypeOK, Phases, Holding, SessionTypeOK,
          TimedOut, Exclusive, Attached, Current, Working, Proposed, Unspent, vars, sessionVars,
          callVars, workVars, Goto, Advance, Produce
  <1>1. ASSUME NEW a \in Asks,
                Call(a)
       PROVE  Unspent'
    BY <1>1
    DEF Call
  <1>2. ASSUME NEW a \in Asks,
                AcquireTurn(a)
       PROVE  Unspent'
    BY <1>2
    DEF AcquireTurn, VersionMatches
  <1>3. ASSUME NEW a \in Asks,
                RefuseVersion(a)
       PROVE  Unspent'
    BY <1>3
    DEF RefuseVersion, VersionMatches
  <1>4. ASSUME NEW a \in Asks,
                ReportConflict(a)
       PROVE  Unspent'
    BY <1>4
    DEF ReportConflict
  <1>5. ASSUME NEW a \in Asks,
                CollectResult(a)
       PROVE  Unspent'
    BY <1>5
    DEF CollectResult, Proceed
  <1>6. ASSUME NEW a \in Asks,
                OverrunBudget(a)
       PROVE  Unspent'
    BY <1>6
    DEF OverrunBudget, Proceed, MayOverrun
  <1>7. ASSUME NEW a \in Asks,
                InvalidateTurn(a)
       PROVE  Unspent'
    BY <1>7
    DEF InvalidateTurn
  <1>8. ASSUME NEW a \in Asks,
                AppendHistory(a)
       PROVE  Unspent'
    BY <1>8
    DEF AppendHistory
  <1>9. ASSUME NEW a \in Asks,
                StampVersion(a)
       PROVE  Unspent'
    BY <1>9
    DEF StampVersion
  <1>10. ASSUME NEW a \in Asks,
                ReleaseTurn(a)
       PROVE  Unspent'
    BY <1>10
    DEF ReleaseTurn
  <1>11. ASSUME NEW a \in Asks,
                LookAtPending(a)
       PROVE  Unspent'
    BY <1>11
    DEF LookAtPending
  <1>12. ASSUME NEW a \in Asks,
                TakePending(a)
       PROVE  Unspent'
    BY <1>12
    DEF TakePending, PendingAfterTake, WriteAllowed, Epochs, Invalidated
  <1>13. ASSUME NEW a \in Asks,
                CreateTicket(a)
       PROVE  Unspent'
    BY <1>13
    DEF CreateTicket
  <1>14. ASSUME NEW a \in Asks,
                CancelPending(a)
       PROVE  Unspent'
    BY <1>14
    DEF CancelPending, WriteAllowed, Epochs, Invalidated
  <1>15. ASSUME NEW a \in Asks,
                AskAgain(a)
       PROVE  Unspent'
    BY <1>15
    DEF AskAgain
  <1>16. ASSUME NEW a \in Asks,
                ProposeAction(a)
       PROVE  Unspent'
    <2>1. /\ run[a] = "looked" /\ run' = [run EXCEPT ![a] = "finish"]
          /\ ticket' = ticket /\ subject' = [subject EXCEPT ![a] = a]
          /\ pending' = IF WriteAllowed THEN a ELSE pending
      BY <1>16 DEF ProposeAction
    <2>2. WriteAllowed
      <3>1. pc[a] = "running" /\ outcome[a] = "none" /\ turn[a] > 0
        BY <2>1
      <3>2. active = turn[a] /\ epoch = turn[a]
        BY <3>1 DEF Epochs, Invalidated
      <3>3. QED
        BY <3>1, <3>2 DEF WriteAllowed
    <2>3. run[a] \notin {"finish", "done", "ticket"} /\ a # None
      BY <2>1
    <2>4. ASSUME NEW b \in Asks
          PROVE  ticket[b] # a
      BY <2>3
    <2>5. ASSUME NEW b \in Asks, run'[b] = "ticket"
          PROVE  run[b] = "ticket" /\ subject'[b] = subject[b] /\ subject[b] # a
      <3>1. b # a /\ run[b] = "ticket" /\ subject'[b] = subject[b]
        BY <2>1, <2>5
      <3>2. QED
        BY <2>3, <3>1
    <2>6. QED
      BY <2>1, <2>2, <2>4, <2>5
  <1>17. ASSUME NEW a \in Asks,
                AnswerQuestion(a)
       PROVE  Unspent'
    BY <1>17
    DEF AnswerQuestion
  <1>18. ASSUME NEW a \in Asks,
                HitDeadline(a)
       PROVE  Unspent'
    BY <1>18
    DEF HitDeadline
  <1>19. ASSUME NEW a \in Asks,
                WorkerRaises(a)
       PROVE  Unspent'
    BY <1>19
    DEF WorkerRaises
  <1>20. ASSUME NEW a \in Asks,
                FinishTrace(a)
       PROVE  Unspent'
    BY <1>20
    DEF FinishTrace
  <1>21. CASE Clear
    BY <1>21
    DEF Clear, EpochAfterClear
  <1>22. CASE UNCHANGED vars
    BY <1>22
  <1>23. QED
    BY <1>1, <1>2, <1>3, <1>4, <1>5, <1>6, <1>7, <1>8, <1>9, <1>10, <1>11, <1>12, <1>13, <1>14, <1>15, <1>16, <1>17, <1>18, <1>19, <1>20, <1>21, <1>22
    DEF Next, CallerStep, WorkerStep


\* What was shown stays pending.
LEMMA ShownStep ==
  ASSUME TurnInv, Replies, Calm, NobodyOverran', [Next]_vars
  PROVE  Shown'
  <1> USE ConstantsAssumption
      DEF TurnInv, Calm, TypeOK, CallerTypeOK, WorkerTypeOK, Phases, Holding, SessionTypeOK,
          Exclusive, Attached, Current, Working, Shown, Shows, vars, sessionVars, callVars,
          workVars, Goto, Advance, Produce
  <1>1. ASSUME NEW a \in Asks,
                Call(a)
       PROVE  Shown'
    BY <1>1
    DEF Call, Epochs, Invalidated, TimedOut
  <1>2. ASSUME NEW a \in Asks,
                AcquireTurn(a)
       PROVE  Shown'
    BY <1>2
    DEF AcquireTurn, VersionMatches, Epochs, Invalidated, TimedOut
  <1>3. ASSUME NEW a \in Asks,
                RefuseVersion(a)
       PROVE  Shown'
    BY <1>3
    DEF RefuseVersion, VersionMatches, Epochs, Invalidated, TimedOut
  <1>4. ASSUME NEW a \in Asks,
                ReportConflict(a)
       PROVE  Shown'
    BY <1>4
    DEF ReportConflict, Epochs, Invalidated, TimedOut
  <1>5. ASSUME NEW a \in Asks,
                CollectResult(a)
       PROVE  Shown'
    BY <1>5
    DEF CollectResult, Proceed, Epochs, Invalidated, TimedOut
  <1>6. ASSUME NEW a \in Asks,
                OverrunBudget(a)
       PROVE  Shown'
    BY <1>6
    DEF OverrunBudget, Proceed, MayOverrun, Epochs, Invalidated, TimedOut
  <1>7. ASSUME NEW a \in Asks,
                InvalidateTurn(a)
       PROVE  Shown'
    BY <1>7
    DEF InvalidateTurn, Epochs, Invalidated, TimedOut
  <1>8. ASSUME NEW a \in Asks,
                AppendHistory(a)
       PROVE  Shown'
    BY <1>8
    DEF AppendHistory, Epochs, Invalidated, TimedOut
  <1>9. ASSUME NEW a \in Asks,
                StampVersion(a)
       PROVE  Shown'
    BY <1>9
    DEF StampVersion, Epochs, Invalidated, TimedOut
  <1>10. ASSUME NEW a \in Asks,
                ReleaseTurn(a)
       PROVE  Shown'
    BY <1>10
    DEF ReleaseTurn, Epochs, Invalidated, TimedOut
  <1>11. ASSUME NEW a \in Asks,
                LookAtPending(a)
       PROVE  Shown'
    BY <1>11
    DEF LookAtPending, Epochs, Invalidated, WriteAllowed, TimedOut
  <1>12. ASSUME NEW a \in Asks,
                TakePending(a)
       PROVE  Shown'
    BY <1>12
    DEF TakePending, PendingAfterTake, Epochs, Invalidated, WriteAllowed, TimedOut
  <1>13. ASSUME NEW a \in Asks,
                CreateTicket(a)
       PROVE  Shown'
    BY <1>13
    DEF CreateTicket, Epochs, Invalidated, WriteAllowed, TimedOut
  <1>14. ASSUME NEW a \in Asks,
                CancelPending(a)
       PROVE  Shown'
    BY <1>14
    DEF CancelPending, Epochs, Invalidated, WriteAllowed, TimedOut
  <1>15. ASSUME NEW a \in Asks,
                AskAgain(a)
       PROVE  Shown'
    BY <1>15
    DEF AskAgain, Epochs, Invalidated, WriteAllowed, TimedOut
  <1>16. ASSUME NEW a \in Asks,
                ProposeAction(a)
       PROVE  Shown'
    BY <1>16
    DEF ProposeAction, Epochs, Invalidated, WriteAllowed, TimedOut
  <1>17. ASSUME NEW a \in Asks,
                AnswerQuestion(a)
       PROVE  Shown'
    BY <1>17
    DEF AnswerQuestion, Epochs, Invalidated, WriteAllowed, TimedOut
  <1>18. ASSUME NEW a \in Asks,
                HitDeadline(a)
       PROVE  Shown'
    BY <1>18
    DEF HitDeadline, Epochs, Invalidated, WriteAllowed, TimedOut
  <1>19. ASSUME NEW a \in Asks,
                WorkerRaises(a)
       PROVE  Shown'
    BY <1>19
    DEF WorkerRaises, Epochs, Invalidated, WriteAllowed, TimedOut
  <1>20. ASSUME NEW a \in Asks,
                FinishTrace(a)
       PROVE  Shown'
    BY <1>20
    DEF FinishTrace, Epochs, Invalidated, WriteAllowed, TimedOut
  <1>21. CASE Clear
    BY <1>21
    DEF Clear, EpochAfterClear
  <1>22. CASE UNCHANGED vars
    BY <1>22
  <1>23. QED
    BY <1>1, <1>2, <1>3, <1>4, <1>5, <1>6, <1>7, <1>8, <1>9, <1>10, <1>11, <1>12, <1>13, <1>14, <1>15, <1>16, <1>17, <1>18, <1>19, <1>20, <1>21, <1>22
    DEF Next, CallerStep, WorkerStep


\* A reply is about what was shown.
LEMMA ConfirmingStep ==
  ASSUME TurnInv, Replies, Calm, NobodyOverran', [Next]_vars
  PROVE  Confirming'
  <1> USE ConstantsAssumption
      DEF TurnInv, Calm, TypeOK, CallerTypeOK, WorkerTypeOK, Phases, Holding, SessionTypeOK,
          TimedOut, Replies, NoVersion, Exclusive, Attached, Current, Working, Proposed,
          Confirming, vars, sessionVars, callVars, workVars, Goto, Advance, Produce
  <1>1. ASSUME NEW a \in Asks,
                Call(a)
       PROVE  Confirming'
    BY <1>1
    DEF Call
  <1>2. ASSUME NEW a \in Asks,
                AcquireTurn(a)
       PROVE  Confirming'
    <2>1. /\ pc[a] = "waiting" /\ run[a] = "none" /\ run' = [run EXCEPT ![a] = "submitted"]
          /\ UNCHANGED <<pending, outcome, replyTo, subject, ticket>>
          /\ expected[a] = NoVersion \/ expected[a] = epoch
      BY <1>2 DEF AcquireTurn, VersionMatches
    <2>2. ASSUME NEW b \in Asks, replyTo[a] = b, outcome[b] = "confirm"
          PROVE  pending = subject[b]
      <3>1. pc[b] = "done" /\ expected[a] = version[b] /\ version[b] # NoVersion
        BY <2>2
      <3>2. version[b] = turn[b]
        BY <2>2, <3>1 DEF Shown
      <3>3. epoch = turn[b]
        BY <2>1, <3>1, <3>2
      <3>4. QED
        BY <2>2, <3>3 DEF Shown, Shows
    <2>3. QED
      BY <2>1, <2>2
  <1>3. ASSUME NEW a \in Asks,
                RefuseVersion(a)
       PROVE  Confirming'
    BY <1>3
    DEF RefuseVersion, VersionMatches
  <1>4. ASSUME NEW a \in Asks,
                ReportConflict(a)
       PROVE  Confirming'
    BY <1>4
    DEF ReportConflict
  <1>5. ASSUME NEW a \in Asks,
                CollectResult(a)
       PROVE  Confirming'
    BY SMTT(60), <1>5
    DEF CollectResult, Proceed
  <1>6. ASSUME NEW a \in Asks,
                OverrunBudget(a)
       PROVE  Confirming'
    BY <1>6
    DEF OverrunBudget, Proceed, MayOverrun
  <1>7. ASSUME NEW a \in Asks,
                InvalidateTurn(a)
       PROVE  Confirming'
    BY <1>7
    DEF InvalidateTurn
  <1>8. ASSUME NEW a \in Asks,
                AppendHistory(a)
       PROVE  Confirming'
    BY <1>8
    DEF AppendHistory
  <1>9. ASSUME NEW a \in Asks,
                StampVersion(a)
       PROVE  Confirming'
    BY <1>9
    DEF StampVersion
  <1>10. ASSUME NEW a \in Asks,
                ReleaseTurn(a)
       PROVE  Confirming'
    BY <1>10
    DEF ReleaseTurn
  <1>11. ASSUME NEW a \in Asks,
                LookAtPending(a)
       PROVE  Confirming'
    BY <1>11
    DEF LookAtPending
  <1>12. ASSUME NEW a \in Asks,
                TakePending(a)
       PROVE  Confirming'
    BY <1>12
    DEF TakePending, PendingAfterTake, WriteAllowed, Epochs, Invalidated
  <1>13. ASSUME NEW a \in Asks,
                CreateTicket(a)
       PROVE  Confirming'
    BY <1>13
    DEF CreateTicket
  <1>14. ASSUME NEW a \in Asks,
                CancelPending(a)
       PROVE  Confirming'
    BY <1>14
    DEF CancelPending, WriteAllowed, Epochs, Invalidated
  <1>15. ASSUME NEW a \in Asks,
                AskAgain(a)
       PROVE  Confirming'
    BY <1>15
    DEF AskAgain
  <1>16. ASSUME NEW a \in Asks,
                ProposeAction(a)
       PROVE  Confirming'
    BY <1>16
    DEF ProposeAction, WriteAllowed, Epochs, Invalidated
  <1>17. ASSUME NEW a \in Asks,
                AnswerQuestion(a)
       PROVE  Confirming'
    BY <1>17
    DEF AnswerQuestion
  <1>18. ASSUME NEW a \in Asks,
                HitDeadline(a)
       PROVE  Confirming'
    BY <1>18
    DEF HitDeadline
  <1>19. ASSUME NEW a \in Asks,
                WorkerRaises(a)
       PROVE  Confirming'
    BY <1>19
    DEF WorkerRaises
  <1>20. ASSUME NEW a \in Asks,
                FinishTrace(a)
       PROVE  Confirming'
    BY <1>20
    DEF FinishTrace
  <1>21. CASE Clear
    BY <1>21
    DEF Clear, EpochAfterClear
  <1>22. CASE UNCHANGED vars
    BY <1>22
  <1>23. QED
    BY <1>1, <1>2, <1>3, <1>4, <1>5, <1>6, <1>7, <1>8, <1>9, <1>10, <1>11, <1>12, <1>13, <1>14, <1>15, <1>16, <1>17, <1>18, <1>19, <1>20, <1>21, <1>22
    DEF Next, CallerStep, WorkerStep


----------------------------------------------------------------------------
(* Theorems.                                                               *)

\* The session starts with nothing in it.
LEMMA InitInv ==
  ASSUME Init
  PROVE  Inv
  <1> USE ConstantsAssumption DEF Init, NoVersion
  <1>1. TypeOK
    <2>1. SessionTypeOK
      <3>0. busy \in BOOLEAN
        BY Zenon
      <3>1. history = <<>> /\ <<>> \in Seq(Asks)
        OBVIOUS
      <3>2. epoch \in Nat /\ active \in 0..epoch /\ cleared \in 0..epoch /\ clears \in 0..MaxClears
        OBVIOUS
      <3>3. QED
        BY <3>0, <3>1, <3>2 DEF SessionTypeOK
    <2>2. CallerTypeOK
      BY DEF CallerTypeOK, Places, Results, Outcomes
    <2>3. WorkerTypeOK
      BY DEF WorkerTypeOK, RunPlaces, Results
    <2>4. QED
      BY <2>1, <2>2, <2>3 DEF TypeOK
  <1>2. Phases /\ Exclusive /\ Epochs
    BY DEF Phases, Exclusive, Epochs, Holding
  <1>3. HistoryInv
    BY DEF HistoryInv, Recorded, HistoryInOrder, Kept, Answered
  <1>4. VersionInv
    BY DEF VersionInv, Replies, Stamped, AcceptedVersionIsFresh, Acquired
  <1>5. Attached /\ Current /\ Proposed /\ Unspent
    BY DEF Attached, Working, Current, Proposed, Unspent
  <1>6. Shown /\ Confirming
    BY DEF Shown, Shows, Confirming
  <1>7. QED
    BY <1>1, <1>2, <1>3, <1>4, <1>5, <1>6 DEF Inv, TurnInv, ActionInv, Calm

\* Every step keeps the invariant.
LEMMA StepInv ==
  ASSUME Inv, [Next]_vars
  PROVE  Inv'
  <1>1. TurnInv /\ HistoryInv /\ VersionInv /\ ActionInv /\ Recorded /\ Replies
    BY DEF Inv, HistoryInv, VersionInv
  <1>2. TypeOK'
    BY <1>1, SessionTypeStep, CallerTypeStep, WorkerTypeStep DEF TypeOK
  <1>3. TurnInv'
    BY <1>1, <1>2, PhasesStep, ExclusiveStep, EpochsStep DEF TurnInv
  <1>4. HistoryInv'
    BY <1>1, HistoryStep
  <1>5. VersionInv'
    BY <1>1, RepliesStep, StampedStep, FreshStep DEF VersionInv
  <1>6. ActionInv'
    <2> SUFFICES ASSUME NobodyOverran'
                 PROVE  Calm'
      BY DEF ActionInv
    <2>1. Calm
      BY <1>1, OverrunsStay DEF ActionInv
    <2>2. QED
      BY <1>1, <2>1, AttachedStep, CurrentStep, ProposedStep, UnspentStep, ShownStep, ConfirmingStep
      DEF Calm
  <1>7. QED
    BY <1>3, <1>4, <1>5, <1>6 DEF Inv

LEMMA InvariantHolds == Spec => []Inv
  <1>1. Init => Inv
    BY InitInv
  <1>2. Inv /\ [Next]_vars => Inv'
    BY StepInv
  <1>3. QED
    BY <1>1, <1>2, PTL DEF Spec

\* The session, its callers and its workers keep their types, and no turn or
\* version is ahead of the epoch.
THEOREM TypeCorrectness == Spec => []TypeOK
  <1>1. Inv => TypeOK
    BY DEF Inv, TurnInv
  <1>2. QED
    BY <1>1, InvariantHolds, PTL

\* _history is the recent answers in the order of their turns, none lost and
\* none twice, however asks race, overrun their budget or clear the session.
THEOREM HistoryIsFaithful == Spec => []HistoryFollowsTurns
  <1>1. Inv => HistoryFollowsTurns
    <2>1. ASSUME Inv
          PROVE  HistoryFollowsTurns
      <3>1. HistoryInOrder /\ Kept
        BY <2>1 DEF Inv, HistoryInv
      <3>2. NothingIsLost
        BY <3>1 DEF Kept, NothingIsLost, Answered, InHistory, Displaced
      <3>3. QED
        BY <3>1, <3>2 DEF HistoryFollowsTurns
    <2>2. QED
      BY <2>1
  <1>2. QED
    BY <1>1, InvariantHolds, PTL

\* A version that _acquire_turn accepts is that of the last thing that
\* happened to the session.
THEOREM AcceptedMeansFresh == Spec => []AcceptedVersionIsFresh
  <1>1. Inv => AcceptedVersionIsFresh
    BY DEF Inv, VersionInv
  <1>2. QED
    BY <1>1, InvariantHolds, PTL

\* Until an ask overruns its budget, a confirmation with a version creates the
\* ticket for the action its client was shown.
THEOREM ConfirmationIsExact == Spec => []ExactConfirmation
  <1>1. Inv => ExactConfirmation
    <2>1. ASSUME Inv, NobodyOverran
          PROVE  Confirming
      BY <2>1 DEF Inv, ActionInv, Calm
    <2>2. QED
      BY <2>1 DEF ExactConfirmation, Confirming
  <1>2. QED
    BY <1>1, InvariantHolds, PTL

\* Until an ask overruns its budget, an action becomes one ticket at most.
THEOREM TicketsAreUnique == Spec => []OneTicketPerAction
  <1>1. Inv => OneTicketPerAction
    <2>1. ASSUME Inv, NobodyOverran
          PROVE  Unspent
      BY <2>1 DEF Inv, ActionInv, Calm
    <2>2. QED
      BY <2>1 DEF OneTicketPerAction, Unspent
  <1>2. QED
    BY <1>1, InvariantHolds, PTL

\* Together: the types and the history of a session.
THEOREM SessionIsSafe == Spec => []SessionSafety
  <1>1. TypeOK /\ HistoryFollowsTurns => SessionSafety
    BY DEF SessionSafety
  <1>2. QED
    BY <1>1, TypeCorrectness, HistoryIsFaithful, PTL

\* Together: versions, confirmations and tickets.
THEOREM ConfirmationsHold == Spec => []ConfirmationsAreSafe
  <1>1. AcceptedVersionIsFresh /\ ExactConfirmation /\ OneTicketPerAction => ConfirmationsAreSafe
    BY DEF ConfirmationsAreSafe
  <1>2. QED
    BY <1>1, AcceptedMeansFresh, ConfirmationIsExact, TicketsAreUnique, PTL

----------------------------------------------------------------------------
(* What liveness rests on: a busy session has a caller that will release   *)
(* it, that caller waits for nothing but a worker it has, and neither of   *)
(* the two goes back.                                                      *)

TurnHasHolder == busy => \E a \in Asks : pc[a] \in Holding

RunningHasWorker == \A a \in Asks : pc[a] = "running" => run[a] # "none"

\* The steps a caller still has to take, once it is called.
CallerAhead(place) ==
    CASE place = "new" -> 7
      [] place = "waiting" -> 6
      [] place = "running" -> 5
      [] place = "invalidate" -> 4
      [] place = "append" -> 3
      [] place = "stamp" -> 2
      [] place \in {"release", "conflict"} -> 1
      [] place = "done" -> 0

\* The steps of its worker.
WorkerAhead(place) ==
    CASE place = "none" -> 5
      [] place = "submitted" -> 4
      [] place = "looked" -> 3
      [] place = "ticket" -> 2
      [] place = "finish" -> 1
      [] place = "done" -> 0

AskAhead(a) == CallerAhead(pc[a]) + WorkerAhead(run[a])

\* The number of each place.
LEMMA AheadOfCaller ==
  /\ CallerAhead("new") = 7
  /\ CallerAhead("waiting") = 6
  /\ CallerAhead("running") = 5
  /\ CallerAhead("invalidate") = 4
  /\ CallerAhead("append") = 3
  /\ CallerAhead("stamp") = 2
  /\ CallerAhead("release") = 1
  /\ CallerAhead("conflict") = 1
  /\ CallerAhead("done") = 0
  BY DEF CallerAhead

LEMMA AheadOfWorker ==
  /\ WorkerAhead("none") = 5
  /\ WorkerAhead("submitted") = 4
  /\ WorkerAhead("looked") = 3
  /\ WorkerAhead("ticket") = 2
  /\ WorkerAhead("finish") = 1
  /\ WorkerAhead("done") = 0
  BY DEF WorkerAhead

\* The measure is a number within its bound.
LEMMA AskAheadBounds ==
  ASSUME TurnInv, NEW a \in Asks
  PROVE  CallerAhead(pc[a]) \in 0..7 /\ WorkerAhead(run[a]) \in 0..5
  <1>1. pc[a] \in Places /\ run[a] \in RunPlaces
    BY DEF TurnInv, TypeOK, CallerTypeOK, WorkerTypeOK
  <1>2. CallerAhead(pc[a]) \in 0..7
    BY <1>1, AheadOfCaller DEF Places, Holding
  <1>3. WorkerAhead(run[a]) \in 0..5
    BY <1>1, AheadOfWorker DEF RunPlaces
  <1>4. QED
    BY <1>2, <1>3

\* What a step of ask a, or of its worker, does: it moves the one or the other, or both, on.
CallerMoves(a) ==
    /\ pc' = [pc EXCEPT ![a] = pc'[a]] /\ CallerAhead(pc'[a]) < CallerAhead(pc[a])
    /\ \/ run' = run
       \/ run[a] = "none" /\ run' = [run EXCEPT ![a] = "submitted"]

WorkerMoves(a) ==
    /\ pc' = pc
    /\ run' = [run EXCEPT ![a] = run'[a]] /\ WorkerAhead(run'[a]) < WorkerAhead(run[a])

\* A caller goes from one place to a later one.
LEMMA CallerGoesOn ==
  ASSUME TurnInv, NEW a \in Asks, Call(a) \/ CallerStep(a)
  PROVE  /\ CallerMoves(a)
         /\ pc[a] \in Holding => busy /\ (pc'[a] \in Holding \/ ~busy')
         /\ pc[a] \notin Holding => pc'[a] \in Holding \/ busy' = busy
         /\ pc'[a] = "running" => run'[a] # "none"
  <1>1. pc \in [Asks -> Places] /\ run \in [Asks -> RunPlaces]
    BY DEF TurnInv, TypeOK, CallerTypeOK, WorkerTypeOK
  <1>2. CASE Call(a)
    <2>1. PICK place \in {"waiting"} : Goto(a, place)
      BY <1>2 DEF Call
    <2>2. pc[a] = "new" /\ run' = run /\ busy' = busy
      BY <1>2 DEF Call, sessionVars, workVars
    <2>3. pc'[a] = place /\ pc' = [pc EXCEPT ![a] = place]
      BY <1>1, <2>1 DEF Goto
    <2>5. CallerMoves(a)
      BY <2>2, <2>3, AheadOfCaller DEF CallerMoves
    <2>6. QED
      BY <2>2, <2>3, <2>5 DEF TurnInv, Phases, Holding
  <1>3. CASE AcquireTurn(a)
    <2>1. PICK place \in {"running"} : Goto(a, place)
      BY <1>3 DEF AcquireTurn
    <2>2. pc[a] = "waiting" /\ run' = [run EXCEPT ![a] = "submitted"] /\ busy'
      BY <1>3 DEF AcquireTurn, sessionVars, workVars
    <2>3. pc'[a] = place /\ pc' = [pc EXCEPT ![a] = place]
      BY <1>1, <2>1 DEF Goto
    <2>4. run[a] = "none" /\ run'[a] = "submitted"
      BY <1>1, <2>2 DEF TurnInv, Phases
    <2>5. CallerMoves(a)
      BY <2>2, <2>3, <2>4, AheadOfCaller DEF CallerMoves
    <2>6. QED
      BY <2>2, <2>3, <2>4, <2>5 DEF TurnInv, Phases, Holding
  <1>4. CASE RefuseVersion(a)
    <2>1. PICK place \in {"conflict"} : Goto(a, place)
      BY <1>4 DEF RefuseVersion
    <2>2. pc[a] = "waiting" /\ run' = run /\ busy' = busy
      BY <1>4 DEF RefuseVersion, sessionVars, workVars
    <2>3. pc'[a] = place /\ pc' = [pc EXCEPT ![a] = place]
      BY <1>1, <2>1 DEF Goto
    <2>5. CallerMoves(a)
      BY <2>2, <2>3, AheadOfCaller DEF CallerMoves
    <2>6. QED
      BY <2>2, <2>3, <2>5 DEF TurnInv, Phases, Holding
  <1>5. CASE ReportConflict(a)
    <2>1. PICK place \in {"done"} : Goto(a, place)
      BY <1>5 DEF ReportConflict
    <2>2. pc[a] = "conflict" /\ run' = run /\ busy' = busy
      BY <1>5 DEF ReportConflict, sessionVars, workVars
    <2>3. pc'[a] = place /\ pc' = [pc EXCEPT ![a] = place]
      BY <1>1, <2>1 DEF Goto
    <2>5. CallerMoves(a)
      BY <2>2, <2>3, AheadOfCaller DEF CallerMoves
    <2>6. QED
      BY <2>2, <2>3, <2>5 DEF TurnInv, Phases, Holding
  <1>6. CASE CollectResult(a) \/ OverrunBudget(a)
    <2>1. PICK place \in {"invalidate", "release", "append"} : Goto(a, place)
      BY <1>6 DEF CollectResult, OverrunBudget, Proceed
    <2>2. pc[a] = "running" /\ run' = run /\ busy' = busy
      BY <1>6 DEF CollectResult, OverrunBudget, Proceed, sessionVars, workVars
    <2>3. pc'[a] = place /\ pc' = [pc EXCEPT ![a] = place]
      BY <1>1, <2>1 DEF Goto
    <2>5. CallerMoves(a)
      BY <2>2, <2>3, AheadOfCaller DEF CallerMoves
    <2>6. QED
      BY <2>2, <2>3, <2>5 DEF TurnInv, Phases, Holding
  <1>7. CASE InvalidateTurn(a)
    <2>1. PICK place \in {"append"} : Goto(a, place)
      BY <1>7 DEF InvalidateTurn
    <2>2. pc[a] = "invalidate" /\ run' = run /\ busy' = busy
      BY <1>7 DEF InvalidateTurn, sessionVars, workVars
    <2>3. pc'[a] = place /\ pc' = [pc EXCEPT ![a] = place]
      BY <1>1, <2>1 DEF Goto
    <2>5. CallerMoves(a)
      BY <2>2, <2>3, AheadOfCaller DEF CallerMoves
    <2>6. QED
      BY <2>2, <2>3, <2>5 DEF TurnInv, Phases, Holding
  <1>8. CASE AppendHistory(a)
    <2>1. PICK place \in {"stamp"} : Goto(a, place)
      BY <1>8 DEF AppendHistory
    <2>2. pc[a] = "append" /\ run' = run /\ busy' = busy
      BY <1>8 DEF AppendHistory, sessionVars, workVars
    <2>3. pc'[a] = place /\ pc' = [pc EXCEPT ![a] = place]
      BY <1>1, <2>1 DEF Goto
    <2>5. CallerMoves(a)
      BY <2>2, <2>3, AheadOfCaller DEF CallerMoves
    <2>6. QED
      BY <2>2, <2>3, <2>5 DEF TurnInv, Phases, Holding
  <1>9. CASE StampVersion(a)
    <2>1. PICK place \in {"release"} : Goto(a, place)
      BY <1>9 DEF StampVersion
    <2>2. pc[a] = "stamp" /\ run' = run /\ busy' = busy
      BY <1>9 DEF StampVersion, sessionVars, workVars
    <2>3. pc'[a] = place /\ pc' = [pc EXCEPT ![a] = place]
      BY <1>1, <2>1 DEF Goto
    <2>5. CallerMoves(a)
      BY <2>2, <2>3, AheadOfCaller DEF CallerMoves
    <2>6. QED
      BY <2>2, <2>3, <2>5 DEF TurnInv, Phases, Holding
  <1>10. CASE ReleaseTurn(a)
    <2>1. PICK place \in {"done"} : Goto(a, place)
      BY <1>10 DEF ReleaseTurn
    <2>2. pc[a] = "release" /\ run' = run /\ ~busy'
      BY <1>10 DEF ReleaseTurn, sessionVars, workVars
    <2>3. pc'[a] = place /\ pc' = [pc EXCEPT ![a] = place]
      BY <1>1, <2>1 DEF Goto
    <2>5. CallerMoves(a)
      BY <2>2, <2>3, AheadOfCaller DEF CallerMoves
    <2>6. QED
      BY <2>2, <2>3, <2>5 DEF TurnInv, Phases, Holding
  <1>11. QED
    BY <1>2, <1>3, <1>4, <1>5, <1>6, <1>7, <1>8, <1>9, <1>10 DEF CallerStep

\* So does a worker.
LEMMA WorkerGoesOn ==
  ASSUME TurnInv, NEW a \in Asks, WorkerStep(a)
  PROVE  WorkerMoves(a) /\ busy' = busy /\ run'[a] # "none"
  <1>1. run \in [Asks -> RunPlaces]
    BY DEF TurnInv, TypeOK, WorkerTypeOK
  <1>2. pc' = pc /\ busy' = busy
    BY DEF WorkerStep, LookAtPending, TakePending, CreateTicket, CancelPending, AskAgain,
           ProposeAction, AnswerQuestion, HitDeadline, WorkerRaises, FinishTrace, sessionVars
  <1>3. PICK place \in RunPlaces :
          /\ run' = [run EXCEPT ![a] = place]
          /\ \/ run[a] = "submitted" /\ place \in {"looked", "done"}
             \/ run[a] = "looked" /\ place \in {"ticket", "finish", "done"}
             \/ run[a] = "ticket" /\ place \in {"finish", "done"}
             \/ run[a] = "finish" /\ place = "done"
    BY DEF WorkerStep, LookAtPending, TakePending, CreateTicket, CancelPending, AskAgain,
           ProposeAction, AnswerQuestion, HitDeadline, WorkerRaises, FinishTrace, Advance, Produce,
           RunPlaces
  <1>4. run'[a] = place
    BY <1>1, <1>3
  <1>5. WorkerAhead(place) < WorkerAhead(run[a])
    BY <1>3, AheadOfWorker
  <1>6. place # "none"
    BY <1>3
  <1>7. QED
    BY <1>2, <1>3, <1>4, <1>5, <1>6, Zenon DEF WorkerMoves

\* Each step counts an ask down, or leaves it where it is.
LEMMA AsksGoOn ==
  ASSUME TurnInv, TurnInv', [Next]_vars, NEW a \in Asks
  PROVE  AskAhead(a)' < AskAhead(a) \/ UNCHANGED <<pc[a], run[a]>>
  <1>1. pc \in [Asks -> Places] /\ run \in [Asks -> RunPlaces]
    BY DEF TurnInv, TypeOK, CallerTypeOK, WorkerTypeOK
  <1>2. CallerAhead(pc[a]) \in Int /\ WorkerAhead(run[a]) \in Int
    BY AskAheadBounds
  <1>3. CallerAhead(pc'[a]) \in Int
    <2>1. pc'[a] \in Places
      BY DEF TurnInv, TypeOK, CallerTypeOK
    <2>2. QED
      BY <2>1, AheadOfCaller DEF Places, Holding
  <1>4. CASE \E q \in Asks : Call(q) \/ CallerStep(q)
    <2>1. PICK q \in Asks : CallerMoves(q)
      BY <1>4, CallerGoesOn, Zenon
    <2>2. CASE q = a
      <3>1. CallerAhead(pc'[a]) < CallerAhead(pc[a])
        BY <2>1, <2>2 DEF CallerMoves
      <3>2. run'[a] = run[a] \/ (run[a] = "none" /\ run'[a] = "submitted")
        BY <1>1, <2>1, <2>2 DEF CallerMoves
      <3>3. WorkerAhead(run'[a]) \in Int /\ WorkerAhead(run'[a]) <= WorkerAhead(run[a])
        BY <1>2, <3>2, AheadOfWorker
      <3>4. QED
        BY <1>2, <1>3, <3>1, <3>3 DEF AskAhead
    <2>3. CASE q # a
      BY <1>1, <2>1, <2>3 DEF CallerMoves
    <2>4. QED
      BY <2>2, <2>3
  <1>5. CASE \E q \in Asks : WorkerStep(q)
    <2>1. PICK q \in Asks : WorkerMoves(q)
      BY <1>5, WorkerGoesOn, Zenon
    <2>2. CASE q = a
      <3>1. pc'[a] = pc[a] /\ WorkerAhead(run'[a]) < WorkerAhead(run[a])
        BY <2>1, <2>2 DEF WorkerMoves
      <3>2. run'[a] \in RunPlaces
        BY DEF TurnInv, TypeOK, WorkerTypeOK
      <3>3. WorkerAhead(run'[a]) \in Int
        BY <3>2, AheadOfWorker DEF RunPlaces
      <3>4. QED
        BY <1>2, <3>1, <3>3 DEF AskAhead
    <2>3. CASE q # a
      BY <1>1, <2>1, <2>3 DEF WorkerMoves
    <2>4. QED
      BY <2>2, <2>3
  <1>6. CASE Clear \/ UNCHANGED vars
    BY <1>6 DEF Clear, vars, workVars
  <1>7. QED
    BY <1>4, <1>5, <1>6 DEF Next

\* A turn that is taken has a caller that will give it back.
LEMMA TurnHeld ==
  ASSUME TurnInv, TurnHasHolder, [Next]_vars
  PROVE  TurnHasHolder'
  <1>1. pc \in [Asks -> Places]
    BY DEF TurnInv, TypeOK, CallerTypeOK
  <1>2. SUFFICES ASSUME busy'
                 PROVE  \E a \in Asks : pc'[a] \in Holding
    BY DEF TurnHasHolder
  <1>3. CASE \E q \in Asks : Call(q) \/ CallerStep(q)
    <2>1. PICK q \in Asks : /\ CallerMoves(q)
                            /\ pc[q] \in Holding => pc'[q] \in Holding \/ ~busy'
                            /\ pc[q] \notin Holding => pc'[q] \in Holding \/ busy' = busy
      BY <1>3, CallerGoesOn, Zenon
    <2>2. CASE pc'[q] \in Holding
      BY <2>2
    <2>3. CASE pc'[q] \notin Holding
      <3>1. pc[q] \notin Holding /\ busy
        BY <1>2, <2>1, <2>3
      <3>2. PICK a \in Asks : pc[a] \in Holding
        BY <3>1 DEF TurnHasHolder
      <3>3. pc'[a] = pc[a]
        BY <1>1, <2>1, <3>1, <3>2 DEF CallerMoves
      <3>4. QED
        BY <3>2, <3>3
    <2>4. QED
      BY <2>2, <2>3
  <1>4. CASE \E q \in Asks : WorkerStep(q)
    <2>1. pc' = pc /\ busy' = busy
      BY <1>4, WorkerGoesOn DEF WorkerMoves
    <2>2. QED
      BY <1>2, <2>1 DEF TurnHasHolder
  <1>5. CASE Clear \/ UNCHANGED vars
    <2>1. pc' = pc /\ busy' = busy
      BY <1>5 DEF Clear, vars, sessionVars
    <2>2. QED
      BY <1>2, <2>1 DEF TurnHasHolder
  <1>6. QED
    BY <1>3, <1>4, <1>5 DEF Next

\* A caller that waits for a worker has one.
LEMMA WorkerStarted ==
  ASSUME TurnInv, RunningHasWorker, [Next]_vars
  PROVE  RunningHasWorker'
  <1>1. pc \in [Asks -> Places] /\ run \in [Asks -> RunPlaces]
    BY DEF TurnInv, TypeOK, CallerTypeOK, WorkerTypeOK
  <1>2. SUFFICES ASSUME NEW a \in Asks, pc'[a] = "running"
                 PROVE  run'[a] # "none"
    BY DEF RunningHasWorker
  <1>3. CASE \E q \in Asks : Call(q) \/ CallerStep(q)
    <2>1. PICK q \in Asks : CallerMoves(q) /\ (pc'[q] = "running" => run'[q] # "none")
      BY <1>3, CallerGoesOn, Zenon
    <2>2. CASE q = a
      BY <1>2, <2>1, <2>2
    <2>3. CASE q # a
      <3>1. pc'[a] = pc[a] /\ run'[a] = run[a]
        BY <1>1, <2>1, <2>3 DEF CallerMoves
      <3>2. QED
        BY <1>2, <3>1 DEF RunningHasWorker
    <2>4. QED
      BY <2>2, <2>3
  <1>4. CASE \E q \in Asks : WorkerStep(q)
    <2>1. PICK q \in Asks : WorkerMoves(q) /\ run'[q] # "none"
      BY <1>4, WorkerGoesOn, Zenon
    <2>2. CASE q = a
      BY <2>1, <2>2
    <2>3. CASE q # a
      <3>1. pc'[a] = pc[a] /\ run'[a] = run[a]
        BY <1>1, <2>1, <2>3 DEF WorkerMoves
      <3>2. QED
        BY <1>2, <3>1 DEF RunningHasWorker
    <2>4. QED
      BY <2>2, <2>3
  <1>5. CASE Clear \/ UNCHANGED vars
    <2>1. pc' = pc /\ run' = run
      BY <1>5 DEF Clear, vars, workVars
    <2>2. QED
      BY <1>2, <2>1 DEF RunningHasWorker
  <1>6. QED
    BY <1>3, <1>4, <1>5 DEF Next

\* The safety half of AskReturns: a session that is busy has a caller that holds the turn, a
\* caller that waits for a result has a worker, and every step of an ask counts it down from
\* twelve, so that no ask is ever sent back to wait or to run again.
THEOREM AsksRunOut ==
  Spec => /\ []TurnHasHolder
          /\ []RunningHasWorker
          /\ [](\A a \in Asks : AskAhead(a) \in 0..12)
          /\ [][\A a \in Asks : AskAhead(a)' < AskAhead(a) \/ UNCHANGED <<pc[a], run[a]>>]_vars
  <1> DEFINE Bounded == \A a \in Asks : AskAhead(a) \in 0..12
             Down == \A a \in Asks : AskAhead(a)' < AskAhead(a) \/ UNCHANGED <<pc[a], run[a]>>
  <1>1. Init => TurnHasHolder /\ RunningHasWorker
    BY DEF Init, TurnHasHolder, RunningHasWorker
  <1>2. Inv /\ TurnHasHolder /\ RunningHasWorker /\ [Next]_vars
        => TurnHasHolder' /\ RunningHasWorker'
    BY TurnHeld, WorkerStarted DEF Inv
  <1>3. Inv => Bounded
    <2>1. ASSUME Inv, NEW a \in Asks
          PROVE  AskAhead(a) \in 0..12
      <3>1. TurnInv
        BY <2>1 DEF Inv
      <3>2. CallerAhead(pc[a]) \in 0..7 /\ WorkerAhead(run[a]) \in 0..5
        BY <3>1, AskAheadBounds
      <3>3. QED
        BY <3>2 DEF AskAhead
    <2>2. QED
      BY <2>1
  <1>4. Inv /\ [Next]_vars => [Down]_vars
    <2>1. ASSUME Inv, [Next]_vars
          PROVE  Down
      <3>1. TurnInv /\ TurnInv'
        BY <2>1, StepInv DEF Inv
      <3>2. QED
        BY <2>1, <3>1, AsksGoOn
    <2>2. QED
      BY <2>1
  <1> HIDE DEF Bounded, Down
  <1>5. Spec => []TurnHasHolder /\ []RunningHasWorker /\ []Bounded /\ [][Down]_vars
    BY <1>1, <1>2, <1>3, <1>4, InvariantHolds, PTL DEF Spec
  <1>6. QED
    BY <1>5 DEF Bounded, Down
=============================================================================
