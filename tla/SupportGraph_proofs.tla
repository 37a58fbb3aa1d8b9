------------------------ MODULE SupportGraph_proofs -------------------------
(***************************************************************************)
(* Proofs that the properties of SupportGraph hold for any documents,      *)
(* scores, thresholds and any number of retries.                           *)
(***************************************************************************)
EXTENDS SupportGraph, TLAPS

----------------------------------------------------------------------------
(* The inductive invariant says, node by node, what the request has earned *)
(* so far.                                                                 *)

Early == {"classify_complexity", "transform_query", "retrieve", "grade_docs", "generate",
          "verify_facts", "evaluate", "route_or_retry", "rewrite_query"}

\* Where an error can be and what has become of it there, which routes a node
\* sees, and that a retry is allowed.
Control ==
    /\ s.error =>
         \/ /\ node \in {"transform_query", "retrieve", "generate", "route_or_retry", "handle_error"}
            /\ s.route = "error"
         \/ node \in {"log"} \cup Final /\ s.route = "error" /\ trail.gateFailed
         \/ node = "end" /\ s.route = "error_escalation" /\ s.answer = "escalation"
    /\ ~s.error =>
         /\ node # "handle_error"
         /\ s.route \in {"none", "retry", "human", "auto"}
         /\ node \in Early => s.route \in {"none", "retry"}
         /\ node \in {"response_safety", "log", "end"} => s.route \in {"human", "auto"}
         /\ node = "suggest_questions" => s.route = "auto"
         /\ node = "rewrite_query" => s.iteration < MaxIterations

\* What the grader kept is what the answer is generated from.
Graded ==
    /\ s.complexity = "simple" => ~s.gradeRan
    /\ node \in {"classify_complexity", "transform_query"} => ~s.gradeRan
    /\ ~s.error =>
         /\ node = "grade_docs" => s.complexity # "simple"
         /\ node = "generate" /\ s.complexity # "simple" => s.gradeRan
         /\ node = "verify_facts" =>
              /\ s.complexity # "simple"
              /\ s.gradeRan
              /\ s.answer \in Written
              /\ trail.answeredIn = s.iteration
              /\ trail.answeredFrom = s.graded

\* A verified grounding with a score is this round's, on this round's documents.
Checked ==
    /\ trail.answeredIn = s.iteration
    /\ trail.verifiedIn = s.iteration
    /\ trail.answeredFrom = s.graded
    /\ trail.verifiedFrom = s.graded
    /\ s.graded # {}
    /\ s.claims = "bound"
    /\ s.answer \in {"gap", "text"}

Grounded ==
    /\ /\ ~s.error
       /\ node \in {"evaluate", "route_or_retry"}
       /\ s.grounding = "verified"
       /\ ~(s.factuality < 50)
       => Checked
    /\ ~s.error /\ node = "route_or_retry" =>
         /\ ~s.gap => ~KnowledgeGap(s)
         /\ s.judge # "broken" => trail.judgedIn = s.iteration

Earned ==
    /\ Checked
    /\ trail.judgedIn = s.iteration
    /\ ~(Cardinality(s.graded) < 2)
    /\ s.answer = "text"

Delivered ==
    /\ node = "response_safety" /\ s.route = "auto" => Earned
    /\ node \in {"suggest_questions", "log", "end"} /\ s.route = "auto" =>
         Earned /\ s.danger = {} /\ s.graded \cap Poisoned = {}

\* After an outage the request can only go on to a person.
Outages ==
    trail.outage # "none" =>
        /\ s.grounding = "not_verified"
        /\ ~s.error =>
             \/ node = "route_or_retry" /\ s.judge = "broken" /\ trail.outage = "judge"
             \/ node \in {"response_safety", "log"} \cup Final /\ s.route = "human"
        /\ trail.outage = "verify" /\ ~s.error => s.answer \in {"gap", "text", "refusal"}

Inv == TypeOK /\ Control /\ Graded /\ Grounded /\ Delivered /\ Outages

----------------------------------------------------------------------------
(* Each action preserves the invariant.                                    *)

\* A state with a new answer is a state.
LEMMA AnsweredType ==
  ASSUME NEW t \in GraphStates, NEW a \in Answers, NEW d \in SUBSET Dangers
  PROVE  [t EXCEPT !.answer = a, !.danger = d, !.generationError = FALSE] \in GraphStates
  BY ZenonT(40) DEF GraphStates

\* A skipped verification is a state.
LEMMA SkippedType ==
  ASSUME NEW t \in GraphStates
  PROVE  Skipped(t) \in GraphStates
<1>1. 0 \in 0..100
  OBVIOUS
<1> QED
  BY <1>1, ZenonT(40) DEF GraphStates, Skipped

\* An error travels on unchanged, towards handle_error.
LEMMA PassOnStep ==
  ASSUME Inv, PassOn
  PROVE  Inv'
<1> USE ConstantsAssumption
<1>1. TypeOK /\ Control /\ Graded /\ Grounded /\ Delivered /\ Outages
  BY DEF Inv
<1>2. TypeOK'
  <2>1. node' \in Nodes
    BY <1>1
    DEF PassOn, Return, Edge, Guarded, RouteAfterRetrieve, RouteAfterGenerate,
        RouteAfterVerifyFacts, ShouldRetry, AfterResponseSafety, TypeOK, Nodes, Final
  <2>2. s' \in GraphStates
    BY <1>1
    DEF PassOn, Return, Edge, Guarded, TypeOK, GraphStates, Answers, Written, Dangers
  <2>3. trail' \in Trails
    BY <1>1
    DEF PassOn, Return, Edge, Guarded, TypeOK, GraphStates, Trails, Rounds
  <2> QED
    BY <2>1, <2>2, <2>3 DEF TypeOK
<1>3. Control'
  BY <1>1
  DEF PassOn, Return, Edge, Guarded, RouteAfterRetrieve, RouteAfterGenerate,
      RouteAfterVerifyFacts, ShouldRetry, AfterResponseSafety, TypeOK, GraphStates, Trails,
      Rounds, Final, Early, Written, Control
<1>4. Graded'
  BY <1>1
  DEF PassOn, Return, Edge, Guarded, RouteAfterRetrieve, RouteAfterGenerate,
      RouteAfterVerifyFacts, ShouldRetry, AfterResponseSafety, TypeOK, GraphStates, Trails,
      Rounds, Final, Early, Written, Control, Graded
<1>5. Grounded'
  BY <1>1
  DEF PassOn, Return, Edge, Guarded, RouteAfterRetrieve, RouteAfterGenerate,
      RouteAfterVerifyFacts, ShouldRetry, AfterResponseSafety, TypeOK, GraphStates, Trails,
      Rounds, Final, Early, Written, Control, Graded, Checked, Grounded
<1>6. Delivered'
  BY <1>1
  DEF PassOn, Return, Edge, Guarded, RouteAfterRetrieve, RouteAfterGenerate,
      RouteAfterVerifyFacts, ShouldRetry, AfterResponseSafety, TypeOK, GraphStates, Trails,
      Rounds, Final, Early, Written, Control, Earned, Checked, Delivered
<1>7. Outages'
  BY <1>1
  DEF PassOn, Return, Edge, Guarded, RouteAfterRetrieve, RouteAfterGenerate,
      RouteAfterVerifyFacts, ShouldRetry, AfterResponseSafety, TypeOK, GraphStates, Trails,
      Rounds, Final, Early, Written, Control, Outages
<1> QED
  BY <1>2, <1>3, <1>4, <1>5, <1>6, <1>7 DEF Inv

\* An exception becomes the error state; only the gate's leads to log.
LEMMA NodeFailsStep ==
  ASSUME Inv, NodeFails
  PROVE  Inv'
<1> USE ConstantsAssumption
<1>1. TypeOK /\ Control /\ Graded /\ Grounded /\ Delivered /\ Outages
  BY DEF Inv
<1>2. TypeOK'
  <2>1. node' \in Nodes
    BY <1>1
    DEF NodeFails, Return, Edge, Guarded, RouteAfterRetrieve, RouteAfterGenerate,
        RouteAfterVerifyFacts, ShouldRetry, AfterResponseSafety, TypeOK, Nodes, Final
  <2>2. s' \in GraphStates
    <3>1. TRUE
      BY <1>1
    <3>2. [s EXCEPT !.error = TRUE, !.route = "error"] \in GraphStates
      BY <1>1, <3>1, ZenonT(40)
      DEF TypeOK, GraphStates
    <3> QED
      BY <1>1, <3>2
      DEF NodeFails, Return
  <2>3. trail' \in Trails
    BY <1>1
    DEF NodeFails, Return, Edge, Guarded, TypeOK, GraphStates, Trails, Rounds
  <2> QED
    BY <2>1, <2>2, <2>3 DEF TypeOK
<1>3. Control'
  BY <1>1
  DEF NodeFails, Return, Edge, Guarded, RouteAfterRetrieve, RouteAfterGenerate,
      RouteAfterVerifyFacts, ShouldRetry, AfterResponseSafety, TypeOK, GraphStates, Trails,
      Rounds, Final, Early, Written, Control
<1>4. Graded'
  BY <1>1
  DEF NodeFails, Return, Edge, Guarded, RouteAfterRetrieve, RouteAfterGenerate,
      RouteAfterVerifyFacts, ShouldRetry, AfterResponseSafety, TypeOK, GraphStates, Trails,
      Rounds, Final, Early, Written, Control, Graded
<1>5. Grounded'
  BY <1>1
  DEF NodeFails, Return, Edge, Guarded, RouteAfterRetrieve, RouteAfterGenerate,
      RouteAfterVerifyFacts, ShouldRetry, AfterResponseSafety, TypeOK, GraphStates, Trails,
      Rounds, Final, Early, Written, Control, Graded, Checked, Grounded
<1>6. Delivered'
  BY <1>1
  DEF NodeFails, Return, Edge, Guarded, RouteAfterRetrieve, RouteAfterGenerate,
      RouteAfterVerifyFacts, ShouldRetry, AfterResponseSafety, TypeOK, GraphStates, Trails,
      Rounds, Final, Early, Written, Control, Earned, Checked, Delivered
<1>7. Outages'
  BY <1>1
  DEF NodeFails, Return, Edge, Guarded, RouteAfterRetrieve, RouteAfterGenerate,
      RouteAfterVerifyFacts, ShouldRetry, AfterResponseSafety, TypeOK, GraphStates, Trails,
      Rounds, Final, Early, Written, Control, Outages
<1> QED
  BY <1>2, <1>3, <1>4, <1>5, <1>6, <1>7 DEF Inv

\* The first node decides whether the grader will run.
LEMMA ClassifyComplexityStep ==
  ASSUME Inv, ClassifyComplexity
  PROVE  Inv'
<1> USE ConstantsAssumption
<1>1. TypeOK /\ Control /\ Graded /\ Grounded /\ Delivered /\ Outages
  BY DEF Inv
<1>2. TypeOK'
  <2>1. node' \in Nodes
    BY <1>1
    DEF ClassifyComplexity, Enter, Return, Edge, TypeOK, Nodes, Guarded, Final
  <2>2. s' \in GraphStates
    BY <1>1
    DEF ClassifyComplexity, Enter, Return, Edge, TypeOK, GraphStates, Answers, Written, Dangers
  <2>3. trail' \in Trails
    BY <1>1
    DEF ClassifyComplexity, Enter, Return, Edge, TypeOK, GraphStates, Trails, Rounds
  <2> QED
    BY <2>1, <2>2, <2>3 DEF TypeOK
<1>3. Control'
  BY <1>1
  DEF ClassifyComplexity, Enter, Return, Edge, TypeOK, GraphStates, Trails, Rounds, Final, Early,
      Written, Control
<1>4. Graded'
  BY <1>1
  DEF ClassifyComplexity, Enter, Return, Edge, TypeOK, GraphStates, Trails, Rounds, Final, Early,
      Written, Control, Graded
<1>5. Grounded'
  BY <1>1
  DEF ClassifyComplexity, Enter, Return, Edge, TypeOK, GraphStates, Trails, Rounds, Final, Early,
      Written, Control, Graded, Checked, Grounded
<1>6. Delivered'
  BY <1>1
  DEF ClassifyComplexity, Enter, Return, Edge, TypeOK, GraphStates, Trails, Rounds, Final, Early,
      Written, Control, Earned, Checked, Delivered
<1>7. Outages'
  BY <1>1
  DEF ClassifyComplexity, Enter, Return, Edge, TypeOK, GraphStates, Trails, Rounds, Final, Early,
      Written, Control, Outages
<1> QED
  BY <1>2, <1>3, <1>4, <1>5, <1>6, <1>7 DEF Inv

\* The query is no part of the state that routing depends on.
LEMMA TransformQueryStep ==
  ASSUME Inv, TransformQuery
  PROVE  Inv'
<1> USE ConstantsAssumption
<1>1. TypeOK /\ Control /\ Graded /\ Grounded /\ Delivered /\ Outages
  BY DEF Inv
<1>2. TypeOK'
  <2>1. node' \in Nodes
    BY <1>1
    DEF TransformQuery, Enter, Return, Edge, TypeOK, Nodes, Guarded, Final
  <2>2. s' \in GraphStates
    BY <1>1
    DEF TransformQuery, Enter, Return, Edge, TypeOK, GraphStates, Answers, Written, Dangers
  <2>3. trail' \in Trails
    BY <1>1
    DEF TransformQuery, Enter, Return, Edge, TypeOK, GraphStates, Trails, Rounds
  <2> QED
    BY <2>1, <2>2, <2>3 DEF TypeOK
<1>3. Control'
  BY <1>1
  DEF TransformQuery, Enter, Return, Edge, TypeOK, GraphStates, Trails, Rounds, Final, Early,
      Written, Control
<1>4. Graded'
  BY <1>1
  DEF TransformQuery, Enter, Return, Edge, TypeOK, GraphStates, Trails, Rounds, Final, Early,
      Written, Control, Graded
<1>5. Grounded'
  BY <1>1
  DEF TransformQuery, Enter, Return, Edge, TypeOK, GraphStates, Trails, Rounds, Final, Early,
      Written, Control, Graded, Checked, Grounded
<1>6. Delivered'
  BY <1>1
  DEF TransformQuery, Enter, Return, Edge, TypeOK, GraphStates, Trails, Rounds, Final, Early,
      Written, Control, Earned, Checked, Delivered
<1>7. Outages'
  BY <1>1
  DEF TransformQuery, Enter, Return, Edge, TypeOK, GraphStates, Trails, Rounds, Final, Early,
      Written, Control, Outages
<1> QED
  BY <1>2, <1>3, <1>4, <1>5, <1>6, <1>7 DEF Inv

\* A retrieval opens a round's documents.
LEMMA RetrieveStep ==
  ASSUME Inv, Retrieve
  PROVE  Inv'
<1> USE ConstantsAssumption
<1>1. TypeOK /\ Control /\ Graded /\ Grounded /\ Delivered /\ Outages
  BY DEF Inv
<1>2. TypeOK'
  <2>1. node' \in Nodes
    BY <1>1
    DEF Retrieve, Enter, Return, Edge, RouteAfterRetrieve, TypeOK, Nodes, Guarded, Final
  <2>2. s' \in GraphStates
    BY <1>1
    DEF Retrieve, Enter, Return, Edge, TypeOK, GraphStates, Answers, Written, Dangers
  <2>3. trail' \in Trails
    BY <1>1
    DEF Retrieve, Enter, Return, Edge, TypeOK, GraphStates, Trails, Rounds
  <2> QED
    BY <2>1, <2>2, <2>3 DEF TypeOK
<1>3. Control'
  BY <1>1
  DEF Retrieve, Enter, Return, Edge, RouteAfterRetrieve, TypeOK, GraphStates, Trails, Rounds,
      Final, Early, Written, Control
<1>4. Graded'
  BY <1>1
  DEF Retrieve, Enter, Return, Edge, RouteAfterRetrieve, TypeOK, GraphStates, Trails, Rounds,
      Final, Early, Written, Control, Graded
<1>5. Grounded'
  BY <1>1
  DEF Retrieve, Enter, Return, Edge, RouteAfterRetrieve, TypeOK, GraphStates, Trails, Rounds,
      Final, Early, Written, Control, Graded, Checked, Grounded
<1>6. Delivered'
  BY <1>1
  DEF Retrieve, Enter, Return, Edge, RouteAfterRetrieve, TypeOK, GraphStates, Trails, Rounds,
      Final, Early, Written, Control, Earned, Checked, Delivered
<1>7. Outages'
  BY <1>1
  DEF Retrieve, Enter, Return, Edge, RouteAfterRetrieve, TypeOK, GraphStates, Trails, Rounds,
      Final, Early, Written, Control, Outages
<1> QED
  BY <1>2, <1>3, <1>4, <1>5, <1>6, <1>7 DEF Inv

\* A deadline leaves the graph with no answer.
LEMMA RetrieveTooLateStep ==
  ASSUME Inv, RetrieveTooLate
  PROVE  Inv'
<1> USE ConstantsAssumption
<1>1. TypeOK /\ Control /\ Graded /\ Grounded /\ Delivered /\ Outages
  BY DEF Inv
<1>2. TypeOK'
  <2>1. node' \in Nodes
    BY <1>1
    DEF RetrieveTooLate, Enter, TypeOK, Nodes, Guarded, Final
  <2>2. s' \in GraphStates
    BY <1>1
    DEF RetrieveTooLate, Enter, TypeOK, GraphStates, Answers, Written, Dangers
  <2>3. trail' \in Trails
    BY <1>1
    DEF RetrieveTooLate, Enter, TypeOK, GraphStates, Trails, Rounds
  <2> QED
    BY <2>1, <2>2, <2>3 DEF TypeOK
<1>3. Control'
  BY <1>1
  DEF RetrieveTooLate, Enter, TypeOK, GraphStates, Trails, Rounds, Final, Early, Written, Control
<1>4. Graded'
  BY <1>1
  DEF RetrieveTooLate, Enter, TypeOK, GraphStates, Trails, Rounds, Final, Early, Written, Control,
      Graded
<1>5. Grounded'
  BY <1>1
  DEF RetrieveTooLate, Enter, TypeOK, GraphStates, Trails, Rounds, Final, Early, Written, Control,
      Graded, Checked, Grounded
<1>6. Delivered'
  BY <1>1
  DEF RetrieveTooLate, Enter, TypeOK, GraphStates, Trails, Rounds, Final, Early, Written, Control,
      Earned, Checked, Delivered
<1>7. Outages'
  BY <1>1
  DEF RetrieveTooLate, Enter, TypeOK, GraphStates, Trails, Rounds, Final, Early, Written, Control,
      Outages
<1> QED
  BY <1>2, <1>3, <1>4, <1>5, <1>6, <1>7 DEF Inv

\* Grading happens on the complex path only.
LEMMA GradeDocsStep ==
  ASSUME Inv, GradeDocs
  PROVE  Inv'
<1> USE ConstantsAssumption
<1>1. TypeOK /\ Control /\ Graded /\ Grounded /\ Delivered /\ Outages
  BY DEF Inv
<1>p. PICK G \in SUBSET s.context :
         LET graded == [s EXCEPT !.graded = G, !.gradeRan = TRUE] IN
         Return(IF G # {} THEN graded
                ELSE [graded EXCEPT !.gap = TRUE, !.grounding = "not_verified", !.factuality = 0])
  BY DEF GradeDocs, Gradings, FinalizeGrade
<1>2. TypeOK'
  <2>1. node' \in Nodes
    BY <1>1, <1>p
    DEF GradeDocs, Enter, Return, Edge, TypeOK, Nodes, Guarded, Final
  <2>2. s' \in GraphStates
    <3>1. G \in SUBSET Docs /\ 0 \in 0..100
      BY <1>1, <1>p DEF TypeOK, GraphStates
    <3>2. [s EXCEPT !.graded = G, !.gradeRan = TRUE] \in GraphStates
      BY <1>1, <3>1, ZenonT(40)
      DEF TypeOK, GraphStates
    <3>3. [[s EXCEPT !.graded = G, !.gradeRan = TRUE] EXCEPT
              !.gap = TRUE, !.grounding = "not_verified", !.factuality = 0] \in GraphStates
      BY <1>1, <3>1, <3>2, ZenonT(40)
      DEF GraphStates
    <3> QED
      BY <1>1, <1>p, <3>2, <3>3
      DEF Return
  <2>3. trail' \in Trails
    BY <1>1, <1>p
    DEF GradeDocs, Enter, Return, Edge, TypeOK, GraphStates, Trails, Rounds
  <2> QED
    BY <2>1, <2>2, <2>3 DEF TypeOK
<1>3. Control'
  BY <1>1, <1>p
  DEF GradeDocs, Enter, Return, Edge, TypeOK, GraphStates, Trails, Rounds, Final, Early, Written,
      Control
<1>4. Graded'
  BY <1>1, <1>p
  DEF GradeDocs, Enter, Return, Edge, TypeOK, GraphStates, Trails, Rounds, Final, Early, Written,
      Control, Graded
<1>5. Grounded'
  BY <1>1, <1>p
  DEF GradeDocs, Enter, Return, Edge, TypeOK, GraphStates, Trails, Rounds, Final, Early, Written,
      Control, Graded, Checked, Grounded
<1>6. Delivered'
  BY <1>1, <1>p
  DEF GradeDocs, Enter, Return, Edge, TypeOK, GraphStates, Trails, Rounds, Final, Early, Written,
      Control, Earned, Checked, Delivered
<1>7. Outages'
  BY <1>1, <1>p
  DEF GradeDocs, Enter, Return, Edge, TypeOK, GraphStates, Trails, Rounds, Final, Early, Written,
      Control, Outages
<1> QED
  BY <1>2, <1>3, <1>4, <1>5, <1>6, <1>7 DEF Inv

\* An answer is tied to its round and to the documents it was given.
LEMMA GenerateStep ==
  ASSUME Inv, Generate
  PROVE  Inv'
<1> USE ConstantsAssumption
<1>1. TypeOK /\ Control /\ Graded /\ Grounded /\ Delivered /\ Outages
  BY DEF Inv
<1>p. PICK a \in Written, d \in SUBSET Dangers :
         LET t == [s EXCEPT !.answer = a, !.danger = IF a = "blank" THEN {} ELSE d,
                            !.generationError = FALSE]
         IN  Return(IF t.complexity = "simple" THEN Skipped(t) ELSE t)
  BY DEF Generate
<1>2. TypeOK'
  <2>1. node' \in Nodes
    BY <1>1, <1>p
    DEF Generate, Enter, Return, Edge, Skipped, Written, Dangers, RouteAfterGenerate, TypeOK,
        Nodes, Guarded, Final
  <2>2. s' \in GraphStates
    <3>1. /\ a \in Answers
          /\ (IF a = "blank" THEN {} ELSE d) \in SUBSET Dangers
          /\ 0 \in 0..100
      BY <1>1, <1>p DEF Answers
    <3>2. [s EXCEPT !.answer = a, !.danger = IF a = "blank" THEN {} ELSE d,
                     !.generationError = FALSE] \in GraphStates
      BY <1>1, <3>1, AnsweredType DEF TypeOK
    <3>3. Skipped([s EXCEPT !.answer = a, !.danger = IF a = "blank" THEN {} ELSE d,
                     !.generationError = FALSE]) \in GraphStates
      BY <1>1, <3>2, SkippedType DEF TypeOK
    <3> QED
      BY <1>1, <1>p, <3>2, <3>3
      DEF Return
  <2>3. trail' \in Trails
    <3>1. GenerationDocs(s) \in SUBSET Docs /\ s.iteration \in Rounds
      BY <1>1
      DEF TypeOK, GraphStates, GenerationDocs, Kept, Rounds
    <3>2. [trail EXCEPT !.answeredIn = s.iteration, !.answeredFrom = GenerationDocs(s)] \in Trails
      BY <1>1, <3>1, ZenonT(40)
      DEF TypeOK, Trails
    <3> QED
      BY <3>2
      DEF Generate
  <2> QED
    BY <2>1, <2>2, <2>3 DEF TypeOK
<1>3. Control'
  BY <1>1, <1>p
  DEF Generate, Enter, Return, Edge, Skipped, Written, Dangers, RouteAfterGenerate, TypeOK,
      GraphStates, Trails, Rounds, Final, Early, Control
<1>4. Graded'
  BY <1>1, <1>p
  DEF Generate, Enter, Return, Edge, Skipped, Written, Dangers, RouteAfterGenerate, TypeOK,
      GraphStates, Trails, Rounds, Final, Early, Control, Graded, GenerationDocs
<1>5. Grounded'
  BY <1>1, <1>p
  DEF Generate, Enter, Return, Edge, Skipped, Written, Dangers, RouteAfterGenerate, TypeOK,
      GraphStates, Trails, Rounds, Final, Early, Control, Graded, Checked, Grounded
<1>6. Delivered'
  BY <1>1, <1>p
  DEF Generate, Enter, Return, Edge, Skipped, Written, Dangers, RouteAfterGenerate, TypeOK,
      GraphStates, Trails, Rounds, Final, Early, Control, Earned, Checked, Delivered
<1>7. Outages'
  BY <1>1, <1>p
  DEF Generate, Enter, Return, Edge, Skipped, Written, Dangers, RouteAfterGenerate, TypeOK,
      GraphStates, Trails, Rounds, Final, Early, Control, Outages
<1> QED
  BY <1>2, <1>3, <1>4, <1>5, <1>6, <1>7 DEF Inv

\* Without a generator the request goes to a person.
LEMMA GenerateUnavailableStep ==
  ASSUME Inv, GenerateUnavailable
  PROVE  Inv'
<1> USE ConstantsAssumption
<1>1. TypeOK /\ Control /\ Graded /\ Grounded /\ Delivered /\ Outages
  BY DEF Inv
<1>2. TypeOK'
  <2>1. node' \in Nodes
    BY <1>1
    DEF GenerateUnavailable, Enter, Return, Edge, Skipped, RouteAfterGenerate, TypeOK, Nodes,
        Guarded, Final
  <2>2. s' \in GraphStates
    <3>1. "outage" \in Answers /\ 0 \in 0..100 /\ {} \in SUBSET Dangers
      BY <1>1 DEF Answers
    <3>2. Skipped(s) \in GraphStates
      BY <1>1, SkippedType DEF TypeOK
    <3>3. [Skipped(s) EXCEPT
              !.answer = "outage", !.danger = {}, !.quality = 0, !.relevance = 0,
              !.generationError = TRUE, !.route = "human"] \in GraphStates
      BY <1>1, <3>1, <3>2, ZenonT(40)
      DEF GraphStates
    <3> QED
      BY <1>1, <3>2, <3>3
      DEF GenerateUnavailable, Return
  <2>3. trail' \in Trails
    BY <1>1
    DEF GenerateUnavailable, Enter, Return, Edge, Skipped, TypeOK, GraphStates, Trails, Rounds
  <2> QED
    BY <2>1, <2>2, <2>3 DEF TypeOK
<1>3. Control'
  BY <1>1
  DEF GenerateUnavailable, Enter, Return, Edge, Skipped, RouteAfterGenerate, TypeOK, GraphStates,
      Trails, Rounds, Final, Early, Written, Control
<1>4. Graded'
  BY <1>1
  DEF GenerateUnavailable, Enter, Return, Edge, Skipped, RouteAfterGenerate, TypeOK, GraphStates,
      Trails, Rounds, Final, Early, Written, Control, Graded
<1>5. Grounded'
  BY <1>1
  DEF GenerateUnavailable, Enter, Return, Edge, Skipped, RouteAfterGenerate, TypeOK, GraphStates,
      Trails, Rounds, Final, Early, Written, Control, Graded, Checked, Grounded
<1>6. Delivered'
  BY <1>1
  DEF GenerateUnavailable, Enter, Return, Edge, Skipped, RouteAfterGenerate, TypeOK, GraphStates,
      Trails, Rounds, Final, Early, Written, Control, Earned, Checked, Delivered
<1>7. Outages'
  BY <1>1
  DEF GenerateUnavailable, Enter, Return, Edge, Skipped, RouteAfterGenerate, TypeOK, GraphStates,
      Trails, Rounds, Final, Early, Written, Control, Outages
<1> QED
  BY <1>2, <1>3, <1>4, <1>5, <1>6, <1>7 DEF Inv

\* verify_facts returns claims c, grounding g and score f, on the documents D.
VerdictIs(c, g, f, k, D) ==
    /\ s' = [s EXCEPT !.claims = c, !.grounding = g, !.factuality = f, !.skipped = k,
                      !.verifyError = FALSE]
    /\ node' = Edge(node, s')
    /\ trail' = [trail EXCEPT !.verifiedIn = s.iteration, !.verifiedFrom = D]
    /\ g = "verified" /\ ~(f < 50) =>
         c = "bound" /\ D = s.graded /\ D # {} /\ s.answer \in {"gap", "text"}

\* A verdict, whatever it is, belongs to this round.
LEMMA VerdictStep ==
  ASSUME Inv, Enter("verify_facts"),
         NEW c \in {"none", "bound", "unbound"},
         NEW g \in {"verified", "unsupported", "not_verified"},
         NEW f \in 0..100, NEW k \in BOOLEAN, NEW D \in SUBSET Docs,
         VerdictIs(c, g, f, k, D)
  PROVE  Inv'
<1> USE ConstantsAssumption
<1>1. TypeOK /\ Control /\ Graded /\ Grounded /\ Delivered /\ Outages
  BY DEF Inv
<1>2. TypeOK'
  <2>1. node' \in Nodes
    BY <1>1 DEF VerdictIs, Enter, Edge, RouteAfterVerifyFacts, Nodes, Guarded
  <2>2. s' \in GraphStates
    <3>1. [s EXCEPT !.claims = c, !.grounding = g, !.factuality = f, !.skipped = k,
                    !.verifyError = FALSE] \in GraphStates
      BY <1>1, ZenonT(40) DEF TypeOK, GraphStates
    <3> QED
      BY <3>1 DEF VerdictIs
  <2>3. trail' \in Trails
    <3>1. s.iteration \in Rounds
      BY <1>1 DEF TypeOK, GraphStates, Rounds
    <3>2. [trail EXCEPT !.verifiedIn = s.iteration, !.verifiedFrom = D] \in Trails
      BY <1>1, <3>1, ZenonT(40) DEF TypeOK, Trails
    <3> QED
      BY <3>2 DEF VerdictIs
  <2> QED
    BY <2>1, <2>2, <2>3 DEF TypeOK
<1>3. /\ node = "verify_facts" /\ ~s.error /\ ~s'.error
      /\ node' = "evaluate" /\ s'.verifyError = FALSE
      /\ s'.claims = c /\ s'.grounding = g /\ s'.factuality = f
      /\ s'.route = s.route /\ s'.iteration = s.iteration /\ s'.answer = s.answer
      /\ s'.graded = s.graded /\ s'.gradeRan = s.gradeRan /\ s'.complexity = s.complexity
  BY <1>1 DEF VerdictIs, Enter, Edge, RouteAfterVerifyFacts, Control, Early, TypeOK, GraphStates
<1>4. /\ trail'.outage = trail.outage /\ trail'.answeredIn = trail.answeredIn
      /\ trail'.answeredFrom = trail.answeredFrom /\ trail'.gateFailed = trail.gateFailed
      /\ trail'.verifiedIn = s.iteration /\ trail'.verifiedFrom = D
  BY <1>1 DEF VerdictIs, TypeOK, Trails
<1>5. Control'
  BY <1>1, <1>3, <1>4 DEF Control, Early
<1>6. Graded'
  BY <1>1, <1>3, <1>4 DEF Graded
<1>7. Grounded'
  BY <1>1, <1>3, <1>4 DEF VerdictIs, Grounded, Graded, Checked
<1>8. Delivered'
  BY <1>1, <1>3 DEF Delivered
<1>9. Outages'
  BY <1>1, <1>3, <1>4 DEF Outages, Final
<1> QED
  BY <1>2, <1>5, <1>6, <1>7, <1>8, <1>9 DEF Inv

\* What was not verified is never called verified.
LEMMA VerifySkipsStep ==
  ASSUME Inv, VerifySkips
  PROVE  Inv'
<1> USE ConstantsAssumption
<1>1. Inv /\ Enter("verify_facts")
  BY DEF VerifySkips
<1>t. /\ "none" \in {"none", "bound", "unbound"}
      /\ "not_verified" \in {"verified", "unsupported", "not_verified"}
      /\ 0 \in 0..100 /\ {} \in SUBSET Docs /\ TRUE \in BOOLEAN /\ FALSE \in BOOLEAN
  OBVIOUS
<1>2. CASE Return([Skipped(s) EXCEPT !.verifyError = FALSE])
  <2>1. VerdictIs("none", "not_verified", 0, TRUE, {})
    BY <1>1, <1>2 DEF VerdictIs, VerifySkips, Return, Skipped
  <2> QED
    BY <1>1, <1>t, <2>1, VerdictStep, ZenonT(30)
<1>3. CASE Verdict("none", "not_verified", 0)
  <2>1. VerdictIs("none", "not_verified", 0, FALSE, {})
    BY <1>1, <1>3 DEF VerdictIs, VerifySkips, Return, Verdict
  <2> QED
    BY <1>1, <1>t, <2>1, VerdictStep, ZenonT(30)
<1> QED
  BY <1>2, <1>3 DEF VerifySkips

\* A verdict is tied to its round and to the answer's own documents.
LEMMA VerifyFactsStep ==
  ASSUME Inv, VerifyFacts
  PROVE  Inv'
<1> USE ConstantsAssumption
<1>1. Inv /\ Enter("verify_facts") /\ Verifiable(s)
  BY DEF VerifyFacts
<1>2. /\ GenerationDocs(s) = s.graded
      /\ s.graded \in SUBSET Docs
      /\ s.graded # {}
      /\ s.answer \in {"gap", "text"}
  BY <1>1 DEF Inv, Graded, Enter, TypeOK, GraphStates, Verifiable, GenerationDocs
<1>3. ASSUME NEW c \in {"none", "bound", "unbound"},
             NEW g \in {"verified", "unsupported", "not_verified"}, NEW f \in 0..100,
             Verdict(c, g, f),
             g = "verified" /\ ~(f < 50) => c = "bound"
      PROVE  Inv'
  <2>1. VerdictIs(c, g, f, FALSE, s.graded)
    BY <1>1, <1>2, <1>3 DEF VerdictIs, VerifyFacts, Return, Verdict
  <2> QED
    BY <1>1, <1>2, <2>1, VerdictStep
<1>4. CASE Verdict("none", "verified", 0)
  BY <1>3, <1>4
<1>5. CASE Verdict("bound", "verified", 100)
  BY <1>3, <1>5
<1>6. CASE Verdict("bound", "not_verified", 100)
  BY <1>3, <1>6
<1>7. ASSUME NEW g \in {"unsupported", "not_verified"}, NEW f \in Scores \ {100},
             Verdict("unbound", g, f)
      PROVE  Inv'
  <2>1. f \in 0..100 /\ g \in {"verified", "unsupported", "not_verified"} /\ g # "verified"
    BY <1>7
  <2> QED
    BY <1>3, <1>7, <2>1
<1> QED
  BY <1>4, <1>5, <1>6, <1>7 DEF VerifyFacts

\* Without a verifier the request goes to a person.
LEMMA VerifyUnavailableStep ==
  ASSUME Inv, VerifyUnavailable
  PROVE  Inv'
<1> USE ConstantsAssumption
<1>1. TypeOK /\ Control /\ Graded /\ Grounded /\ Delivered /\ Outages
  BY DEF Inv
<1>2. TypeOK'
  <2>1. node' \in Nodes
    BY <1>1
    DEF VerifyUnavailable, Enter, Return, Edge, Skipped, Verifiable, RouteAfterVerifyFacts,
        TypeOK, Nodes, Guarded, Final
  <2>2. s' \in GraphStates
    <3>1. 0 \in 0..100
      BY <1>1
    <3>2. Skipped(s) \in GraphStates
      BY <1>1, SkippedType DEF TypeOK
    <3>3. [Skipped(s) EXCEPT !.verifyError = TRUE, !.route = "human"] \in GraphStates
      BY <1>1, <3>1, <3>2, ZenonT(40)
      DEF GraphStates
    <3> QED
      BY <1>1, <3>2, <3>3
      DEF VerifyUnavailable, Return
  <2>3. trail' \in Trails
    BY <1>1
    DEF VerifyUnavailable, Enter, Return, Edge, Skipped, Verifiable, TypeOK, GraphStates, Trails,
        Rounds
  <2> QED
    BY <2>1, <2>2, <2>3 DEF TypeOK
<1>3. Control'
  BY <1>1
  DEF VerifyUnavailable, Enter, Return, Edge, Skipped, Verifiable, RouteAfterVerifyFacts, TypeOK,
      GraphStates, Trails, Rounds, Final, Early, Written, Control
<1>4. Graded'
  BY <1>1
  DEF VerifyUnavailable, Enter, Return, Edge, Skipped, Verifiable, RouteAfterVerifyFacts, TypeOK,
      GraphStates, Trails, Rounds, Final, Early, Written, Control, Graded
<1>5. Grounded'
  BY <1>1
  DEF VerifyUnavailable, Enter, Return, Edge, Skipped, Verifiable, RouteAfterVerifyFacts, TypeOK,
      GraphStates, Trails, Rounds, Final, Early, Written, Control, Graded, Checked, Grounded
<1>6. Delivered'
  BY <1>1
  DEF VerifyUnavailable, Enter, Return, Edge, Skipped, Verifiable, RouteAfterVerifyFacts, TypeOK,
      GraphStates, Trails, Rounds, Final, Early, Written, Control, Earned, Checked, Delivered
<1>7. Outages'
  BY <1>1
  DEF VerifyUnavailable, Enter, Return, Edge, Skipped, Verifiable, RouteAfterVerifyFacts, TypeOK,
      GraphStates, Trails, Rounds, Final, Early, Written, Control, Outages
<1> QED
  BY <1>2, <1>3, <1>4, <1>5, <1>6, <1>7 DEF Inv

\* A score is tied to its round, and the gap is computed anew.
LEMMA EvaluateStep ==
  ASSUME Inv, Evaluate
  PROVE  Inv'
<1> USE ConstantsAssumption
<1>1. TypeOK /\ Control /\ Graded /\ Grounded /\ Delivered /\ Outages
  BY DEF Inv
<1>p. PICK q \in Scores \ {0}, r \in Relevances(s) :
         Return([s EXCEPT !.quality = q, !.relevance = r, !.judge = "ok", !.gap = KnowledgeGap(s)])
  BY DEF Evaluate
<1>2. TypeOK'
  <2>1. node' \in Nodes
    BY <1>1, <1>p
    DEF Evaluate, Enter, Return, Edge, TypeOK, Nodes, Guarded, Final
  <2>2. s' \in GraphStates
    <3>1. q \in 0..100 /\ r \in 0..100 /\ KnowledgeGap(s) \in BOOLEAN
      BY <1>1, <1>p DEF Relevances, KnowledgeGap
    <3>2. [s EXCEPT !.quality = q, !.relevance = r, !.judge = "ok", !.gap = KnowledgeGap(s)] \in GraphStates
      BY <1>1, <3>1, ZenonT(40)
      DEF TypeOK, GraphStates
    <3> QED
      BY <1>1, <1>p, <3>2
      DEF Return
  <2>3. trail' \in Trails
    BY <1>1, <1>p
    DEF Evaluate, Enter, Return, Edge, TypeOK, GraphStates, Trails, Rounds, Relevances
  <2> QED
    BY <2>1, <2>2, <2>3 DEF TypeOK
<1>3. Control'
  BY <1>1, <1>p
  DEF Evaluate, Enter, Return, Edge, TypeOK, GraphStates, Trails, Rounds, Final, Early, Written,
      Control
<1>4. Graded'
  BY <1>1, <1>p
  DEF Evaluate, Enter, Return, Edge, TypeOK, GraphStates, Trails, Rounds, Final, Early, Written,
      Control, Graded
<1>5. Grounded'
  <2>1. /\ s'.gap = KnowledgeGap(s) /\ s'.error = s.error /\ s'.iteration = s.iteration
        /\ s'.graded = s.graded /\ s'.context = s.context /\ s'.claims = s.claims
        /\ s'.answer = s.answer /\ s'.grounding = s.grounding /\ s'.factuality = s.factuality
    BY <1>1, <1>p DEF Return, TypeOK, GraphStates
  <2>2. node = "evaluate" /\ ~s.error /\ node' = "route_or_retry"
    BY <1>p DEF Evaluate, Enter, Return, Edge
  <2>3. /\ trail'.judgedIn = s.iteration
        /\ trail'.answeredIn = trail.answeredIn /\ trail'.verifiedIn = trail.verifiedIn
        /\ trail'.answeredFrom = trail.answeredFrom /\ trail'.verifiedFrom = trail.verifiedFrom
    BY <1>1 DEF Evaluate, TypeOK, Trails
  <2>4. KnowledgeGap(s)' <=> KnowledgeGap(s)
    BY <2>1 DEF KnowledgeGap, Kept
  <2>5. Checked' <=> Checked
    BY <2>1, <2>3 DEF Checked
  <2> QED
    BY <1>1, <2>1, <2>2, <2>3, <2>4, <2>5 DEF Grounded
<1>6. Delivered'
  BY <1>1, <1>p
  DEF Evaluate, Enter, Return, Edge, TypeOK, GraphStates, Trails, Rounds, Final, Early, Written,
      Control, Earned, Checked, Delivered
<1>7. Outages'
  BY <1>1, <1>p
  DEF Evaluate, Enter, Return, Edge, TypeOK, GraphStates, Trails, Rounds, Final, Early, Written,
      Control, Outages
<1> QED
  BY <1>2, <1>3, <1>4, <1>5, <1>6, <1>7 DEF Inv

\* Without a judge nothing counts as grounded.
LEMMA JudgeUnavailableStep ==
  ASSUME Inv, JudgeUnavailable
  PROVE  Inv'
<1> USE ConstantsAssumption
<1>1. TypeOK /\ Control /\ Graded /\ Grounded /\ Delivered /\ Outages
  BY DEF Inv
<1>2. TypeOK'
  <2>1. node' \in Nodes
    BY <1>1
    DEF JudgeUnavailable, Enter, Return, Edge, TypeOK, Nodes, Guarded, Final
  <2>2. s' \in GraphStates
    <3>1. 0 \in 0..100 /\ \A t : KnowledgeGap(t) \in BOOLEAN
      BY <1>1 DEF KnowledgeGap
    <3>2. [s EXCEPT !.quality = 0, !.relevance = 0, !.grounding = "not_verified",
                     !.factuality = 0, !.judge = "broken"] \in GraphStates
      BY <1>1, <3>1, ZenonT(40)
      DEF TypeOK, GraphStates
    <3>3. [[s EXCEPT !.quality = 0, !.relevance = 0, !.grounding = "not_verified",
                      !.factuality = 0, !.judge = "broken"] EXCEPT !.gap = KnowledgeGap(
               [s EXCEPT !.quality = 0, !.relevance = 0, !.grounding = "not_verified",
                         !.factuality = 0, !.judge = "broken"])] \in GraphStates
      BY <1>1, <3>1, <3>2, ZenonT(40)
      DEF GraphStates
    <3> QED
      BY <1>1, <3>2, <3>3
      DEF JudgeUnavailable, Return
  <2>3. trail' \in Trails
    BY <1>1
    DEF JudgeUnavailable, Enter, Return, Edge, TypeOK, GraphStates, Trails, Rounds
  <2> QED
    BY <2>1, <2>2, <2>3 DEF TypeOK
<1>3. Control'
  BY <1>1
  DEF JudgeUnavailable, Enter, Return, Edge, TypeOK, GraphStates, Trails, Rounds, Final, Early,
      Written, Control
<1>4. Graded'
  BY <1>1
  DEF JudgeUnavailable, Enter, Return, Edge, TypeOK, GraphStates, Trails, Rounds, Final, Early,
      Written, Control, Graded
<1>5. Grounded'
  BY <1>1
  DEF JudgeUnavailable, Enter, Return, Edge, TypeOK, GraphStates, Trails, Rounds, Final, Early,
      Written, Control, Graded, Checked, Grounded, KnowledgeGap, Kept
<1>6. Delivered'
  BY <1>1
  DEF JudgeUnavailable, Enter, Return, Edge, TypeOK, GraphStates, Trails, Rounds, Final, Early,
      Written, Control, Earned, Checked, Delivered
<1>7. Outages'
  BY <1>1
  DEF JudgeUnavailable, Enter, Return, Edge, TypeOK, GraphStates, Trails, Rounds, Final, Early,
      Written, Control, Outages
<1> QED
  BY <1>2, <1>3, <1>4, <1>5, <1>6, <1>7 DEF Inv

\* auto is given to checked and judged answers only.
LEMMA RouteOrRetryStep ==
  ASSUME Inv, RouteOrRetry
  PROVE  Inv'
<1> USE ConstantsAssumption
<1>1. TypeOK /\ Control /\ Graded /\ Grounded /\ Delivered /\ Outages
  BY DEF Inv
<1>2. TypeOK'
  <2>1. node' \in Nodes
    BY <1>1
    DEF RouteOrRetry, Enter, Return, Edge, Judged, MayRetry, ShouldRetry, TypeOK, Nodes, Guarded,
        Final
  <2>2. s' \in GraphStates
    <3>1. PICK v \in {"human", "auto", "retry"} : s' = [s EXCEPT !.route = v]
      BY DEF RouteOrRetry, Return
    <3> QED
      BY <1>1, <3>1 DEF TypeOK, GraphStates
  <2>3. trail' \in Trails
    BY <1>1
    DEF RouteOrRetry, Enter, Return, Edge, Judged, MayRetry, TypeOK, GraphStates, Trails, Rounds
  <2> QED
    BY <2>1, <2>2, <2>3 DEF TypeOK
<1>3. Control'
  BY <1>1
  DEF RouteOrRetry, Enter, Return, Edge, Judged, MayRetry, ShouldRetry, TypeOK, GraphStates,
      Trails, Rounds, Final, Early, Written, Control
<1>4. Graded'
  BY <1>1
  DEF RouteOrRetry, Enter, Return, Edge, Judged, MayRetry, ShouldRetry, TypeOK, GraphStates,
      Trails, Rounds, Final, Early, Written, Control, Graded
<1>5. Grounded'
  BY <1>1
  DEF RouteOrRetry, Enter, Return, Edge, Judged, MayRetry, ShouldRetry, TypeOK, GraphStates,
      Trails, Rounds, Final, Early, Written, Control, Graded, Checked, Grounded
<1>6. Delivered'
  BY <1>1
  DEF RouteOrRetry, Enter, Return, Edge, Judged, MayRetry, ShouldRetry, TypeOK, GraphStates,
      Trails, Rounds, Final, Early, Written, Control, Earned, Checked, Delivered, Grounded,
      GroundingAllowsAuto, KnowledgeGap, Kept
<1>7. Outages'
  BY <1>1
  DEF RouteOrRetry, Enter, Return, Edge, Judged, MayRetry, ShouldRetry, TypeOK, GraphStates,
      Trails, Rounds, Final, Early, Written, Control, Outages
<1> QED
  BY <1>2, <1>3, <1>4, <1>5, <1>6, <1>7 DEF Inv

\* A retry starts with no route but retry and within the bound.
LEMMA RewriteQueryStep ==
  ASSUME Inv, RewriteQuery
  PROVE  Inv'
<1> USE ConstantsAssumption
<1>1. TypeOK /\ Control /\ Graded /\ Grounded /\ Delivered /\ Outages
  BY DEF Inv
<1>2. TypeOK'
  <2>1. node' \in Nodes
    BY <1>1
    DEF RewriteQuery, Enter, Return, Edge, NextIteration, TypeOK, Nodes, Guarded, Final
  <2>2. s' \in GraphStates
    <3>1. /\ NextIteration(s) \in 0..MaxIterations
          /\ "none" \in Answers /\ 0 \in 0..100
          /\ {} \in SUBSET Docs /\ {} \in SUBSET Dangers
      BY <1>1 DEF RewriteQuery, Enter, Control, NextIteration, TypeOK, GraphStates, Answers
    <3>2. [s EXCEPT !.iteration = NextIteration(s), !.context = {}, !.graded = {},
                     !.answer = "none", !.danger = {}, !.claims = "none", !.factuality = 0,
                     !.skipped = FALSE, !.verifyError = FALSE, !.quality = 0,
                     !.relevance = 0] \in GraphStates
      BY <1>1, <3>1, ZenonT(40)
      DEF TypeOK, GraphStates
    <3> QED
      BY <1>1, <3>2
      DEF RewriteQuery, Return
  <2>3. trail' \in Trails
    BY <1>1
    DEF RewriteQuery, Enter, Return, Edge, NextIteration, TypeOK, GraphStates, Trails, Rounds
  <2> QED
    BY <2>1, <2>2, <2>3 DEF TypeOK
<1>3. Control'
  BY <1>1
  DEF RewriteQuery, Enter, Return, Edge, NextIteration, TypeOK, GraphStates, Trails, Rounds,
      Final, Early, Written, Control
<1>4. Graded'
  BY <1>1
  DEF RewriteQuery, Enter, Return, Edge, NextIteration, TypeOK, GraphStates, Trails, Rounds,
      Final, Early, Written, Control, Graded
<1>5. Grounded'
  BY <1>1
  DEF RewriteQuery, Enter, Return, Edge, NextIteration, TypeOK, GraphStates, Trails, Rounds,
      Final, Early, Written, Control, Graded, Checked, Grounded
<1>6. Delivered'
  BY <1>1
  DEF RewriteQuery, Enter, Return, Edge, NextIteration, TypeOK, GraphStates, Trails, Rounds,
      Final, Early, Written, Control, Earned, Checked, Delivered
<1>7. Outages'
  BY <1>1
  DEF RewriteQuery, Enter, Return, Edge, NextIteration, TypeOK, GraphStates, Trails, Rounds,
      Final, Early, Written, Control, Outages
<1> QED
  BY <1>2, <1>3, <1>4, <1>5, <1>6, <1>7 DEF Inv

\* The gate looks at the documents the answer came from.
LEMMA ResponseSafetyStep ==
  ASSUME Inv, ResponseSafety
  PROVE  Inv'
<1> USE ConstantsAssumption
<1>1. TypeOK /\ Control /\ Graded /\ Grounded /\ Delivered /\ Outages
  BY DEF Inv
<1>2. TypeOK'
  <2>1. node' \in Nodes
    BY <1>1
    DEF ResponseSafety, Enter, Return, Edge, Blank, AfterResponseSafety, TypeOK, Nodes, Guarded,
        Final
  <2>2. s' \in GraphStates
    <3>1. /\ "refusal" \in Answers /\ 0 \in 0..100
          /\ {} \in SUBSET Dangers /\ s.danger \ {"pii"} \in SUBSET Dangers
      BY <1>1 DEF TypeOK, GraphStates, Answers
    <3>2. [s EXCEPT !.answer = "refusal", !.danger = {}, !.route = "human",
                     !.quality = 0, !.relevance = 0, !.grounding = "not_verified",
                     !.factuality = 0] \in GraphStates
      BY <1>1, <3>1, ZenonT(40)
      DEF TypeOK, GraphStates
    <3>3. [s EXCEPT !.danger = @ \ {"pii"}] \in GraphStates
      BY <1>1, <3>1, <3>2, ZenonT(40)
      DEF TypeOK, GraphStates
    <3> QED
      BY <1>1, <3>2, <3>3
      DEF ResponseSafety, Return, TypeOK
  <2>3. trail' \in Trails
    BY <1>1
    DEF ResponseSafety, Enter, Return, Edge, Blank, TypeOK, GraphStates, Trails, Rounds
  <2> QED
    BY <2>1, <2>2, <2>3 DEF TypeOK
<1>3. Control'
  BY <1>1
  DEF ResponseSafety, Enter, Return, Edge, Blank, AfterResponseSafety, TypeOK, GraphStates,
      Trails, Rounds, Final, Early, Written, Control
<1>4. Graded'
  BY <1>1
  DEF ResponseSafety, Enter, Return, Edge, Blank, AfterResponseSafety, TypeOK, GraphStates,
      Trails, Rounds, Final, Early, Written, Control, Graded
<1>5. Grounded'
  BY <1>1
  DEF ResponseSafety, Enter, Return, Edge, Blank, AfterResponseSafety, TypeOK, GraphStates,
      Trails, Rounds, Final, Early, Written, Control, Graded, Checked, Grounded
<1>6. Delivered'
  BY <1>1
  DEF ResponseSafety, Enter, Return, Edge, Blank, AfterResponseSafety, TypeOK, GraphStates,
      Trails, Rounds, Final, Early, Written, Control, Earned, Checked, Delivered, Injected, Kept,
      Dangers
<1>7. Outages'
  BY <1>1
  DEF ResponseSafety, Enter, Return, Edge, Blank, AfterResponseSafety, TypeOK, GraphStates,
      Trails, Rounds, Final, Early, Written, Control, Outages
<1> QED
  BY <1>2, <1>3, <1>4, <1>5, <1>6, <1>7 DEF Inv

\* Follow-up questions change nothing the properties speak of.
LEMMA SuggestQuestionsStep ==
  ASSUME Inv, SuggestQuestions
  PROVE  Inv'
<1> USE ConstantsAssumption
<1>1. TypeOK /\ Control /\ Graded /\ Grounded /\ Delivered /\ Outages
  BY DEF Inv
<1>2. TypeOK'
  <2>1. node' \in Nodes
    BY <1>1
    DEF SuggestQuestions, Return, Edge, TypeOK, Nodes, Guarded, Final
  <2>2. s' \in GraphStates
    BY <1>1
    DEF SuggestQuestions, Return, Edge, TypeOK, GraphStates, Answers, Written, Dangers
  <2>3. trail' \in Trails
    BY <1>1
    DEF SuggestQuestions, Return, Edge, TypeOK, GraphStates, Trails, Rounds
  <2> QED
    BY <2>1, <2>2, <2>3 DEF TypeOK
<1>3. Control'
  BY <1>1
  DEF SuggestQuestions, Return, Edge, TypeOK, GraphStates, Trails, Rounds, Final, Early, Written,
      Control
<1>4. Graded'
  BY <1>1
  DEF SuggestQuestions, Return, Edge, TypeOK, GraphStates, Trails, Rounds, Final, Early, Written,
      Control, Graded
<1>5. Grounded'
  BY <1>1
  DEF SuggestQuestions, Return, Edge, TypeOK, GraphStates, Trails, Rounds, Final, Early, Written,
      Control, Graded, Checked, Grounded
<1>6. Delivered'
  BY <1>1
  DEF SuggestQuestions, Return, Edge, TypeOK, GraphStates, Trails, Rounds, Final, Early, Written,
      Control, Earned, Checked, Delivered
<1>7. Outages'
  BY <1>1
  DEF SuggestQuestions, Return, Edge, TypeOK, GraphStates, Trails, Rounds, Final, Early, Written,
      Control, Outages
<1> QED
  BY <1>2, <1>3, <1>4, <1>5, <1>6, <1>7 DEF Inv

\* The log changes nothing.
LEMMA LogStep ==
  ASSUME Inv, Log
  PROVE  Inv'
<1> USE ConstantsAssumption
<1>1. TypeOK /\ Control /\ Graded /\ Grounded /\ Delivered /\ Outages
  BY DEF Inv
<1>2. TypeOK'
  <2>1. node' \in Nodes
    BY <1>1
    DEF Log, Return, Edge, TypeOK, Nodes, Guarded, Final
  <2>2. s' \in GraphStates
    BY <1>1
    DEF Log, Return, Edge, TypeOK, GraphStates, Answers, Written, Dangers
  <2>3. trail' \in Trails
    BY <1>1
    DEF Log, Return, Edge, TypeOK, GraphStates, Trails, Rounds
  <2> QED
    BY <2>1, <2>2, <2>3 DEF TypeOK
<1>3. Control'
  BY <1>1
  DEF Log, Return, Edge, TypeOK, GraphStates, Trails, Rounds, Final, Early, Written, Control
<1>4. Graded'
  BY <1>1
  DEF Log, Return, Edge, TypeOK, GraphStates, Trails, Rounds, Final, Early, Written, Control,
      Graded
<1>5. Grounded'
  BY <1>1
  DEF Log, Return, Edge, TypeOK, GraphStates, Trails, Rounds, Final, Early, Written, Control,
      Graded, Checked, Grounded
<1>6. Delivered'
  BY <1>1
  DEF Log, Return, Edge, TypeOK, GraphStates, Trails, Rounds, Final, Early, Written, Control,
      Earned, Checked, Delivered
<1>7. Outages'
  BY <1>1
  DEF Log, Return, Edge, TypeOK, GraphStates, Trails, Rounds, Final, Early, Written, Control,
      Outages
<1> QED
  BY <1>2, <1>3, <1>4, <1>5, <1>6, <1>7 DEF Inv

\* A failed trace step leaves the graph with no answer.
LEMMA TraceFailsStep ==
  ASSUME Inv, TraceFails
  PROVE  Inv'
<1> USE ConstantsAssumption
<1>1. TypeOK /\ Control /\ Graded /\ Grounded /\ Delivered /\ Outages
  BY DEF Inv
<1>2. TypeOK'
  <2>1. node' \in Nodes
    BY <1>1
    DEF TraceFails, TypeOK, Nodes, Guarded, Final
  <2>2. s' \in GraphStates
    BY <1>1
    DEF TraceFails, TypeOK, GraphStates, Answers, Written, Dangers
  <2>3. trail' \in Trails
    BY <1>1
    DEF TraceFails, TypeOK, GraphStates, Trails, Rounds
  <2> QED
    BY <2>1, <2>2, <2>3 DEF TypeOK
<1>3. Control'
  BY <1>1
  DEF TraceFails, TypeOK, GraphStates, Trails, Rounds, Final, Early, Written, Control
<1>4. Graded'
  BY <1>1
  DEF TraceFails, TypeOK, GraphStates, Trails, Rounds, Final, Early, Written, Control, Graded
<1>5. Grounded'
  BY <1>1
  DEF TraceFails, TypeOK, GraphStates, Trails, Rounds, Final, Early, Written, Control, Graded,
      Checked, Grounded
<1>6. Delivered'
  BY <1>1
  DEF TraceFails, TypeOK, GraphStates, Trails, Rounds, Final, Early, Written, Control, Earned,
      Checked, Delivered
<1>7. Outages'
  BY <1>1
  DEF TraceFails, TypeOK, GraphStates, Trails, Rounds, Final, Early, Written, Control, Outages
<1> QED
  BY <1>2, <1>3, <1>4, <1>5, <1>6, <1>7 DEF Inv

\* An error ends as an escalation.
LEMMA HandleErrorStep ==
  ASSUME Inv, HandleError
  PROVE  Inv'
<1> USE ConstantsAssumption
<1>1. TypeOK /\ Control /\ Graded /\ Grounded /\ Delivered /\ Outages
  BY DEF Inv
<1>2. TypeOK'
  <2>1. node' \in Nodes
    BY <1>1
    DEF HandleError, Return, Edge, TypeOK, Nodes, Guarded, Final
  <2>2. s' \in GraphStates
    <3>1. "escalation" \in Answers /\ {} \in SUBSET Dangers
      BY <1>1 DEF Answers
    <3>2. [s EXCEPT !.answer = "escalation", !.danger = {}, !.route = "error_escalation"] \in GraphStates
      BY <1>1, <3>1, ZenonT(40)
      DEF TypeOK, GraphStates
    <3> QED
      BY <1>1, <3>2
      DEF HandleError, Return
  <2>3. trail' \in Trails
    BY <1>1
    DEF HandleError, Return, Edge, TypeOK, GraphStates, Trails, Rounds
  <2> QED
    BY <2>1, <2>2, <2>3 DEF TypeOK
<1>3. Control'
  BY <1>1
  DEF HandleError, Return, Edge, TypeOK, GraphStates, Trails, Rounds, Final, Early, Written,
      Control
<1>4. Graded'
  BY <1>1
  DEF HandleError, Return, Edge, TypeOK, GraphStates, Trails, Rounds, Final, Early, Written,
      Control, Graded
<1>5. Grounded'
  BY <1>1
  DEF HandleError, Return, Edge, TypeOK, GraphStates, Trails, Rounds, Final, Early, Written,
      Control, Graded, Checked, Grounded
<1>6. Delivered'
  BY <1>1
  DEF HandleError, Return, Edge, TypeOK, GraphStates, Trails, Rounds, Final, Early, Written,
      Control, Earned, Checked, Delivered
<1>7. Outages'
  BY <1>1
  DEF HandleError, Return, Edge, TypeOK, GraphStates, Trails, Rounds, Final, Early, Written,
      Control, Outages
<1> QED
  BY <1>2, <1>3, <1>4, <1>5, <1>6, <1>7 DEF Inv

----------------------------------------------------------------------------
(* The theorems.                                                           *)

\* The initial state satisfies the invariant.
LEMMA InitInv == Init => Inv
<1> SUFFICES ASSUME Init PROVE Inv
  OBVIOUS
<1> USE ConstantsAssumption
<1>1. TypeOK
  BY DEF Init, InitialState, TypeOK, GraphStates, Trails, Rounds, Nodes, Guarded, Final,
         Answers, Written, Dangers
<1>2. Control /\ Graded /\ Grounded /\ Delivered /\ Outages
  BY DEF Init, InitialState, Control, Graded, Grounded, Delivered, Outages, Early, Final
<1> QED
  BY <1>1, <1>2 DEF Inv

\* Every step preserves the invariant.
LEMMA NextInv == Inv /\ [Next]_vars => Inv'
<1> SUFFICES ASSUME Inv, [Next]_vars PROVE Inv'
  OBVIOUS
<1>1. CASE UNCHANGED vars
  BY <1>1 DEF vars, Inv, TypeOK, GraphStates, Trails, Control, Graded, Grounded, Checked,
              Earned, Delivered, Outages, KnowledgeGap, Kept
<1>2. CASE Next
  BY <1>2, PassOnStep, NodeFailsStep, ClassifyComplexityStep, TransformQueryStep, RetrieveStep,
     RetrieveTooLateStep, GradeDocsStep, GenerateStep, GenerateUnavailableStep, VerifySkipsStep,
     VerifyFactsStep, VerifyUnavailableStep, EvaluateStep, JudgeUnavailableStep,
     RouteOrRetryStep, RewriteQueryStep, ResponseSafetyStep, SuggestQuestionsStep, LogStep,
     TraceFailsStep, HandleErrorStep
  DEF Next
<1> QED
  BY <1>1, <1>2

\* The invariant holds in every state of every request.
LEMMA InvHolds == Spec => []Inv
  BY InitInv, NextInv, PTL DEF Spec

\* The state keeps its type; in particular no request of the graph retries more
\* than max_iterations times, whatever its models and stores do.
THEOREM TypeCorrectness == Spec => []TypeOK
<1>1. Inv => TypeOK
  BY DEF Inv
<1> QED
  BY <1>1, InvHolds, PTL

\* Whatever was tried before, an answer routed "auto" was generated, verified
\* and judged in its last round, on the same documents, none of them poisoned.
THEOREM AutoAnswersAreEarned == Spec => []AutoIsEarned
<1>1. Inv => AutoIsEarned
  BY DEF Inv, AutoIsEarned, Delivered, Earned, Checked
<1> QED
  BY <1>1, InvHolds, PTL

\* Once the generator, the verifier or the judge was unavailable, the request
\* ends with a person or as an error, and nothing is called grounded.
THEOREM OutagesFailClosed == Spec => []OutageFailsClosed
<1>1. Inv => OutageFailsClosed
  BY DEF Inv, OutageFailsClosed, Outages, Control, Final
<1> QED
  BY <1>1, InvHolds, PTL

\* An exception of any node but the gate ends in handle_error, through whatever
\* edges lie between.
THEOREM AllErrorsEscalate == Spec => []ErrorsEscalate
<1>1. Inv => ErrorsEscalate
  BY DEF Inv, ErrorsEscalate, Control, Early
<1> QED
  BY <1>1, InvHolds, PTL

\* No answer is generated from a document the grader rejected.
THEOREM RejectedDocsStayOut == Spec => []RejectedStaysOut
<1>1. Inv => RejectedStaysOut
  BY DEF Inv, RejectedStaysOut, Graded
<1> QED
  BY <1>1, InvHolds, PTL

\* Together: types, and what an answer without a person has earned.
THEOREM GraphIsSafe == Spec => []GraphSafety
<1>1. TypeOK /\ AutoIsEarned => GraphSafety
  BY DEF GraphSafety
<1> QED
  BY <1>1, TypeCorrectness, AutoAnswersAreEarned, PTL

\* Together: outages, exceptions and rejected documents.
THEOREM GraphFailsClosed == Spec => []FailsClosed
<1>1. OutageFailsClosed /\ ErrorsEscalate /\ RejectedStaysOut => FailsClosed
  BY DEF FailsClosed
<1> QED
  BY <1>1, OutagesFailClosed, AllErrorsEscalate, RejectedDocsStayOut, PTL

----------------------------------------------------------------------------
(* What liveness rests on: how many nodes a request has still to go        *)
(* through, at most.                                                       *)

\* The nodes of a round from n to its end, both included, on the longest way.
NodesAhead(n) ==
    CASE n = "classify_complexity" -> 11
      [] n = "transform_query" -> 10
      [] n = "retrieve" -> 9
      [] n = "grade_docs" -> 8
      [] n = "generate" -> 7
      [] n = "verify_facts" -> 6
      [] n = "evaluate" -> 5
      [] n = "route_or_retry" -> 4
      [] n = "rewrite_query" -> 3
      [] n = "response_safety" -> 3
      [] n = "suggest_questions" -> 2
      [] n \in {"log", "handle_error"} -> 1
      [] n \in Final -> 0

\* An error skips what is left of the round, and with it the retry.
NodesAheadOnError(n) ==
    CASE n = "transform_query" -> 3
      [] n \in {"retrieve", "generate", "route_or_retry"} -> 2
      [] n \in {"log", "handle_error"} -> 1
      [] n \in Final -> 0

\* Every retry that is left costs at most the seven nodes from retrieve to rewrite_query.
NodesLeft ==
    IF s.error THEN NodesAheadOnError(node)
    ELSE IF node \in Final THEN 0
    ELSE NodesAhead(node) + 7 * (MaxIterations - s.iteration)

\* No request starts with more, and none is ever below zero.
LEMMA NodesLeftBounds == Inv => NodesLeft \in 0..(7 * MaxIterations + 11)
<1> SUFFICES ASSUME Inv PROVE NodesLeft \in 0..(7 * MaxIterations + 11)
  OBVIOUS
<1> USE ConstantsAssumption
<1>1. s.iteration \in 0..MaxIterations /\ MaxIterations \in Nat /\ node \in Nodes
  BY DEF Inv, TypeOK, GraphStates
<1>2. ASSUME s.error PROVE NodesAheadOnError(node) \in 0..3
  BY <1>2 DEF Inv, Control, Final, NodesAheadOnError
<1>3. NodesAhead(node) \in 0..11
  BY <1>1 DEF Nodes, Guarded, Final, NodesAhead
<1>4. s.error \in BOOLEAN
  BY DEF Inv, TypeOK, GraphStates
<1> QED
  BY <1>1, <1>2, <1>3, <1>4 DEF NodesLeft

\* The number of each node.
LEMMA AheadOf ==
  /\ NodesAhead("classify_complexity") = 11
  /\ NodesAhead("transform_query") = 10
  /\ NodesAhead("retrieve") = 9
  /\ NodesAhead("grade_docs") = 8
  /\ NodesAhead("generate") = 7
  /\ NodesAhead("verify_facts") = 6
  /\ NodesAhead("evaluate") = 5
  /\ NodesAhead("route_or_retry") = 4
  /\ NodesAhead("rewrite_query") = 3
  /\ NodesAhead("response_safety") = 3
  /\ NodesAhead("suggest_questions") = 2
  /\ NodesAhead("log") = 1
  /\ NodesAhead("handle_error") = 1
  /\ NodesAhead("end") = 0
  BY DEF NodesAhead, Final

\* Every edge but the one that starts a new round leads on in this one.
LEMMA EdgesLeadOn ==
  ASSUME NEW n \in Nodes \ (Final \cup {"rewrite_query"}), NEW t
  PROVE  NodesAhead(Edge(n, t)) \in 0..10 /\ NodesAhead(Edge(n, t)) < NodesAhead(n)
<1>1. CASE n = "classify_complexity"
  BY <1>1, AheadOf DEF Edge
<1>2. CASE n = "transform_query"
  BY <1>2, AheadOf DEF Edge
<1>3. CASE n = "retrieve"
  BY <1>3, AheadOf DEF Edge, RouteAfterRetrieve
<1>4. CASE n = "grade_docs"
  BY <1>4, AheadOf DEF Edge
<1>5. CASE n = "generate"
  BY <1>5, AheadOf DEF Edge, RouteAfterGenerate
<1>6. CASE n = "verify_facts"
  BY <1>6, AheadOf DEF Edge, RouteAfterVerifyFacts
<1>7. CASE n = "evaluate"
  BY <1>7, AheadOf DEF Edge
<1>8. CASE n = "route_or_retry"
  BY <1>8, AheadOf DEF Edge, ShouldRetry
<1>9. CASE n = "response_safety"
  BY <1>9, AheadOf DEF Edge, AfterResponseSafety
<1>10. CASE n = "suggest_questions"
  BY <1>10, AheadOf DEF Edge
<1>11. CASE n \in {"log", "handle_error"}
  BY <1>11, AheadOf DEF Edge
<1> QED
  BY <1>1, <1>2, <1>3, <1>4, <1>5, <1>6, <1>7, <1>8, <1>9, <1>10, <1>11 DEF Nodes, Guarded, Final

\* The number of each node an error can be at.
LEMMA AheadOfError ==
  /\ NodesAheadOnError("transform_query") = 3
  /\ NodesAheadOnError("retrieve") = 2
  /\ NodesAheadOnError("generate") = 2
  /\ NodesAheadOnError("route_or_retry") = 2
  /\ NodesAheadOnError("log") = 1
  /\ NodesAheadOnError("handle_error") = 1
  BY DEF NodesAheadOnError, Final

\* What is ahead of an error that has just been set is less than what it skips.
LEMMA ErrorsLeadOn ==
  ASSUME NEW n \in Guarded, NEW t, t.error, t.route = "error"
  PROVE  NodesAheadOnError(Edge(n, t)) \in 0..3 /\ NodesAheadOnError(Edge(n, t)) < NodesAhead(n)
<1>1. CASE n = "classify_complexity"
  BY <1>1, AheadOf, AheadOfError DEF Edge
<1>2. CASE n = "transform_query"
  BY <1>2, AheadOf, AheadOfError DEF Edge
<1>3. CASE n = "retrieve"
  BY <1>3, AheadOf, AheadOfError DEF Edge, RouteAfterRetrieve
<1>4. CASE n = "grade_docs"
  BY <1>4, AheadOf, AheadOfError DEF Edge
<1>5. CASE n = "generate"
  BY <1>5, AheadOf, AheadOfError DEF Edge, RouteAfterGenerate
<1>6. CASE n = "verify_facts"
  BY <1>6, AheadOf, AheadOfError DEF Edge, RouteAfterVerifyFacts
<1>7. CASE n = "evaluate"
  BY <1>7, AheadOf, AheadOfError DEF Edge
<1>8. CASE n = "route_or_retry"
  BY <1>8, AheadOf, AheadOfError DEF Edge, ShouldRetry
<1>9. CASE n = "rewrite_query"
  BY <1>9, AheadOf, AheadOfError DEF Edge
<1>10. CASE n = "response_safety"
  BY <1>10, AheadOf, AheadOfError DEF Edge, AfterResponseSafety
<1> QED
  BY <1>1, <1>2, <1>3, <1>4, <1>5, <1>6, <1>7, <1>8, <1>9, <1>10 DEF Guarded

\* Whatever a node does, fewer are left.
LEMMA NodesLeftFall == Inv /\ Next => NodesLeft' < NodesLeft
<1> SUFFICES ASSUME Inv, Next PROVE NodesLeft' < NodesLeft
  OBVIOUS
<1> USE ConstantsAssumption
<1> DEFINE left == 7 * (MaxIterations - s.iteration)
<1>1. /\ s.iteration \in 0..MaxIterations
      /\ MaxIterations \in Nat
      /\ left \in Nat
      /\ s.error \in BOOLEAN
      /\ s \in GraphStates
      /\ node \in Nodes
  BY DEF Inv, TypeOK, GraphStates
<1> HIDE DEF left
<1>2. NodesAhead(node) \in 0..11
  BY <1>1 DEF Nodes, Guarded, Final, NodesAhead
<1>3. CASE PassOn
  <2>1. s' = s /\ node' = Edge(node, s) /\ s.error /\ node \in Guarded
    BY <1>3 DEF PassOn, Return
  <2>2. /\ node \in {"transform_query", "retrieve", "generate", "route_or_retry"}
        /\ s.route = "error"
    BY <2>1 DEF Inv, Control, Guarded, Final
  <2>3. \/ node = "transform_query" /\ node' = "retrieve"
        \/ node \in {"retrieve", "generate", "route_or_retry"} /\ node' = "handle_error"
    BY <2>1, <2>2 DEF Edge, RouteAfterRetrieve, RouteAfterGenerate, ShouldRetry
  <2>4. NodesAheadOnError(node') < NodesAheadOnError(node)
    BY <2>3, AheadOfError
  <2> QED
    BY <2>1, <2>4 DEF NodesLeft
<1>4. CASE NodeFails
  <2>1. PICK t : t = [s EXCEPT !.error = TRUE, !.route = "error"]
    OBVIOUS
  <2>2. s' = t /\ node' = Edge(node, t) /\ t.error /\ t.route = "error"
    BY <1>1, <1>4, <2>1 DEF NodeFails, Return, GraphStates
  <2>3. node \in Guarded /\ ~s.error /\ node \notin Final
    BY <1>4 DEF NodeFails, Guarded, Final
  <2>4. /\ NodesAheadOnError(node') \in 0..3
        /\ NodesAheadOnError(node') < NodesAhead(node)
    BY <2>2, <2>3, ErrorsLeadOn
  <2>5. NodesLeft' = NodesAheadOnError(node')
    BY <2>2 DEF NodesLeft
  <2>6. NodesLeft = NodesAhead(node) + left
    BY <2>3 DEF NodesLeft, left
  <2> QED
    BY <1>1, <1>2, <2>4, <2>5, <2>6
<1>5. CASE RewriteQuery
  <2>1. /\ ~s.error /\ node = "rewrite_query"
        /\ s'.iteration = s.iteration + 1 /\ s'.error = s.error
        /\ node' = "retrieve"
    BY <1>1, <1>5 DEF RewriteQuery, Enter, Return, Edge, NextIteration, GraphStates
  <2>2. s.iteration < MaxIterations
    BY <2>1 DEF Inv, Control
  <2> QED
    BY <1>1, <2>1, <2>2, AheadOf DEF NodesLeft, Final
\* A node that keeps the error flag and the round, and follows its edge.
<1> DEFINE Follows == /\ ~s.error
                      /\ s'.error = s.error
                      /\ s'.iteration = s.iteration
                      /\ node \in Nodes \ (Final \cup {"rewrite_query"})
                      /\ node' = Edge(node, s')
<1>6. ASSUME Follows PROVE NodesLeft' < NodesLeft
  <2>1. NodesAhead(node') \in 0..10 /\ NodesAhead(node') < NodesAhead(node)
    BY <1>6, EdgesLeadOn
  <2>2. NodesLeft = NodesAhead(node) + left
    BY <1>6 DEF NodesLeft, left
  <2>3. NodesLeft' = 0 \/ NodesLeft' = NodesAhead(node') + left
    BY <1>6 DEF NodesLeft, left
  <2> QED
    BY <1>1, <1>2, <2>1, <2>2, <2>3
\* A node that leaves the graph.
<1>7. ASSUME node' \in Final, node \notin Final PROVE NodesLeft' < NodesLeft
  <2>1. NodesLeft' = 0
    BY <1>7 DEF NodesLeft, NodesAheadOnError, Final
  <2>2. ASSUME s.error PROVE NodesAheadOnError(node) \in 1..3
    BY <1>7, <2>2 DEF Inv, Control, Final, NodesAheadOnError
  <2>3. NodesAhead(node) \in 1..11
    BY <1>1, <1>7 DEF Nodes, Guarded, Final, NodesAhead
  <2>4. CASE s.error
    BY <2>1, <2>2, <2>4 DEF NodesLeft
  <2>5. CASE ~s.error
    BY <1>1, <1>7, <2>1, <2>3, <2>5 DEF NodesLeft, left
  <2> QED
    BY <1>1, <2>4, <2>5
<1>8. CASE ClassifyComplexity
  <2>1. s'.error = s.error /\ s'.iteration = s.iteration /\ node' = Edge(node, s')
    BY <1>1, <1>8 DEF ClassifyComplexity, Return, GraphStates
  <2> QED
    BY <1>1, <1>6, <1>8, <2>1 DEF ClassifyComplexity, Enter, Final
<1>9. CASE TransformQuery
  <2>1. s'.error = s.error /\ s'.iteration = s.iteration /\ node' = Edge(node, s')
    BY <1>1, <1>9 DEF TransformQuery, Return, GraphStates
  <2> QED
    BY <1>1, <1>6, <1>9, <2>1 DEF TransformQuery, Enter, Final
<1>10. CASE Retrieve
  <2>1. s'.error = s.error /\ s'.iteration = s.iteration /\ node' = Edge(node, s')
    BY <1>1, <1>10 DEF Retrieve, Return, GraphStates
  <2> QED
    BY <1>1, <1>6, <1>10, <2>1 DEF Retrieve, Enter, Final
<1>11. CASE GradeDocs
  <2>1. PICK G \in SUBSET s.context :
           LET graded == [s EXCEPT !.graded = G, !.gradeRan = TRUE] IN
           Return(IF G # {} THEN graded
                  ELSE [graded EXCEPT !.gap = TRUE, !.grounding = "not_verified",
                                      !.factuality = 0])
    BY <1>11 DEF GradeDocs, Gradings, FinalizeGrade
  <2>2. s'.error = s.error /\ s'.iteration = s.iteration /\ node' = Edge(node, s')
    BY <1>1, <2>1 DEF Return, GraphStates
  <2> QED
    BY <1>1, <1>6, <1>11, <2>2 DEF GradeDocs, Enter, Final
<1>12. CASE Generate
  <2>1. PICK a \in Written, d \in SUBSET Dangers :
           LET t == [s EXCEPT !.answer = a, !.danger = IF a = "blank" THEN {} ELSE d,
                              !.generationError = FALSE]
           IN  Return(IF t.complexity = "simple" THEN Skipped(t) ELSE t)
    BY <1>12 DEF Generate
  <2>2. s'.error = s.error /\ s'.iteration = s.iteration /\ node' = Edge(node, s')
    BY <1>1, <2>1 DEF Return, Skipped, GraphStates
  <2> QED
    BY <1>1, <1>6, <1>12, <2>2 DEF Generate, Enter, Final
<1>13. CASE GenerateUnavailable
  <2>1. s'.error = s.error /\ s'.iteration = s.iteration /\ node' = Edge(node, s')
    BY <1>1, <1>13 DEF GenerateUnavailable, Return, Skipped, GraphStates
  <2> QED
    BY <1>1, <1>6, <1>13, <2>1 DEF GenerateUnavailable, Enter, Final
<1>14. CASE VerifySkips
  <2>1. s'.error = s.error /\ s'.iteration = s.iteration /\ node' = Edge(node, s')
    BY <1>1, <1>14 DEF VerifySkips, Return, Skipped, Verdict, GraphStates
  <2> QED
    BY <1>1, <1>6, <1>14, <2>1 DEF VerifySkips, Enter, Final
<1>15. CASE VerifyFacts
  <2>1. PICK c, g, f : Verdict(c, g, f)
    BY <1>15, Zenon DEF VerifyFacts
  <2>2. s'.error = s.error /\ s'.iteration = s.iteration /\ node' = Edge(node, s')
    BY <1>1, <2>1 DEF Verdict, Return, GraphStates
  <2> QED
    BY <1>1, <1>6, <1>15, <2>2 DEF VerifyFacts, Enter, Final
<1>16. CASE VerifyUnavailable
  <2>1. s'.error = s.error /\ s'.iteration = s.iteration /\ node' = Edge(node, s')
    BY <1>1, <1>16 DEF VerifyUnavailable, Return, Skipped, GraphStates
  <2> QED
    BY <1>1, <1>6, <1>16, <2>1 DEF VerifyUnavailable, Enter, Final
<1>17. CASE Evaluate
  <2>1. s'.error = s.error /\ s'.iteration = s.iteration /\ node' = Edge(node, s')
    BY <1>1, <1>17 DEF Evaluate, Return, GraphStates
  <2> QED
    BY <1>1, <1>6, <1>17, <2>1 DEF Evaluate, Enter, Final
<1>18. CASE JudgeUnavailable
  <2>1. s'.error = s.error /\ s'.iteration = s.iteration /\ node' = Edge(node, s')
    BY <1>1, <1>18 DEF JudgeUnavailable, Return, GraphStates
  <2> QED
    BY <1>1, <1>6, <1>18, <2>1 DEF JudgeUnavailable, Enter, Final
<1>19. CASE RouteOrRetry
  <2>1. s'.error = s.error /\ s'.iteration = s.iteration /\ node' = Edge(node, s')
    BY <1>1, <1>19 DEF RouteOrRetry, Return, GraphStates
  <2> QED
    BY <1>1, <1>6, <1>19, <2>1 DEF RouteOrRetry, Enter, Final
<1>20. CASE ResponseSafety
  <2>1. s'.error = s.error /\ s'.iteration = s.iteration /\ node' = Edge(node, s')
    BY <1>1, <1>20 DEF ResponseSafety, Return, GraphStates
  <2> QED
    BY <1>1, <1>6, <1>20, <2>1 DEF ResponseSafety, Enter, Final
<1>21. CASE SuggestQuestions
  <2>1. ~s.error
    BY <1>21 DEF SuggestQuestions, Inv, Control, Final
  <2> QED
    BY <1>1, <1>6, <1>21, <2>1 DEF SuggestQuestions, Return, Final
<1>22. CASE RetrieveTooLate \/ Log \/ TraceFails \/ HandleError
  BY <1>7, <1>22 DEF RetrieveTooLate, Log, TraceFails, HandleError, Enter, Return, Edge, Final
<1> QED
  BY <1>3, <1>4, <1>5, <1>8, <1>9, <1>10, <1>11, <1>12, <1>13, <1>14, <1>15, <1>16, <1>17, <1>18,
     <1>19, <1>20, <1>21, <1>22
  DEF Next

\* The half of RequestEnds that is a safety property: a request is never more than
\* 7 * max_iterations + 11 nodes long, because every node it runs, failing or not, leaves
\* fewer to run. That the next node runs at all is what FairSpec assumes.
THEOREM RequestsRunOut ==
  Spec => /\ [](NodesLeft \in 0..(7 * MaxIterations + 11))
          /\ [][NodesLeft' < NodesLeft]_vars
<1>1. Inv /\ [Next]_vars => [NodesLeft' < NodesLeft]_vars
  BY NodesLeftFall
<1> QED
  BY <1>1, InvHolds, NodesLeftBounds, PTL DEF Spec
=============================================================================
