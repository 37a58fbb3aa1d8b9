---------------------------- MODULE Answers_proofs --------------------------
(***************************************************************************)
(* Proofs about what a question is answered from: the caches of answers    *)
(* and of retrievers give out what belongs where it is filed, the agentic  *)
(* flow sends by itself only what is earned, and the articles and gaps of  *)
(* the knowledge base are sound, and a query ranks and shows its chunks    *)
(* fairly and once; for any number of requests, threads, conversations,    *)
(* publications, models, documents, drafts, editors and chunks.            *)
(***************************************************************************)
EXTENDS AnswerCache, RetrieverCache, AgenticAnswer, KnowledgeBase, HybridRetrieval,
        FiniteSetTheorems, SequenceTheorems, TLAPS

----------------------------------------------------------------------------
(* AnswerCache: Redis and the fallback of the process change places at any *)
(* time.                                                                   *)


Steps == {"new", "key", "queued", "turn", "answered", "served"}

Requests ==
    [thread : Threads, step : Steps, resolved : Nat, key : Nat,
     straddled : BOOLEAN, raced : BOOLEAN, made : Nat, context : BOOLEAN]

Talks == [retriever : Nat, turns : SUBSET Questioners]

\* Entries differ by their keys.
Keyed(S) == \A e, f \in S : e.key = f.key => e = f

CacheTypes ==
    /\ asked \in [Questioners -> Requests]
    /\ talk \in [Threads -> Talks]
    /\ generation \in 1 .. MaxGeneration
    /\ link \in {"up", "waiting", "due"}
    /\ Keyed(inRedis) /\ Keyed(inProcess)

\* Nothing refers to a generation that is not published yet.
NotAhead(q) ==
    asked[q].resolved <= generation /\ asked[q].key <= generation /\ asked[q].made <= generation

\* The retriever of a conversation is never older than what its requests
\* resolved, and a key equals that or the request knows that it does not.
GenerationKnown(q) ==
    /\ asked[q].step # "new" => asked[q].resolved <= talk[asked[q].thread].retriever
    /\ asked[q].key # NoCacheKey => asked[q].straddled = TRUE \/ asked[q].key = asked[q].resolved
    /\ asked[q].step \in {"turn", "answered"} => asked[q].resolved <= asked[q].made

\* A key is chosen with the look-up, and what is answered is in the history.
Recorded(q) ==
    /\ asked[q].step \in {"new", "key"} => asked[q].key = NoCacheKey
    /\ asked[q].step \in {"answered", "served"} => q \in talk[asked[q].thread].turns

Unraced(q) == asked[q].key # NoCacheKey /\ asked[q].raced = FALSE

\* A request that chose a key without a race is alone in a conversation
\* without turns until its own begins ...
Alone(q) ==
    asked[q].step = "queued" /\ Unraced(q) =>
        /\ talk[asked[q].thread].turns = {}
        /\ \A p \in Questioners \ {q} :
              asked[p].thread = asked[q].thread => asked[p].step = "new"

\* ... and its answer knows no history.
Contextless(q) ==
    asked[q].step \in {"turn", "answered"} /\ Unraced(q) => asked[q].context = FALSE

RequestGood(q) == NotAhead(q) /\ GenerationKnown(q) /\ Recorded(q) /\ Alone(q) /\ Contextless(q)

RetrieversGood == \A t \in Threads : talk[t].retriever \in 1 .. generation

\* What is filed.
Filed == inRedis \cup inProcess
EntriesGood == \A e \in Filed : (e.made >= e.key \/ e.straddled) /\ (e.context => e.raced)

CacheInv ==
    CacheTypes /\ RetrieversGood /\ (\A q \in Questioners : RequestGood(q)) /\ EntriesGood

----------------------------------------------------------------------------

LEMMA CacheInitInv == CacheInit => CacheInv
  <1> SUFFICES ASSUME CacheInit PROVE CacheInv
    OBVIOUS
  <1>1. CacheTypes
    <2>1. ASSUME NEW q \in Questioners PROVE asked[q] \in Requests
      <3>1. asked[q] \in [thread : Threads, step : {"new"}, resolved : {0}, key : {NoCacheKey},
                          straddled : {FALSE}, raced : {FALSE}, made : {0}, context : {FALSE}]
        BY DEF CacheInit
      <3>2. {0} \subseteq Nat /\ NoCacheKey \in Nat /\ "new" \in Steps
        BY DEF Steps, NoCacheKey
      <3>3. QED
        BY <3>1, <3>2 DEF Requests
    <2>2. asked \in [Questioners -> Requests]
      BY <2>1 DEF CacheInit
    <2>3. talk \in [Threads -> Talks]
      BY DEF CacheInit, Talks
    <2>4. QED
      BY <2>2, <2>3, AnswerCacheAssumption DEF CacheInit, CacheTypes, Keyed
  <1>2. ASSUME NEW q \in Questioners PROVE RequestGood(q)
    <2>1. /\ asked[q].step = "new" /\ asked[q].key = 0 /\ asked[q].resolved = 0
          /\ asked[q].made = 0 /\ generation = 1
      BY DEF CacheInit, NoCacheKey
    <2>2. QED
      BY <2>1 DEF RequestGood, NotAhead, GenerationKnown, Recorded, Alone, Contextless, Unraced,
                  NoCacheKey
  <1>3. EntriesGood
    BY DEF CacheInit, EntriesGood, Filed
  <1>4. QED
    BY <1>1, <1>2, <1>3 DEF CacheInit, CacheInv, RetrieversGood

LEMMA LinkType ==
  ASSUME link \in {"up", "waiting", "due"}
  PROVE  LinkAfter \in {"up", "waiting", "due"}
  BY DEF LinkAfter

\* Filing replaces what was under the key.
LEMMA PutKeeps ==
  ASSUME CacheTypes, EntriesGood, NEW e, Put(e),
         e.made >= e.key \/ e.straddled, e.context => e.raced
  PROVE  Keyed(inRedis)' /\ Keyed(inProcess)' /\ EntriesGood' /\ link' \in {"up", "waiting", "due"}
  <1> DEFINE Replaced(S) == {x \in S : x.key # e.key} \cup {e}
  <1>1. \/ inRedis' = Replaced(inRedis) /\ inProcess' = inProcess
        \/ inProcess' = Replaced(inProcess) /\ inRedis' = inRedis
    BY DEF Put
  <1>2. \A S : Keyed(S) => Keyed(Replaced(S))
    BY DEF Keyed
  <1>3. Keyed(inRedis') /\ Keyed(inProcess')
    BY <1>1, <1>2 DEF CacheTypes
  <1>4. Filed' \subseteq Filed \cup {e}
    BY <1>1 DEF Filed
  <1>5. EntriesGood'
    BY <1>4 DEF EntriesGood
  <1>6. QED
    BY <1>3, <1>5, LinkType DEF Keyed, Put, CacheTypes

\* Nothing is filed, and what is kept was there.
LEMMA FewerKeeps ==
  ASSUME CacheTypes, EntriesGood, inRedis' \subseteq inRedis, inProcess' \subseteq inProcess
  PROVE  Keyed(inRedis)' /\ Keyed(inProcess)' /\ EntriesGood'
  BY DEF CacheTypes, Keyed, EntriesGood, Filed

\* Only the step of a request changes.
LEMMA GoesType ==
  ASSUME CacheTypes, NEW q \in Questioners, NEW s \in Steps, Goes(q, s)
  PROVE  /\ asked' \in [Questioners -> Requests]
         /\ asked'[q] = [asked[q] EXCEPT !.step = s]
         /\ \A p \in Questioners \ {q} : asked'[p] = asked[p]
  <1>1. [asked[q] EXCEPT !.step = s] \in Requests
    BY DEF CacheTypes, Requests
  <1>2. asked' = [asked EXCEPT ![q] = [asked[q] EXCEPT !.step = s]]
    BY DEF Goes
  <1>3. QED
    BY <1>1, <1>2 DEF CacheTypes

\* A request that others' steps pass by.
PassedBy(p) ==
    /\ asked'[p].thread = asked[p].thread /\ asked'[p].step = asked[p].step
    /\ asked'[p].resolved = asked[p].resolved /\ asked'[p].key = asked[p].key
    /\ asked'[p].straddled = asked[p].straddled /\ asked'[p].made = asked[p].made
    /\ asked'[p].context = asked[p].context
    /\ asked'[p].raced = asked[p].raced \/ asked'[p].raced = TRUE

\* Conversations only get newer retrievers and more turns.
TalksGrow ==
    \A t \in Threads : talk[t].retriever <= talk'[t].retriever /\ talk[t].turns \subseteq talk'[t].turns

LEMMA PassedByKeeps ==
  ASSUME CacheInv, CacheTypes', NEW p \in Questioners, PassedBy(p), TalksGrow, generation <= generation'
  PROVE  NotAhead(p)' /\ GenerationKnown(p)' /\ Recorded(p)' /\ Contextless(p)'
  <1>1. asked[p].thread \in Threads /\ {asked[p].resolved, asked[p].key, asked[p].made} \subseteq Nat
    BY DEF CacheInv, CacheTypes, Requests
  <1>2. /\ talk[asked[p].thread].retriever \in Nat /\ talk'[asked[p].thread].retriever \in Nat
        /\ generation \in Nat /\ generation' \in Nat
    BY <1>1, AnswerCacheAssumption DEF CacheInv, CacheTypes, Talks
  <1>3. RequestGood(p)
    BY DEF CacheInv
  <1>4. NotAhead(p)'
    BY <1>1, <1>2, <1>3 DEF PassedBy, RequestGood, NotAhead
  <1>5. GenerationKnown(p)'
    BY <1>1, <1>2, <1>3 DEF PassedBy, RequestGood, GenerationKnown, TalksGrow
  <1>6. Recorded(p)'
    BY <1>1, <1>3 DEF PassedBy, RequestGood, Recorded, TalksGrow
  <1>7. Contextless(p)'
    BY <1>3 DEF PassedBy, RequestGood, Contextless, Unraced
  <1>8. QED
    BY <1>4, <1>5, <1>6, <1>7


\* A step of one request, in its own conversation only, passes the others by.
LEMMA OthersKept ==
  ASSUME CacheInv, CacheTypes', NEW q \in Questioners, asked[q].step # "new",
         asked'[q].thread = asked[q].thread,
         \A p \in Questioners \ {q} : asked'[p] = asked[p],
         TalksGrow, \A t \in Threads \ {asked[q].thread} : talk'[t].turns = talk[t].turns,
         generation' = generation
  PROVE  \A p \in Questioners \ {q} : RequestGood(p)'
  <1> SUFFICES ASSUME NEW p \in Questioners \ {q} PROVE RequestGood(p)'
    OBVIOUS
  <1>1. /\ asked[p].thread \in Threads /\ RequestGood(p) /\ PassedBy(p)
        /\ generation <= generation'
    BY AnswerCacheAssumption DEF CacheInv, CacheTypes, Requests, PassedBy
  <1>2. Alone(p)'
    <2> SUFFICES ASSUME asked[p].step = "queued", Unraced(p)
                 PROVE  /\ talk'[asked[p].thread].turns = {}
                        /\ \A r \in Questioners \ {p} :
                              asked'[r].thread = asked[p].thread => asked'[r].step = "new"
      BY DEF Alone, Unraced
    <2>1. /\ talk[asked[p].thread].turns = {}
          /\ \A r \in Questioners \ {p} : asked[r].thread = asked[p].thread => asked[r].step = "new"
      BY <1>1 DEF RequestGood, Alone
    <2>2. asked[p].thread # asked[q].thread
      BY <2>1
    <2>3. QED
      BY <1>1, <2>1, <2>2
  <1>3. NotAhead(p)' /\ GenerationKnown(p)' /\ Recorded(p)' /\ Contextless(p)'
    BY <1>1, PassedByKeeps
  <1>4. QED
    BY <1>2, <1>3 DEF RequestGood

\* What touches neither requests nor conversations passes all by.
LEMMA GlobalsKeep ==
  ASSUME CacheInv, CacheTypes', UNCHANGED <<asked, talk>>, generation <= generation'
  PROVE  \A p \in Questioners : RequestGood(p)'
  <1> SUFFICES ASSUME NEW p \in Questioners PROVE RequestGood(p)'
    OBVIOUS
  <1>1. RequestGood(p) /\ PassedBy(p) /\ TalksGrow
    BY AnswerCacheAssumption DEF CacheInv, CacheTypes, Talks, PassedBy, TalksGrow
  <1>2. NotAhead(p)' /\ GenerationKnown(p)' /\ Recorded(p)' /\ Contextless(p)'
    BY <1>1, PassedByKeeps
  <1>3. QED
    BY <1>1, <1>2 DEF RequestGood, Alone, Unraced

\* A request that goes on without a turn: around the cache, or at its end.
LEMMA GoesOnKeeps ==
  ASSUME CacheInv, CacheTypes', NEW q \in Questioners, NEW s \in {"queued", "served"}, Goes(q, s),
         \/ s = "queued" /\ asked[q].step = "key"
         \/ s = "served" /\ asked[q].step = "answered",
         UNCHANGED <<talk, generation>>
  PROVE  RetrieversGood' /\ \A p \in Questioners : RequestGood(p)'
  <1>1. asked[q] \in Requests /\ RequestGood(q) /\ s \in Steps
    BY DEF CacheInv, CacheTypes, Steps
  <1>2. asked'[q] = [asked[q] EXCEPT !.step = s] /\ \A p \in Questioners \ {q} : asked'[p] = asked[p]
    BY <1>1, GoesType DEF CacheInv
  <1>3. /\ asked'[q].step = s /\ asked'[q].thread = asked[q].thread
        /\ asked'[q].resolved = asked[q].resolved /\ asked'[q].key = asked[q].key
        /\ asked'[q].made = asked[q].made /\ asked'[q].straddled = asked[q].straddled
    BY <1>1, <1>2 DEF Requests
  <1>4. TalksGrow /\ RetrieversGood'
    BY AnswerCacheAssumption DEF TalksGrow, RetrieversGood, CacheInv, CacheTypes, Talks
  <1>5. \A p \in Questioners \ {q} : RequestGood(p)'
    BY <1>2, <1>3, <1>4, OthersKept
  <1>6. RequestGood(q)'
    BY <1>1, <1>3
    DEF RequestGood, NotAhead, GenerationKnown, Recorded, Alone, Contextless, Unraced
  <1>7. QED
    BY <1>4, <1>5, <1>6

----------------------------------------------------------------------------

LEMMA CacheStep == CacheInv /\ [CacheNext]_cacheVars => CacheInv'
  <1> SUFFICES ASSUME CacheInv, [CacheNext]_cacheVars
               PROVE  CacheInv'
    OBVIOUS
  <1> USE DEF CacheInv
  <1>1. ASSUME NEW q \in Questioners, ResolveRetriever(q) PROVE CacheInv'
    <2> DEFINE t == asked[q].thread
    <2>1. /\ asked[q] \in Requests /\ t \in Threads /\ talk[t] \in Talks
          /\ generation \in Nat \ {0} /\ asked[q].step = "new"
      BY <1>1, AnswerCacheAssumption DEF CacheTypes, Requests, ResolveRetriever
    <2>2. talk' = [talk EXCEPT ![t] = [talk[t] EXCEPT !.retriever = generation]]
      BY <1>1 DEF ResolveRetriever
    <2>3. [talk[t] EXCEPT !.retriever = generation] \in Talks
      BY <2>1 DEF Talks
    <2>4. asked'[q] = [asked[q] EXCEPT !.step = "key", !.resolved = generation]
      BY <1>1 DEF ResolveRetriever
    <2>5. \A p \in Questioners \ {q} :
             asked'[p] = IF asked[p].thread = t THEN [asked[p] EXCEPT !.raced = TRUE] ELSE asked[p]
      BY <1>1 DEF ResolveRetriever
    <2>6. asked' \in [Questioners -> Requests]
      <3>1. asked'[q] \in Requests
        BY <2>1, <2>4 DEF Requests, Steps
      <3>2. \A p \in Questioners \ {q} : asked'[p] \in Requests
        <4> SUFFICES ASSUME NEW p \in Questioners \ {q} PROVE asked'[p] \in Requests
          OBVIOUS
        <4>1. asked[p] \in Requests /\ [asked[p] EXCEPT !.raced = TRUE] \in Requests
          BY DEF CacheTypes, Requests
        <4>2. QED
          BY <2>5, <4>1
      <3>3. asked' = [p \in Questioners |-> asked'[p]]
        BY <1>1 DEF ResolveRetriever
      <3>4. QED
        BY <3>1, <3>2, <3>3
    <2>7. UNCHANGED <<generation, link, inRedis, inProcess>>
      BY <1>1 DEF ResolveRetriever
    <2>8. CacheTypes' /\ EntriesGood'
      BY <2>2, <2>3, <2>6, <2>7, FewerKeeps DEF CacheTypes
    <2>9. \A d \in Threads : talk'[d].turns = talk[d].turns /\ talk'[d].retriever >= talk[d].retriever
      BY <2>1, <2>2 DEF CacheTypes, Talks, RetrieversGood
    <2>10. /\ asked'[q].step = "key" /\ asked'[q].resolved = generation
           /\ asked'[q].thread = t /\ asked'[q].key = asked[q].key
           /\ asked'[q].made = asked[q].made /\ asked'[q].straddled = asked[q].straddled
      BY <2>1, <2>4 DEF Requests
    <2>11. ASSUME NEW p \in Questioners \ {q}
           PROVE  PassedBy(p) /\ (asked[p].thread = t => asked'[p].raced = TRUE)
      <3>1. asked[p] \in Requests
        BY DEF CacheTypes
      <3>2. CASE asked[p].thread = t
        BY <2>5, <3>1, <3>2 DEF Requests, PassedBy
      <3>3. CASE asked[p].thread # t
        BY <2>5, <3>3 DEF PassedBy
      <3>4. QED
        BY <3>2, <3>3
    <2>12. TalksGrow /\ RetrieversGood'
      BY <2>1, <2>2, <2>7, <2>9 DEF TalksGrow, RetrieversGood, CacheTypes, Talks
    <2>13. ASSUME NEW p \in Questioners \ {q} PROVE RequestGood(p)'
      <3>1. asked[p].thread \in Threads /\ RequestGood(p) /\ PassedBy(p)
        BY <2>11 DEF CacheTypes, Requests
      <3>2. Alone(p)'
        <4>1. CASE asked[p].thread = t
          BY <2>11, <4>1 DEF Alone, Unraced
        <4>2. CASE asked[p].thread # t
          <5>1. talk'[asked[p].thread].turns = talk[asked[p].thread].turns
            BY <2>9, <3>1
          <5>2. \A r \in Questioners \ {p} :
                   asked'[r].thread = asked[p].thread =>
                      asked[r].thread = asked[p].thread /\ asked'[r].step = asked[r].step
            BY <2>10, <2>11, <4>2 DEF PassedBy
          <5>3. QED
            BY <3>1, <5>1, <5>2 DEF Alone, Unraced, RequestGood, PassedBy
        <4>3. QED
          BY <4>1, <4>2
      <3>3. CacheTypes' /\ generation <= generation'
        BY <2>1, <2>7, <2>8
      <3>4. NotAhead(p)' /\ GenerationKnown(p)' /\ Recorded(p)' /\ Contextless(p)'
        BY <3>1, <3>3, <2>12, PassedByKeeps
      <3>5. QED
        BY <3>2, <3>4 DEF RequestGood
    <2>14. RequestGood(q)'
      <3>1. talk'[t].retriever = generation /\ asked[q].key = NoCacheKey /\ asked[q].made <= generation
        BY <2>1, <2>2 DEF CacheTypes, Talks, RequestGood, Recorded, NotAhead
      <3>2. QED
        BY <2>1, <2>7, <2>10, <3>1
        DEF RequestGood, NotAhead, GenerationKnown, Recorded, Alone, Contextless, NoCacheKey
    <2>15. QED
      BY <2>8, <2>12, <2>13, <2>14
  <1>2. ASSUME NEW q \in Questioners, LookUpAnswer(q) PROVE CacheInv'
    <2> DEFINE t == asked[q].thread
    <2>1. /\ asked[q] \in Requests /\ t \in Threads /\ talk[t] \in Talks
          /\ asked[q].step = "key" /\ talk[t].turns = {} /\ RequestGood(q)
          /\ generation \in Nat
      BY <1>2, AnswerCacheAssumption DEF LookUpAnswer, FirstTurn, CacheTypes, Requests
    <2>2. /\ UNCHANGED <<generation, inRedis, inProcess>> /\ link' \in {"up", "waiting", "due"}
      BY <1>2, LinkType DEF LookUpAnswer, CacheTypes
    <2>3. CASE Goes(q, "served") /\ talk' = [talk EXCEPT ![t].turns = @ \cup {q}]
      <3>1. [talk[t] EXCEPT !.turns = @ \cup {q}] \in Talks
        BY <2>1 DEF Talks
      <3>2. /\ talk' \in [Threads -> Talks] /\ talk'[t] = [talk[t] EXCEPT !.turns = @ \cup {q}]
            /\ \A d \in Threads \ {t} : talk'[d] = talk[d]
        BY <2>1, <2>3, <3>1 DEF CacheTypes
      <3>3. "served" \in Steps
        BY DEF Steps
      <3>4. /\ asked' \in [Questioners -> Requests] /\ asked'[q] = [asked[q] EXCEPT !.step = "served"]
            /\ \A p \in Questioners \ {q} : asked'[p] = asked[p]
        BY <2>3, <3>3, GoesType
      <3>5. CacheTypes' /\ EntriesGood'
        BY <2>2, <3>2, <3>4, FewerKeeps DEF CacheTypes
      <3>6. TalksGrow /\ RetrieversGood'
        BY <2>1, <2>2, <3>2 DEF TalksGrow, RetrieversGood, CacheTypes, Talks
      <3>7. asked'[q].thread = t /\ asked'[q].step = "served"
        BY <2>1, <3>4 DEF Requests
      <3>8. \A p \in Questioners \ {q} : RequestGood(p)'
        BY <2>1, <2>2, <3>2, <3>4, <3>5, <3>6, <3>7, OthersKept
      <3>9. RequestGood(q)'
        <4>1. /\ asked'[q].resolved = asked[q].resolved /\ asked'[q].key = asked[q].key
              /\ asked'[q].made = asked[q].made /\ asked'[q].straddled = asked[q].straddled
          BY <2>1, <3>4 DEF Requests
        <4>2. talk'[t].retriever = talk[t].retriever /\ q \in talk'[t].turns
          BY <2>1, <3>2 DEF Talks
        <4>3. QED
          BY <2>1, <2>2, <3>7, <4>1, <4>2
          DEF RequestGood, NotAhead, GenerationKnown, Recorded, Alone, Contextless
      <3>10. QED
        BY <3>5, <3>6, <3>8, <3>9
    <2>4. CASE /\ asked' = [asked EXCEPT ![q].step = "queued", ![q].key = CacheKey,
                        ![q].straddled = asked[q].resolved # CacheKey,
                        ![q].raced = \E p \in Questioners \ {q} :
                            asked[p].thread = t /\ asked[p].step \in {"key", "queued", "turn"}]
               /\ UNCHANGED talk
      <3> DEFINE straddles == asked[q].resolved # generation
                 races == \E p \in Questioners \ {q} :
                            asked[p].thread = t /\ asked[p].step \in {"key", "queued", "turn"}
      <3>1. /\ asked'[q] = [asked[q] EXCEPT !.step = "queued", !.key = generation,
                                          !.straddled = straddles, !.raced = races]
            /\ \A p \in Questioners \ {q} : asked'[p] = asked[p]
        BY <2>4 DEF CacheKey, CacheTypes
      <3>2. straddles \in BOOLEAN /\ races \in BOOLEAN
        BY Zenon
      <3> HIDE DEF straddles, races
      <3>3. /\ asked'[q].step = "queued" /\ asked'[q].key = generation
            /\ asked'[q].straddled = straddles /\ asked'[q].raced = races
            /\ asked'[q].thread = t /\ asked'[q].resolved = asked[q].resolved
            /\ asked'[q].made = asked[q].made
        BY <2>1, <3>1 DEF Requests
      <3>4. asked'[q] \in Requests
        BY <2>1, <3>1, <3>2 DEF Requests, Steps
      <3>5. asked' \in [Questioners -> Requests]
        BY <2>4, <3>1, <3>4 DEF CacheTypes
      <3>6. CacheTypes' /\ EntriesGood' /\ TalksGrow /\ RetrieversGood'
        BY <2>1, <2>2, <2>4, <3>5, FewerKeeps DEF CacheTypes, TalksGrow, RetrieversGood, Talks
      <3>7. \A p \in Questioners \ {q} : RequestGood(p)'
        BY <2>1, <2>2, <2>4, <3>1, <3>3, <3>6, OthersKept
      <3>8. Alone(q)'
        <4>1. ASSUME ~races, NEW p \in Questioners \ {q}, asked[p].thread = t
              PROVE  asked[p].step = "new"
          <5>1. asked[p].step \notin {"key", "queued", "turn"}
            BY <4>1 DEF races
          <5>2. asked[p].step \notin {"answered", "served"}
            BY <2>1, <4>1 DEF RequestGood, Recorded
          <5>3. asked[p] \in Requests
            BY DEF CacheTypes
          <5>4. QED
            BY <5>1, <5>2, <5>3 DEF Requests, Steps
        <4>2. talk'[t].turns = {}
          BY <2>1, <2>4
        <4>3. races = FALSE => \A p \in Questioners \ {q} :
                                  asked'[p].thread = t => asked'[p].step = "new"
          BY <3>1, <4>1
        <4>4. QED
          BY <3>3, <4>2, <4>3 DEF Alone, Unraced
      <3>9. GenerationKnown(q)'
        <4>1. straddles \/ asked'[q].key = asked'[q].resolved
          BY <3>3 DEF straddles
        <4>2. asked'[q].resolved <= talk'[asked'[q].thread].retriever
          BY <2>1, <2>4, <3>3 DEF RequestGood, GenerationKnown
        <4>3. QED
          BY <3>2, <3>3, <4>1, <4>2 DEF GenerationKnown
      <3>10. NotAhead(q)' /\ Recorded(q)' /\ Contextless(q)'
        BY <2>1, <2>2, <3>3 DEF RequestGood, NotAhead, Recorded, Contextless
      <3>11. QED
        BY <3>6, <3>7, <3>8, <3>9, <3>10 DEF RequestGood
    <2>5. QED
      BY <1>2, <2>3, <2>4 DEF LookUpAnswer
  <1>3. ASSUME NEW q \in Questioners, PassCache(q) PROVE CacheInv'
    <2>1. "queued" \in Steps /\ Goes(q, "queued") /\ asked[q].step = "key"
          /\ UNCHANGED <<talk, generation, link, inRedis, inProcess>>
      BY <1>3 DEF PassCache, Steps
    <2>2. CacheTypes' /\ EntriesGood'
      BY <2>1, GoesType, FewerKeeps DEF CacheTypes
    <2>3. QED
      BY <2>1, <2>2, GoesOnKeeps
  <1>4. ASSUME NEW q \in Questioners, BeginTurn(q) PROVE CacheInv'
    <2> DEFINE t == asked[q].thread
               follows == talk[t].turns # {}
    <2>1. /\ asked[q] \in Requests /\ t \in Threads /\ talk[t] \in Talks
          /\ asked[q].step = "queued" /\ RequestGood(q) /\ generation \in Nat
          /\ UNCHANGED <<talk, generation, link, inRedis, inProcess>>
      BY <1>4, AnswerCacheAssumption DEF BeginTurn, CacheTypes, Requests
    <2>2. follows \in BOOLEAN
      BY Zenon
    <2>3. Unraced(q) => follows = FALSE
      <3>1. Unraced(q) => talk[t].turns = {}
        BY <2>1 DEF RequestGood, Alone
      <3>2. QED
        BY <3>1, Zenon
    <2>4. asked' = [asked EXCEPT ![q] = [asked[q] EXCEPT !.step = "turn", !.made = talk[t].retriever,
                                                         !.context = follows]]
      BY <1>4 DEF BeginTurn
    <2> HIDE DEF follows
    <2>5. /\ asked'[q] = [asked[q] EXCEPT !.step = "turn", !.made = talk[t].retriever,
                                         !.context = follows]
          /\ \A p \in Questioners \ {q} : asked'[p] = asked[p]
      BY <2>4 DEF CacheTypes
    <2>6. /\ asked'[q].step = "turn" /\ asked'[q].made = talk[t].retriever
          /\ asked'[q].context = follows /\ asked'[q].thread = t
          /\ asked'[q].resolved = asked[q].resolved /\ asked'[q].key = asked[q].key
          /\ asked'[q].straddled = asked[q].straddled /\ asked'[q].raced = asked[q].raced
      BY <2>1, <2>5 DEF Requests
    <2>7. asked'[q] \in Requests
      BY <2>1, <2>2, <2>5 DEF Requests, Talks, Steps
    <2>8. asked' \in [Questioners -> Requests]
      BY <2>4, <2>5, <2>7 DEF CacheTypes
    <2>9. CacheTypes' /\ EntriesGood' /\ TalksGrow /\ RetrieversGood'
      BY <2>1, <2>8, FewerKeeps DEF CacheTypes, TalksGrow, RetrieversGood, Talks
    <2>10. \A p \in Questioners \ {q} : RequestGood(p)'
      BY <2>1, <2>5, <2>6, <2>9, OthersKept
    <2>11. NotAhead(q)' /\ GenerationKnown(q)'
      BY <2>1, <2>6 DEF RequestGood, NotAhead, GenerationKnown, RetrieversGood, Talks
    <2>12. Recorded(q)' /\ Alone(q)' /\ Contextless(q)'
      BY <2>3, <2>6 DEF Recorded, Alone, Contextless, Unraced
    <2>13. QED
      BY <2>9, <2>10, <2>11, <2>12 DEF RequestGood
  <1>5. ASSUME NEW q \in Questioners, FinishTurn(q) PROVE CacheInv'
    <2> DEFINE t == asked[q].thread
    <2>1. /\ asked[q] \in Requests /\ t \in Threads /\ talk[t] \in Talks
          /\ asked[q].step = "turn" /\ RequestGood(q) /\ generation \in Nat
          /\ UNCHANGED <<generation, link, inRedis, inProcess>>
          /\ Goes(q, "answered") /\ talk' = [talk EXCEPT ![t].turns = @ \cup {q}]
      BY <1>5, AnswerCacheAssumption DEF FinishTurn, CacheTypes, Requests
    <2>2. [talk[t] EXCEPT !.turns = @ \cup {q}] \in Talks
      BY <2>1 DEF Talks
    <2>3. /\ talk' \in [Threads -> Talks] /\ talk'[t] = [talk[t] EXCEPT !.turns = @ \cup {q}]
          /\ \A d \in Threads \ {t} : talk'[d] = talk[d]
      BY <2>1, <2>2 DEF CacheTypes
    <2>4. "answered" \in Steps
      BY DEF Steps
    <2>5. /\ asked' \in [Questioners -> Requests] /\ asked'[q] = [asked[q] EXCEPT !.step = "answered"]
          /\ \A p \in Questioners \ {q} : asked'[p] = asked[p]
      BY <2>1, <2>4, GoesType
    <2>6. CacheTypes' /\ EntriesGood'
      BY <2>1, <2>3, <2>5, FewerKeeps DEF CacheTypes
    <2>7. TalksGrow /\ RetrieversGood'
      <3>1. talk'[t].retriever = talk[t].retriever /\ talk'[t].turns = talk[t].turns \cup {q}
        BY <2>1, <2>3 DEF Talks
      <3>2. \A d \in Threads : talk[d].retriever \in Nat /\ talk'[d].retriever = talk[d].retriever
                               /\ talk[d].turns \subseteq talk'[d].turns
        BY <2>3, <3>1 DEF CacheTypes, Talks
      <3>3. QED
        BY <2>1, <3>2 DEF TalksGrow, RetrieversGood
    <2>8. /\ asked'[q].thread = t /\ asked'[q].step = "answered"
          /\ asked'[q].resolved = asked[q].resolved /\ asked'[q].key = asked[q].key
          /\ asked'[q].made = asked[q].made /\ asked'[q].straddled = asked[q].straddled
          /\ asked'[q].raced = asked[q].raced /\ asked'[q].context = asked[q].context
      BY <2>1, <2>5 DEF Requests
    <2>9. \A p \in Questioners \ {q} : RequestGood(p)'
      BY <2>1, <2>3, <2>5, <2>6, <2>7, <2>8, OthersKept
    <2>10. talk'[t].retriever = talk[t].retriever /\ q \in talk'[t].turns
      BY <2>1, <2>3 DEF Talks
    <2>11. RequestGood(q)'
      BY <2>1, <2>8, <2>10
      DEF RequestGood, NotAhead, GenerationKnown, Recorded, Alone, Contextless, Unraced
    <2>12. QED
      BY <2>6, <2>7, <2>9, <2>11
  <1>6. ASSUME NEW q \in Questioners, KeepAnswer(q) PROVE CacheInv'
    <2>1. /\ asked[q] \in Requests /\ RequestGood(q) /\ asked[q].step = "answered"
          /\ asked[q].key # NoCacheKey /\ Put(EntryOf(q)) /\ Goes(q, "served")
          /\ UNCHANGED <<talk, generation>> /\ "served" \in Steps
      BY <1>6 DEF KeepAnswer, CacheTypes, Steps
    <2>2. asked[q].made >= asked[q].key \/ asked[q].straddled
      BY <2>1 DEF RequestGood, GenerationKnown, Requests
    <2>3. asked[q].context => asked[q].raced
      <3>1. asked[q].raced = FALSE => asked[q].context = FALSE
        BY <2>1 DEF RequestGood, Contextless, Unraced
      <3>2. asked[q].raced \in BOOLEAN /\ asked[q].context \in BOOLEAN
        BY <2>1 DEF Requests
      <3>3. QED
        BY <3>1, <3>2, Zenon
    <2>4. /\ EntryOf(q).made = asked[q].made /\ EntryOf(q).key = asked[q].key
          /\ EntryOf(q).straddled = asked[q].straddled /\ EntryOf(q).context = asked[q].context
          /\ EntryOf(q).raced = asked[q].raced
      BY DEF EntryOf
    <2>5. /\ EntryOf(q).made >= EntryOf(q).key \/ EntryOf(q).straddled
          /\ EntryOf(q).context => EntryOf(q).raced
      BY <2>2, <2>3, <2>4
    <2>6. Keyed(inRedis)' /\ Keyed(inProcess)' /\ EntriesGood' /\ link' \in {"up", "waiting", "due"}
      BY <2>1, <2>5, PutKeeps
    <2>7. CacheTypes'
      BY <2>1, <2>6, GoesType DEF CacheTypes
    <2>8. QED
      BY <2>1, <2>6, <2>7, GoesOnKeeps
  <1>7. ASSUME NEW q \in Questioners, Discard(q) PROVE CacheInv'
    <2>1. "served" \in Steps /\ Goes(q, "served") /\ asked[q].step = "answered"
          /\ UNCHANGED <<talk, generation, link, inRedis, inProcess>>
      BY <1>7 DEF Discard, Steps
    <2>2. CacheTypes' /\ EntriesGood'
      BY <2>1, GoesType, FewerKeeps DEF CacheTypes
    <2>3. QED
      BY <2>1, <2>2, GoesOnKeeps
  <1>8. CASE PublishIndex
    <2>1. /\ generation \in Nat /\ generation' = generation + 1 /\ generation' \in 1 .. MaxGeneration
          /\ UNCHANGED <<asked, talk, link, inRedis, inProcess>>
      BY <1>8, AnswerCacheAssumption DEF PublishIndex, CacheTypes
    <2>2. CacheTypes' /\ EntriesGood'
      BY <2>1, FewerKeeps DEF CacheTypes
    <2>3. RetrieversGood'
      BY <2>1 DEF RetrieversGood, CacheTypes, Talks
    <2>4. QED
      BY <2>1, <2>2, <2>3, GlobalsKeep
  <1>9. CASE \/ InvalidateAnswers \/ FlipRedis \/ RetryDue \/ Expire \/ UNCHANGED cacheVars
    <2>1. UNCHANGED <<asked, talk, generation>>
      BY <1>9 DEF InvalidateAnswers, FlipRedis, RetryDue, Expire, cacheVars
    <2>2. inRedis' \subseteq inRedis /\ inProcess' \subseteq inProcess
      BY <1>9 DEF InvalidateAnswers, DropAll, FlipRedis, RetryDue, Expire, cacheVars
    <2>3. link' \in {"up", "waiting", "due"}
      BY <1>9, LinkType
      DEF InvalidateAnswers, DropAll, FlipRedis, RetryDue, Expire, cacheVars, CacheTypes
    <2>4. CacheTypes' /\ EntriesGood'
      BY <2>1, <2>2, <2>3, FewerKeeps DEF CacheTypes
    <2>5. generation <= generation' /\ RetrieversGood'
      BY <2>1, AnswerCacheAssumption DEF CacheTypes, RetrieversGood
    <2>6. QED
      BY <2>1, <2>4, <2>5, GlobalsKeep
  <1>10. QED
    BY <1>1, <1>2, <1>3, <1>4, <1>5, <1>6, <1>7, <1>8, <1>9 DEF CacheNext

\* An entry is filed under the generation its answer was made from or an earlier
\* one, and answers no follow-up, except for the two races that EntryOf remembers,
\* for every number of requests, conversations and publications.
THEOREM CacheIsSafe == CacheSpec => []CacheSafety
  <1>1. CacheInv => CacheSafety
    <2> SUFFICES ASSUME CacheInv PROVE CacheSafety
      OBVIOUS
    <2> USE DEF CacheInv
    <2>1. ASSUME NEW q \in Questioners
          PROVE  /\ asked[q].step \in {"new", "key", "queued", "turn", "answered", "served"}
                 /\ asked[q].key \in 0 .. generation
                 /\ asked[q].made \in 0 .. generation
      <3>1. asked[q] \in Requests /\ RequestGood(q) /\ generation \in Nat
        BY AnswerCacheAssumption DEF CacheTypes
      <3>2. QED
        BY <3>1 DEF Requests, Steps, RequestGood, NotAhead
    <2>2. CacheTypeOK
      BY <2>1 DEF CacheTypeOK, CacheTypes, RetrieversGood, Keyed
    <2>3. EntryIsOfItsGeneration /\ FollowUpsNeedARace
      BY DEF EntriesGood, Filed, EntryIsOfItsGeneration, FollowUpsNeedARace
    <2>4. QED
      BY <2>2, <2>3 DEF CacheSafety
  <1>2. QED
    BY <1>1, CacheInitInv, CacheStep, PTL DEF CacheSpec

----------------------------------------------------------------------------
(* RetrieverCache.                                                         *)

IndexKeys == [collection : Nat, generation : Nat]

Retrievers == [store : Nat, chunks : Nat]

RetrieverTypes ==
    /\ RetrieverCacheTypeOK
    /\ reader \in [Readers -> [step : {"idle", "look", "open", "chunks", "restore", "put", "done"},
                               key : IndexKeys, store : Nat, chunks : Nat, got : Retrievers]]
    /\ builder \in [Builders -> [step : {"idle", "built", "rolled_back"},
                                 key : [collection : Collections \cup {Absent}, generation : Nat]]]

\* A key was the manifest once, or names a generation of long ago.
Past(key) ==
    /\ key.generation <= active.generation
    /\ key.generation = active.generation => key.collection = active.collection

\* Strengthening: keys are of manifests that were, and the active collection is there.
ManifestsPast ==
    /\ active.collection \in filled
    /\ Past(entry.key)
    /\ \A r \in Readers : Past(reader[r].key)
    /\ \A b \in Builders : Past(builder[b].key)

\* What is cached is of the collection of its key, and so is what a reader has in hand.
EntryOfItsKey ==
    /\ entry.store \in {Absent, entry.key.collection}
    /\ entry.retriever # NoRetriever => entry.retriever.store = entry.key.collection

ReaderOfItsKey(r) ==
    /\ reader[r].step # "idle" => reader[r].key.collection \in Collections
    /\ reader[r].step = "open" => reader[r].store \in {Absent, reader[r].key.collection}
    /\ reader[r].step \in {"chunks", "restore", "put"} => reader[r].store = reader[r].key.collection
    /\ reader[r].step = "done" => reader[r].got.store = reader[r].key.collection

\* A reader of the active index is about to cache a retriever without chunks only when it
\* could not read them.
ReaderTried(r) ==
    reader[r].step = "put" /\ reader[r].chunks = Absent /\ reader[r].key = ActiveKey
        => reader[r].store \in unrestored

RetrieverInv ==
    /\ RetrieverTypes
    /\ ManifestsPast
    /\ EntryOfItsKey
    /\ \A r \in Readers : ReaderOfItsKey(r) /\ ReaderTried(r)
    /\ DegradedOnlyAfterFailure

LEMMA RetrieverInitInv == RetrieverCacheInit => RetrieverInv
  <1> SUFFICES ASSUME RetrieverCacheInit PROVE RetrieverInv
    OBVIOUS
  <1> USE RetrieverCacheAssumption
      DEF RetrieverCacheInit, Evicted, NoRetriever, NoIndexKey, Absent, Collections
  <1>1. RetrieverTypes
    BY DEF RetrieverTypes, RetrieverCacheTypeOK, IndexKeys, Retrievers
  <1>2. ManifestsPast
    BY DEF ManifestsPast, Past
  <1>3. EntryOfItsKey /\ DegradedOnlyAfterFailure
    BY DEF EntryOfItsKey, DegradedOnlyAfterFailure
  <1>4. \A r \in Readers : ReaderOfItsKey(r) /\ ReaderTried(r)
    BY DEF ReaderOfItsKey, ReaderTried
  <1>5. QED
    BY <1>1, <1>2, <1>3, <1>4 DEF RetrieverInv

\* What one reader does leaves the others and the publications alone.
LEMMA ReaderMoves ==
  ASSUME RetrieverInv, NEW r \in Readers,
         NEW me \in [step : {"idle", "look", "open", "chunks", "restore", "put", "done"},
                     key : IndexKeys, store : Nat, chunks : Nat, got : Retrievers],
         reader' = [reader EXCEPT ![r] = me], active' = active, filled' = filled,
         builder' = builder, unrestored \subseteq unrestored', unrestored' \subseteq Collections,
         hollow' \subseteq Collections,
         entry' \in [store : Nat, chunks : Nat, retriever : Retrievers, key : IndexKeys],
         Past(entry'.key), Past(me.key), EntryOfItsKey', DegradedOnlyAfterFailure',
         me.step # "idle" => me.key.collection \in Collections,
         me.step = "open" => me.store \in {Absent, me.key.collection},
         me.step \in {"chunks", "restore", "put"} => me.store = me.key.collection,
         me.step = "done" => me.got.store = me.key.collection,
         me.step = "put" /\ me.chunks = Absent /\ me.key = ActiveKey => me.store \in unrestored'
  PROVE  RetrieverInv'
  <1> USE DEF RetrieverInv
  <1>1. reader'[r] = me /\ \A q \in Readers : q # r => reader'[q] = reader[q]
    BY DEF RetrieverTypes
  <1>2. RetrieverTypes'
    BY <1>1 DEF RetrieverTypes, RetrieverCacheTypeOK, Retrievers, IndexKeys
  <1>3. ManifestsPast'
    BY <1>1 DEF ManifestsPast, Past
  <1>4. ASSUME NEW q \in Readers PROVE ReaderOfItsKey(q)' /\ ReaderTried(q)'
    <2>1. CASE q = r
      BY <1>1, <2>1 DEF ReaderOfItsKey, ReaderTried, ActiveKey
    <2>2. CASE q # r
      BY <1>1, <2>2 DEF ReaderOfItsKey, ReaderTried, ActiveKey
    <2>3. QED
      BY <2>1, <2>2
  <1>5. QED
    BY <1>2, <1>3, <1>4

LEMMA ResolveStep ==
  ASSUME RetrieverInv, NEW r \in Readers, Resolve_active_index(r)
  PROVE  RetrieverInv'
  <1> USE RetrieverCacheAssumption DEF RetrieverInv
  <1>1. PICK me : me = [step |-> "look", key |-> ActiveKey, store |-> Absent, chunks |-> Absent,
                        got |-> NoRetriever]
    OBVIOUS
  <1>2. /\ me \in [step : {"idle", "look", "open", "chunks", "restore", "put", "done"},
                   key : IndexKeys, store : Nat, chunks : Nat, got : Retrievers]
        /\ Past(me.key)
    BY <1>1 DEF ActiveKey, Absent, NoRetriever, Retrievers, IndexKeys, RetrieverTypes,
                RetrieverCacheTypeOK, Collections, Past
  <1>3. /\ reader' = [reader EXCEPT ![r] = me]
        /\ UNCHANGED <<active, filled, hollow, entry, builder, unrestored>>
    BY <1>1 DEF Resolve_active_index
  <1>4. /\ entry' \in [store : Nat, chunks : Nat, retriever : Retrievers, key : IndexKeys]
        /\ Past(entry'.key) /\ EntryOfItsKey' /\ DegradedOnlyAfterFailure'
        /\ hollow' \subseteq Collections /\ unrestored' \subseteq Collections
    BY <1>3 DEF RetrieverTypes, RetrieverCacheTypeOK, Retrievers, IndexKeys, ManifestsPast,
                EntryOfItsKey, DegradedOnlyAfterFailure, ActiveKey
  <1>5. me.step = "look"
    BY <1>1
  <1>6. me.key.collection \in Collections
    BY <1>1 DEF ActiveKey, RetrieverTypes, RetrieverCacheTypeOK
  <1>7. QED
    BY <1>2, <1>3, <1>4, <1>5, <1>6, ReaderMoves

\* Another key evicts all of the entry.
LEMMA CurrentOfKey ==
  ASSUME RetrieverInv, NEW key \in IndexKeys, Past(key), NEW e, e = Current(key)
  PROVE  /\ e \in [store : Nat, chunks : Nat, retriever : Retrievers, key : IndexKeys]
         /\ Past(e.key)
         /\ e.store \in {Absent, key.collection}
         /\ e.retriever # NoRetriever => e.retriever.store = key.collection
         /\ e = entry \/ e = Evicted
  <1> USE DEF RetrieverInv
  <1>1. CASE entry.key = key
    BY <1>1 DEF Current, RetrieverTypes, RetrieverCacheTypeOK, Retrievers, IndexKeys, EntryOfItsKey
  <1>2. CASE entry.key # key
    <2>1. e = Evicted
      BY <1>2 DEF Current
    <2>2. /\ Evicted \in [store : Nat, chunks : Nat, retriever : Retrievers, key : IndexKeys]
          /\ Evicted.store = Absent /\ Evicted.retriever = NoRetriever
          /\ Evicted.key = [collection |-> 0, generation |-> 0]
      BY DEF Evicted, NoRetriever, NoIndexKey, Absent, Retrievers, IndexKeys
    <2>3. Past([collection |-> 0, generation |-> 0])
      BY DEF Past, RetrieverTypes, RetrieverCacheTypeOK, Collections
    <2>4. QED
      BY <2>1, <2>2, <2>3
  <1>3. QED
    BY <1>1, <1>2

LEMMA LookUpEntry ==
  ASSUME RetrieverInv, NEW r \in Readers, LookUp(r)
  PROVE  RetrieverInv'
  <1> USE DEF RetrieverInv
  <1>1. PICK kept : kept = Current(reader[r].key)
    OBVIOUS
  <1>2. PICK me : me = [reader[r] EXCEPT
            !.step = IF kept.retriever = NoRetriever THEN "open" ELSE "done",
            !.got = kept.retriever, !.store = kept.store, !.chunks = kept.chunks]
    OBVIOUS
  <1>3. /\ reader[r].key \in IndexKeys /\ Past(reader[r].key)
        /\ reader[r] \in [step : {"idle", "look", "open", "chunks", "restore", "put", "done"},
                          key : IndexKeys, store : Nat, chunks : Nat, got : Retrievers]
    BY DEF RetrieverTypes, ManifestsPast
  <1>4. /\ kept \in [store : Nat, chunks : Nat, retriever : Retrievers, key : IndexKeys]
        /\ Past(kept.key)
        /\ kept.store \in {Absent, reader[r].key.collection}
        /\ kept.retriever # NoRetriever => kept.retriever.store = reader[r].key.collection
        /\ kept = entry \/ kept = Evicted
    BY <1>1, <1>3, CurrentOfKey
  <1>5. /\ me \in [step : {"idle", "look", "open", "chunks", "restore", "put", "done"},
                   key : IndexKeys, store : Nat, chunks : Nat, got : Retrievers]
        /\ me.key = reader[r].key /\ me.store = kept.store
        /\ me.step = "open" \/ (me.step = "done" /\ me.got = kept.retriever
                                /\ kept.retriever # NoRetriever)
    BY <1>2, <1>3, <1>4
  <1>6. /\ reader' = [reader EXCEPT ![r] = me] /\ entry' = kept
        /\ UNCHANGED <<active, filled, hollow, builder, unrestored>>
    BY <1>1, <1>2 DEF LookUp
  <1>7. EntryOfItsKey' /\ DegradedOnlyAfterFailure'
    <2>1. CASE kept = entry
      BY <1>6, <2>1 DEF EntryOfItsKey, DegradedOnlyAfterFailure, ActiveKey
    <2>2. CASE kept = Evicted
      BY <1>6, <2>2 DEF EntryOfItsKey, DegradedOnlyAfterFailure, Evicted
    <2>3. QED
      BY <1>4, <2>1, <2>2
  <1>8. hollow' \subseteq Collections /\ unrestored' \subseteq Collections
    BY <1>6 DEF RetrieverTypes, RetrieverCacheTypeOK
  <1>9. Past(entry'.key) /\ Past(me.key) /\ me.key.collection \in Collections
    BY <1>3, <1>4, <1>5, <1>6 DEF LookUp, ReaderOfItsKey
  <1>10. QED
    BY <1>4, <1>5, <1>6, <1>7, <1>8, <1>9, ReaderMoves

LEMMA OpenStep ==
  ASSUME RetrieverInv, NEW r \in Readers, OpenStore(r)
  PROVE  RetrieverInv'
  <1> USE DEF RetrieverInv
  <1>1. PICK name : name = IF reader[r].store = Absent THEN reader[r].key.collection
                           ELSE reader[r].store
    OBVIOUS
  <1>2. PICK me : me = [reader[r] EXCEPT !.step = "chunks", !.store = name]
    OBVIOUS
  <1>3. /\ reader[r].key \in IndexKeys /\ Past(reader[r].key)
        /\ reader[r] \in [step : {"idle", "look", "open", "chunks", "restore", "put", "done"},
                          key : IndexKeys, store : Nat, chunks : Nat, got : Retrievers]
    BY DEF RetrieverTypes, ManifestsPast
  <1>4. /\ reader[r].step = "open" /\ reader' = [reader EXCEPT ![r] = me]
        /\ hollow' = IF name \in filled THEN hollow ELSE hollow \cup {name}
        /\ UNCHANGED <<active, filled, entry, builder, unrestored>>
    BY <1>1, <1>2 DEF OpenStore
  <1>5. name = reader[r].key.collection
    BY <1>1, <1>4 DEF ReaderOfItsKey
  <1>6. /\ me \in [step : {"idle", "look", "open", "chunks", "restore", "put", "done"},
                   key : IndexKeys, store : Nat, chunks : Nat, got : Retrievers]
        /\ me.key = reader[r].key /\ me.store = me.key.collection /\ me.step = "chunks"
    BY <1>2, <1>3, <1>5 DEF IndexKeys
  <1>7. name \in Collections
    BY <1>4, <1>5 DEF ReaderOfItsKey
  <1>8. /\ hollow' \subseteq Collections /\ unrestored' \subseteq Collections
        /\ entry' \in [store : Nat, chunks : Nat, retriever : Retrievers, key : IndexKeys]
        /\ Past(entry'.key)
    BY <1>4, <1>7 DEF RetrieverTypes, RetrieverCacheTypeOK, Retrievers, IndexKeys, ManifestsPast
  <1>9. EntryOfItsKey' /\ DegradedOnlyAfterFailure'
    BY <1>4 DEF EntryOfItsKey, DegradedOnlyAfterFailure, ActiveKey
  <1>10. QED
    BY <1>3, <1>4, <1>5, <1>6, <1>7, <1>8, <1>9, ReaderMoves

LEMMA ProbeStep ==
  ASSUME RetrieverInv, NEW r \in Readers, ProbeFails(r)
  PROVE  RetrieverInv'
  <1> USE DEF RetrieverInv
  <1>1. PICK me : me = [reader[r] EXCEPT !.step = "idle"]
    OBVIOUS
  <1>2. /\ me \in [step : {"idle", "look", "open", "chunks", "restore", "put", "done"},
                   key : IndexKeys, store : Nat, chunks : Nat, got : Retrievers]
        /\ Past(me.key) /\ me.step = "idle"
    BY <1>1 DEF RetrieverTypes, ManifestsPast
  <1>3. /\ reader' = [reader EXCEPT ![r] = me] /\ entry' = Evicted
        /\ UNCHANGED <<active, filled, hollow, builder, unrestored>>
    BY <1>1 DEF ProbeFails
  <1>4. /\ hollow' \subseteq Collections /\ unrestored' \subseteq Collections
        /\ entry' \in [store : Nat, chunks : Nat, retriever : Retrievers, key : IndexKeys]
        /\ Past(entry'.key) /\ EntryOfItsKey' /\ DegradedOnlyAfterFailure'
    <2>1. Past(Evicted.key)
      BY DEF Past, Evicted, NoIndexKey, RetrieverTypes, RetrieverCacheTypeOK, Collections
    <2>2. QED
      BY <1>3, <2>1 DEF RetrieverTypes, RetrieverCacheTypeOK, Retrievers, IndexKeys, Evicted,
         NoRetriever, NoIndexKey, Absent, EntryOfItsKey, DegradedOnlyAfterFailure
  <1>5. QED
    BY <1>2, <1>3, <1>4, ReaderMoves

LEMMA ReadAgainStep ==
  ASSUME RetrieverInv, NEW r \in Readers, ReadChunksAgain(r)
  PROVE  RetrieverInv'
  <1> USE DEF RetrieverInv
  <1>0. /\ reader[r] \in [step : {"idle", "look", "open", "chunks", "restore", "put", "done"},
                          key : IndexKeys, store : Nat, chunks : Nat, got : Retrievers]
        /\ entry.chunks \in Nat
    BY DEF RetrieverTypes, RetrieverCacheTypeOK
  <1> DEFINE found == IF reader[r].chunks = Absent THEN entry.chunks ELSE reader[r].chunks
  <1>1. PICK me : me = [reader[r] EXCEPT !.step = "restore", !.chunks = found]
    OBVIOUS
  <1>2. /\ reader[r].step = "chunks" /\ reader' = [reader EXCEPT ![r] = me]
        /\ UNCHANGED <<active, filled, hollow, entry, builder, unrestored>>
    BY <1>0, <1>1 DEF ReadChunksAgain, RetrieverTypes
  <1>3. /\ me \in [step : {"idle", "look", "open", "chunks", "restore", "put", "done"},
                   key : IndexKeys, store : Nat, chunks : Nat, got : Retrievers]
        /\ me.step = "restore" /\ me.key = reader[r].key /\ me.store = reader[r].store
    BY <1>0, <1>1
  <1>4. Past(me.key) /\ me.store = me.key.collection /\ me.key.collection \in Collections
    BY <1>2, <1>3 DEF ManifestsPast, ReaderOfItsKey
  <1>5. /\ hollow' \subseteq Collections /\ unrestored' \subseteq Collections
        /\ entry' \in [store : Nat, chunks : Nat, retriever : Retrievers, key : IndexKeys]
        /\ Past(entry'.key) /\ EntryOfItsKey' /\ DegradedOnlyAfterFailure'
    BY <1>2 DEF RetrieverTypes, RetrieverCacheTypeOK, Retrievers, IndexKeys, ManifestsPast,
       EntryOfItsKey, DegradedOnlyAfterFailure, ActiveKey
  <1>6. QED
    BY <1>2, <1>3, <1>4, <1>5, ReaderMoves

\* The active collection has chunks, so a reader of it goes without them only when the
\* reading failed.
LEMMA RestoreStep ==
  ASSUME RetrieverInv, NEW r \in Readers, RestoreChunks(r)
  PROVE  RetrieverInv'
  <1> USE DEF RetrieverInv
  <1>1. PICK c \in IF reader[r].chunks # Absent THEN {reader[r].chunks}
                   ELSE RestoreOutcomes(reader[r].store) :
            /\ reader' = [reader EXCEPT ![r].step = "put", ![r].chunks = c]
            /\ unrestored' = IF c = Absent /\ RestoreOutcomes(reader[r].store) # {Absent}
                             THEN unrestored \cup {reader[r].store} ELSE unrestored
    BY DEF RestoreChunks
  <1>2. /\ reader[r].step = "restore" /\ UNCHANGED <<active, filled, hollow, entry, builder>>
    BY DEF RestoreChunks
  <1>3. /\ reader[r] \in [step : {"idle", "look", "open", "chunks", "restore", "put", "done"},
                          key : IndexKeys, store : Nat, chunks : Nat, got : Retrievers]
        /\ Past(reader[r].key) /\ reader[r].store = reader[r].key.collection
        /\ reader[r].key.collection \in Collections /\ filled \subseteq Collections
    BY <1>2 DEF RetrieverTypes, RetrieverCacheTypeOK, ManifestsPast, ReaderOfItsKey
  <1>4. c \in Nat
    BY <1>1, <1>3 DEF RestoreOutcomes, Absent, Collections
  <1>5. PICK me : me = [reader[r] EXCEPT !.step = "put", !.chunks = c]
    OBVIOUS
  <1>6. /\ reader' = [reader EXCEPT ![r] = me]
        /\ me \in [step : {"idle", "look", "open", "chunks", "restore", "put", "done"},
                   key : IndexKeys, store : Nat, chunks : Nat, got : Retrievers]
        /\ me.step = "put" /\ me.key = reader[r].key /\ me.store = reader[r].store
        /\ me.chunks = c
    BY <1>1, <1>3, <1>4, <1>5
  <1>7. ASSUME c = Absent, reader[r].key = ActiveKey PROVE reader[r].store \in unrestored'
    <2>1. reader[r].store \in filled
      BY <1>3, <1>7 DEF ActiveKey, ManifestsPast
    <2>2. RestoreOutcomes(reader[r].store) # {Absent}
      BY <1>3, <2>1, RetrieverCacheAssumption DEF RestoreOutcomes, Absent, Collections
    <2>3. QED
      BY <1>1, <1>7, <2>2
  <1>8. unrestored \subseteq unrestored' /\ unrestored' \subseteq Collections
    BY <1>1, <1>3 DEF RetrieverTypes, RetrieverCacheTypeOK
  <1>9. /\ hollow' \subseteq Collections
        /\ entry' \in [store : Nat, chunks : Nat, retriever : Retrievers, key : IndexKeys]
        /\ Past(entry'.key) /\ EntryOfItsKey' /\ DegradedOnlyAfterFailure'
    BY <1>2, <1>8 DEF RetrieverTypes, RetrieverCacheTypeOK, Retrievers, IndexKeys, ManifestsPast,
       EntryOfItsKey, DegradedOnlyAfterFailure, ActiveKey
  <1>10. QED
    BY <1>2, <1>3, <1>6, <1>7, <1>8, <1>9, ReaderMoves

LEMMA PutStep ==
  ASSUME RetrieverInv, NEW r \in Readers, PutRetriever(r)
  PROVE  RetrieverInv'
  <1> USE DEF RetrieverInv
  <1>1. PICK made : made = [store |-> reader[r].store, chunks |-> reader[r].chunks]
    OBVIOUS
  <1>2. PICK me : me = [reader[r] EXCEPT !.step = "done", !.got = made]
    OBVIOUS
  <1>3. /\ reader[r].step = "put" /\ reader' = [reader EXCEPT ![r] = me]
        /\ entry' = [store |-> reader[r].store,
                     chunks |-> IF reader[r].chunks = Absent THEN entry.chunks
                                ELSE reader[r].chunks,
                     retriever |-> made, key |-> reader[r].key]
        /\ UNCHANGED <<active, filled, hollow, builder, unrestored>>
    BY <1>1, <1>2 DEF PutRetriever
  <1>4. /\ reader[r] \in [step : {"idle", "look", "open", "chunks", "restore", "put", "done"},
                          key : IndexKeys, store : Nat, chunks : Nat, got : Retrievers]
        /\ Past(reader[r].key) /\ reader[r].store = reader[r].key.collection
        /\ reader[r].key.collection \in Collections /\ entry.chunks \in Nat
    BY <1>3 DEF RetrieverTypes, RetrieverCacheTypeOK, ManifestsPast, ReaderOfItsKey
  <1>5. /\ me \in [step : {"idle", "look", "open", "chunks", "restore", "put", "done"},
                   key : IndexKeys, store : Nat, chunks : Nat, got : Retrievers]
        /\ me.step = "done" /\ me.key = reader[r].key /\ me.got.store = me.key.collection
        /\ made \in Retrievers
    BY <1>1, <1>2, <1>4 DEF Retrievers
  <1>6. /\ hollow' \subseteq Collections /\ unrestored' \subseteq Collections
        /\ entry' \in [store : Nat, chunks : Nat, retriever : Retrievers, key : IndexKeys]
        /\ Past(entry'.key)
    BY <1>3, <1>4, <1>5 DEF RetrieverTypes, RetrieverCacheTypeOK
  <1>7. EntryOfItsKey'
    BY <1>1, <1>3, <1>4 DEF EntryOfItsKey
  <1>8. DegradedOnlyAfterFailure'
    BY <1>1, <1>3 DEF DegradedOnlyAfterFailure, ReaderTried, ActiveKey
  <1>9. QED
    BY <1>3, <1>4, <1>5, <1>6, <1>7, <1>8, ReaderMoves

LEMMA NextManifest ==
  ASSUME RetrieverInv, NEW next, next \in {Built, RolledBack}, Publication(next)
  PROVE  /\ next \in [generation : Collections, collection : Collections,
                      previous : Collections \cup {Absent}]
         /\ next.generation = active.generation + 1
  <1>1. /\ active \in [generation : Collections, collection : Collections,
                       previous : Collections \cup {Absent}]
        /\ filled \subseteq Collections
        /\ active.generation < MaxPublications
    BY DEF RetrieverInv, RetrieverTypes, RetrieverCacheTypeOK, Publication
  <1>2. active.generation + 1 \in Collections
    BY <1>1, RetrieverCacheAssumption DEF Collections
  <1>3. CASE next = Built
    BY <1>1, <1>2, <1>3 DEF Built
  <1>4. CASE next = RolledBack /\ active.previous \in filled
    BY <1>1, <1>2, <1>4 DEF RolledBack
  <1>5. QED
    BY <1>3, <1>4 DEF Publication

\* Keys that readers and the entry have are of older generations once the manifest moves.
LEMMA PublicationMoves ==
  ASSUME RetrieverInv, NEW next, next \in {Built, RolledBack}, Publication(next),
         UNCHANGED <<entry, reader, unrestored>>,
         builder' \in [Builders -> [step : {"idle", "built", "rolled_back"},
                                    key : [collection : Collections \cup {Absent}, generation : Nat]]],
         \A b \in Builders : builder'[b].key = builder[b].key
              \/ builder'[b].key = [collection |-> next.collection, generation |-> next.generation]
  PROVE  RetrieverInv'
  <1> USE DEF RetrieverInv
  <1>1. /\ active' = next
        /\ filled' = (filled \cup {next.collection}) \cap Protected(next)
        /\ hollow' = hollow \cap Protected(next)
        /\ active.generation < MaxPublications
        /\ next = Built \/ (next = RolledBack /\ active.previous \in filled)
    BY DEF Publication
  <1>2. /\ active \in [generation : Collections, collection : Collections,
                       previous : Collections \cup {Absent}]
        /\ filled \subseteq Collections /\ hollow \subseteq Collections
    BY DEF RetrieverTypes, RetrieverCacheTypeOK
  <1>3. /\ next \in [generation : Collections, collection : Collections,
                     previous : Collections \cup {Absent}]
        /\ next.generation = active.generation + 1
    BY NextManifest
  <1>4. /\ filled' \subseteq Collections /\ hollow' \subseteq Collections
        /\ next.collection \in filled'
    BY <1>1, <1>2, <1>3 DEF Protected
  <1>5. RetrieverTypes'
    <2>1. RetrieverCacheTypeOK'
      <3>1. \A b \in Builders : builder'[b].step \in {"idle", "built", "rolled_back"}
        OBVIOUS
      <3>2. QED
        BY <1>1, <1>3, <1>4, <3>1 DEF RetrieverTypes, RetrieverCacheTypeOK
    <2>2. QED
      BY <2>1 DEF RetrieverTypes
  <1>6. active.generation \in Nat /\ active'.generation = active.generation + 1
    BY <1>1, <1>2, <1>3 DEF Collections
  <1>7. /\ entry.key.generation \in Nat /\ entry.key.generation <= active.generation
        /\ \A r \in Readers : /\ reader[r].key.generation \in Nat
                              /\ reader[r].key.generation <= active.generation
        /\ \A b \in Builders : /\ builder[b].key.generation \in Nat
                               /\ builder[b].key.generation <= active.generation
    BY DEF RetrieverTypes, RetrieverCacheTypeOK, IndexKeys, ManifestsPast, Past
  <1>8. ManifestsPast'
    <2>1. Past(entry.key)' /\ \A r \in Readers : Past(reader[r].key)'
      BY <1>6, <1>7 DEF Past
    <2>2. ASSUME NEW b \in Builders PROVE Past(builder[b].key)'
      <3>1. CASE builder'[b].key = builder[b].key
        BY <1>6, <1>7, <3>1 DEF Past
      <3>2. CASE builder'[b].key = [collection |-> next.collection,
                                    generation |-> next.generation]
        BY <1>1, <1>3, <1>6, <3>2 DEF Past
      <3>3. QED
        BY <3>1, <3>2
    <2>3. QED
      BY <1>1, <1>4, <2>1, <2>2 DEF ManifestsPast
  <1>9. EntryOfItsKey'
    BY DEF EntryOfItsKey
  <1>10. \A r \in Readers : ReaderOfItsKey(r)' /\ ReaderTried(r)'
    <2>1. ASSUME NEW r \in Readers PROVE ReaderOfItsKey(r)' /\ ReaderTried(r)'
      <3>1. reader[r].key # ActiveKey'
        BY <1>6, <1>7 DEF ActiveKey
      <3>2. QED
        BY <3>1 DEF ReaderOfItsKey, ReaderTried
    <2>2. QED
      BY <2>1
  <1>11. DegradedOnlyAfterFailure'
    <2>1. entry.key # ActiveKey'
      BY <1>6, <1>7 DEF ActiveKey
    <2>2. QED
      BY <2>1 DEF DegradedOnlyAfterFailure
  <1>12. QED
    BY <1>5, <1>8, <1>9, <1>10, <1>11

LEMMA PublishStep ==
  ASSUME RetrieverInv, PublishElsewhere \/ \E b \in Builders : PublishHere(b)
  PROVE  RetrieverInv'
  <1> USE DEF RetrieverInv
  <1>1. CASE PublishElsewhere
    <2>1. PICK next \in {Built, RolledBack} :
              Publication(next) /\ UNCHANGED <<entry, reader, builder, unrestored>>
      BY <1>1 DEF PublishElsewhere
    <2>2. builder' \in [Builders -> [step : {"idle", "built", "rolled_back"},
                            key : [collection : Collections \cup {Absent}, generation : Nat]]]
      BY <2>1 DEF RetrieverTypes
    <2>3. QED
      BY <2>1, <2>2, PublicationMoves
  <1>2. ASSUME NEW b \in Builders, PublishHere(b) PROVE RetrieverInv'
    <2>1. PICK next \in {Built, RolledBack} :
              /\ Publication(next)
              /\ builder' = [builder EXCEPT ![b] =
                    [step |-> IF next = Built THEN "built" ELSE "rolled_back",
                     key |-> [collection |-> next.collection, generation |-> next.generation]]]
              /\ UNCHANGED <<entry, reader, unrestored>>
      BY <1>2 DEF PublishHere
    <2>2. next.collection \in Collections /\ next.generation \in Nat
      BY <2>1, NextManifest DEF Collections
    <2>3. builder' \in [Builders -> [step : {"idle", "built", "rolled_back"},
                            key : [collection : Collections \cup {Absent}, generation : Nat]]]
      BY <2>1, <2>2 DEF RetrieverTypes
    <2>4. \A c \in Builders : builder'[c].key = builder[c].key
              \/ builder'[c].key = [collection |-> next.collection, generation |-> next.generation]
      BY <2>1 DEF RetrieverTypes
    <2>5. QED
      BY <2>1, <2>3, <2>4, PublicationMoves
  <1>3. QED
    BY <1>1, <1>2

\* A builder caches, or does not, and the cache is reset; readers go on.
LEMMA EntryStep ==
  ASSUME RetrieverInv,
         \/ \E b \in Builders : CachePublication(b) \/ PublicationUncached(b)
         \/ ResetRetrieverCache
         \/ UNCHANGED retrieverVars
  PROVE  RetrieverInv'
  <1> USE DEF RetrieverInv
  <1>1. UNCHANGED <<active, filled, hollow, reader, unrestored>>
    BY DEF CachePublication, PublicationUncached, ResetRetrieverCache, retrieverVars
  <1>2. /\ builder' \in [Builders -> [step : {"idle", "built", "rolled_back"},
                             key : [collection : Collections \cup {Absent}, generation : Nat]]]
        /\ \A c \in Builders : builder'[c].key = builder[c].key
    <2>1. CASE builder' = builder
      BY <2>1 DEF RetrieverTypes
    <2>2. ASSUME NEW b \in Builders, builder' = [builder EXCEPT ![b].step = "idle"]
          PROVE  /\ builder' \in [Builders -> [step : {"idle", "built", "rolled_back"},
                             key : [collection : Collections \cup {Absent}, generation : Nat]]]
                 /\ \A c \in Builders : builder'[c].key = builder[c].key
      BY <2>2 DEF RetrieverTypes
    <2>3. QED
      BY <2>1, <2>2 DEF CachePublication, PublicationUncached, ResetRetrieverCache, retrieverVars
  <1>3. /\ entry' \in [store : Nat, chunks : Nat, retriever : Retrievers, key : IndexKeys]
        /\ Past(entry'.key) /\ EntryOfItsKey' /\ DegradedOnlyAfterFailure'
    <2>1. CASE entry' = entry
      BY <1>1, <2>1 DEF RetrieverTypes, RetrieverCacheTypeOK, Retrievers, IndexKeys, ManifestsPast,
         EntryOfItsKey, DegradedOnlyAfterFailure, ActiveKey
    <2>2. CASE entry' = Evicted
      <3>1. Past(Evicted.key)
        BY DEF Past, Evicted, NoIndexKey, RetrieverTypes, RetrieverCacheTypeOK, Collections
      <3>2. QED
        BY <2>2, <3>1 DEF Retrievers, IndexKeys, Evicted, NoRetriever, NoIndexKey, Absent,
           EntryOfItsKey, DegradedOnlyAfterFailure
    <2>3. ASSUME NEW b \in Builders, CachePublication(b)
          PROVE  /\ entry' \in [store : Nat, chunks : Nat, retriever : Retrievers, key : IndexKeys]
                 /\ Past(entry'.key) /\ EntryOfItsKey' /\ DegradedOnlyAfterFailure'
      <3>1. /\ builder[b].key \in IndexKeys /\ Past(builder[b].key)
            /\ entry' = [store |-> builder[b].key.collection, chunks |-> builder[b].key.collection,
                         retriever |-> NoRetriever, key |-> builder[b].key]
        BY <2>3 DEF CachePublication, RetrieverTypes, IndexKeys, Collections, Absent, ManifestsPast
      <3>2. NoRetriever \in Retrievers
        BY DEF NoRetriever, Retrievers, Absent
      <3>3. QED
        BY <3>1, <3>2 DEF IndexKeys, EntryOfItsKey, DegradedOnlyAfterFailure
    <2>4. QED
      BY <2>1, <2>2, <2>3 DEF PublicationUncached, ResetRetrieverCache, retrieverVars
  <1>4. RetrieverTypes'
    BY <1>1, <1>2, <1>3 DEF RetrieverTypes, RetrieverCacheTypeOK, Retrievers, IndexKeys
  <1>5. ManifestsPast'
    BY <1>1, <1>2, <1>3 DEF ManifestsPast, Past
  <1>6. \A r \in Readers : ReaderOfItsKey(r)' /\ ReaderTried(r)'
    BY <1>1 DEF ReaderOfItsKey, ReaderTried, ActiveKey
  <1>7. QED
    BY <1>3, <1>4, <1>5, <1>6

LEMMA RetrieverStep ==
  RetrieverInv /\ [RetrieverCacheNext]_retrieverVars => RetrieverInv'
  <1> SUFFICES ASSUME RetrieverInv, [RetrieverCacheNext]_retrieverVars PROVE RetrieverInv'
    OBVIOUS
  <1>1. ASSUME NEW r \in Readers,
               \/ Resolve_active_index(r) \/ LookUp(r) \/ OpenStore(r) \/ ProbeFails(r)
               \/ ReadChunksAgain(r) \/ RestoreChunks(r) \/ PutRetriever(r)
        PROVE  RetrieverInv'
    BY <1>1, ResolveStep, LookUpEntry, OpenStep, ProbeStep, ReadAgainStep, RestoreStep, PutStep
  <1>2. QED
    BY <1>1, PublishStep, EntryStep DEF RetrieverCacheNext

\* However reads, publications of this process and of others, resets and failures interleave, a
\* retriever searches the collection its call resolved, and one without the words of its chunks
\* is cached for the active index only after reading them failed.
THEOREM RetrieversAreCurrent == RetrieverCacheSpec => []RetrieverSafety
  <1>1. RetrieverInv => RetrieverSafety
    BY DEF RetrieverInv, RetrieverTypes, RetrieverSafety, SearchesResolvedIndex, ReaderOfItsKey
  <1>2. QED
    BY <1>1, RetrieverInitInv, RetrieverStep, PTL DEF RetrieverCacheSpec

----------------------------------------------------------------------------
(* NumberOrder: a set in order lists its members, each of them once.       *)

\* A set of numbers that is not empty has a smallest one.
LEMMA SmallestOf ==
    ASSUME NEW T, T \subseteq Nat, T # {}
    PROVE  \E n \in T : \A m \in T : n <= m
<1>1. \E n \in T : \A m \in T : ~ (<<m, n>> \in OpToRel(<, Nat))
  BY NatLessThanWellFounded, WFMin
<1>2. \E n \in T : \A m \in T : ~ (m < n)
  BY <1>1 DEF OpToRel
<1> QED
  BY <1>2

\* What the places before a place amount to, one place further.
LEMMA BeforeNext ==
    ASSUME NEW T, T \subseteq Nat, IsFiniteSet(T), NEW m \in Nat
    PROVE  /\ Cardinality(Before(T, m)) \in Nat /\ Cardinality(Before(T, m + 1)) \in Nat
           /\ Cardinality(Before(T, m + 1)) =
                 Cardinality(Before(T, m)) + (IF m \in T THEN 1 ELSE 0)
<1>1. Before(T, m) \subseteq T /\ Before(T, m + 1) \subseteq T
  BY DEF Before
<1>2. IsFiniteSet(Before(T, m)) /\ IsFiniteSet(Before(T, m + 1))
  BY <1>1, FS_Subset
<1>3. Cardinality(Before(T, m)) \in Nat /\ Cardinality(Before(T, m + 1)) \in Nat
  BY <1>2, FS_CardinalityType
<1>4. CASE m \in T
  <2>1. Before(T, m + 1) = Before(T, m) \union {m}
    <3>1. \A i \in T : i < m + 1 <=> (i < m \/ i = m)
      OBVIOUS
    <3> QED
      BY <1>4, <3>1, Zenon DEF Before
  <2>2. m \notin Before(T, m)
    BY DEF Before
  <2>3. Cardinality(Before(T, m + 1)) = Cardinality(Before(T, m)) + 1
    BY <1>2, <2>1, <2>2, FS_AddElement
  <2> QED
    BY <1>3, <1>4, <2>3
<1>5. CASE m \notin T
  <2>1. Before(T, m + 1) = Before(T, m)
    <3>1. \A i \in T : i < m + 1 <=> (i < m \/ i = m)
      OBVIOUS
    <3> QED
      BY <1>5, <3>1, Zenon DEF Before
  <2> QED
    BY <1>3, <1>5, <2>1
<1> QED
  BY <1>4, <1>5

\* Every rank below the size of a set of places is some place's rank.
LEMMA RanksAreTaken ==
    ASSUME NEW n \in Nat, NEW T, T \subseteq 1 .. n, NEW k \in Nat, k < Cardinality(T)
    PROVE  \E i \in T : Cardinality(Before(T, i)) = k
<1> DEFINE Rank(m) == Cardinality(Before(T, m))
           Beyond == {m \in 1 .. n + 1 : Rank(m) > k}
<1>1. T \subseteq Nat /\ IsFiniteSet(T)
  <2>1. IsFiniteSet(1 .. n)
    BY FS_Interval
  <2>2. IsFiniteSet(T)
    BY <2>1, FS_Subset, Zenon
  <2> QED
    BY <2>2
<1>2. Before(T, 1) = {} /\ Before(T, n + 1) = T
  <2>1. \A i \in T : ~ (i < 1) /\ i < n + 1
    OBVIOUS
  <2> QED
    BY <2>1, Zenon DEF Before
<1>3. Rank(1) = 0
  BY <1>2, FS_EmptySet
<1>4. n + 1 \in Beyond
  BY <1>2
<1>5. PICK m \in Beyond : \A j \in Beyond : m <= j
  <2>1. Beyond \subseteq Nat /\ Beyond # {}
    BY <1>4
  <2> HIDE DEF Beyond
  <2> QED
    BY <2>1, SmallestOf
<1>6. m \in 1 .. n + 1 /\ Rank(m) > k
  BY <1>5
<1>7. m # 1
  BY <1>3, <1>6
<1>8. PICK p \in Nat : p + 1 = m
  <2>1. m - 1 \in Nat /\ (m - 1) + 1 = m
    BY <1>6, <1>7
  <2> QED
    BY <2>1
<1>9. ~ (Rank(p) > k)
  <2>1. p \in 1 .. n + 1 /\ p < m
    BY <1>6, <1>7, <1>8
  <2>2. p \notin Beyond
    <3> HIDE DEF Beyond
    <3> QED
      BY <1>5, <1>6, <2>1
  <2> QED
    BY <2>1, <2>2
<1>10. /\ Rank(p) \in Nat /\ Rank(p + 1) \in Nat
       /\ Rank(p + 1) = Rank(p) + (IF p \in T THEN 1 ELSE 0)
  BY <1>1, BeforeNext
<1> HIDE DEF Rank, Beyond
<1>11. p \in T /\ Rank(p) = k
  BY <1>6, <1>8, <1>9, <1>10
<1> QED
  BY <1>11 DEF Rank

\* A greater number of a set has more before it, and none has all before it.
LEMMA RanksGrow ==
    ASSUME NEW n \in Nat, NEW T, T \subseteq 1 .. n, NEW i \in T
    PROVE  /\ Cardinality(T) \in Nat /\ Cardinality(Before(T, i)) \in Nat
           /\ Cardinality(Before(T, i)) < Cardinality(T)
           /\ \A j \in T : i < j => Cardinality(Before(T, i)) < Cardinality(Before(T, j))
<1>1. IsFiniteSet(1 .. n)
  BY FS_Interval
<1>2. IsFiniteSet(T)
  BY <1>1, FS_Subset, Zenon
<1>3. \A S \in SUBSET T : IsFiniteSet(S) /\ Cardinality(S) \in Nat
  BY <1>2, FS_Subset, FS_CardinalityType, Zenon
<1>4. \A j \in T : Before(T, j) \in SUBSET T
  BY DEF Before
<1>5. ASSUME NEW S \in SUBSET T, Before(T, i) \in SUBSET S, i \in S
      PROVE  Cardinality(Before(T, i)) < Cardinality(S)
  <2>1. i \in Nat /\ i \notin Before(T, i)
    BY DEF Before
  <2>2. Before(T, i) # S
    BY <1>5, <2>1
  <2>3. /\ Cardinality(Before(T, i)) <= Cardinality(S)
        /\ Cardinality(S) = Cardinality(Before(T, i)) => S = Before(T, i)
    BY <1>3, <1>5, FS_Subset, Zenon
  <2>4. Cardinality(Before(T, i)) \in Nat /\ Cardinality(S) \in Nat
    BY <1>3, <1>4
  <2> QED
    BY <2>2, <2>3, <2>4
<1>6. Cardinality(Before(T, i)) < Cardinality(T)
  BY <1>4, <1>5
<1>7. ASSUME NEW j \in T, i < j
      PROVE  Cardinality(Before(T, i)) < Cardinality(Before(T, j))
  <2>1. \A m \in T : m < i => m < j
    BY <1>7
  <2>2. Before(T, i) \in SUBSET Before(T, j) /\ i \in Before(T, j)
    BY <1>7, <2>1 DEF Before
  <2> QED
    BY <1>4, <1>5, <2>2
<1> QED
  BY <1>3, <1>4, <1>6, <1>7

\* A set in order is a list of its members, each of them once.
LEMMA InOrderListsAll ==
    ASSUME NEW n \in Nat, NEW T, T \subseteq 1 .. n
    PROVE  /\ Cardinality(T) \in Nat /\ DOMAIN InOrder(T) = 1 .. Cardinality(T)
           /\ InOrder(T) \in Seq(T) /\ Len(InOrder(T)) = Cardinality(T)
           /\ \A k, l \in DOMAIN InOrder(T) : InOrder(T)[k] = InOrder(T)[l] => k = l
           /\ \A i \in T : \E k \in DOMAIN InOrder(T) : InOrder(T)[k] = i
           /\ T = 1 .. n => InOrder(T) = [k \in 1 .. n |-> k]
<1> DEFINE C == Cardinality(T)
           Rank(i) == Cardinality(Before(T, i))
           Nth(k) == CHOOSE i \in T : Rank(i) = k - 1
<1>1. C \in Nat
  <2>1. IsFiniteSet(1 .. n)
    BY FS_Interval
  <2> QED
    BY <2>1, FS_Subset, FS_CardinalityType, Zenon
<1>2. \A k \in 1 .. C : Nth(k) \in T /\ Rank(Nth(k)) = k - 1
  <2> TAKE k \in 1 .. C
  <2>1. k - 1 \in Nat /\ k - 1 < C
    BY <1>1
  <2>2. \E i \in T : Rank(i) = k - 1
    BY <2>1, RanksAreTaken
  <2> HIDE DEF Rank
  <2> QED
    BY <2>2
<1>3. InOrder(T) = [k \in 1 .. C |-> Nth(k)]
  BY DEF InOrder
<1>4. \A i, j \in T : Rank(i) \in Nat /\ Rank(i) < C /\ (i < j => Rank(i) < Rank(j))
  BY RanksGrow
<1>5. \A i, j \in T : Rank(i) = Rank(j) => i = j
  <2> TAKE i \in T, j \in T
  <2>1. Rank(i) \in Nat /\ Rank(j) \in Nat /\ (i < j => Rank(i) < Rank(j)) /\ (j < i => Rank(j) < Rank(i))
    BY <1>4
  <2>2. i \in Nat /\ j \in Nat
    OBVIOUS
  <2> HIDE DEF Rank
  <2> QED
    BY <2>1, <2>2
<1> HIDE DEF C, Rank, Nth
<1>6. InOrder(T) \in Seq(T) /\ Len(InOrder(T)) = C /\ DOMAIN InOrder(T) = 1 .. C
  BY <1>1, <1>2, <1>3
<1>7. \A k, l \in 1 .. C : Nth(k) = Nth(l) => k = l
  <2> TAKE k \in 1 .. C, l \in 1 .. C
  <2>1. Rank(Nth(k)) = k - 1 /\ Rank(Nth(l)) = l - 1 /\ k \in Nat /\ l \in Nat
    BY <1>1, <1>2
  <2> QED
    BY <2>1
<1>8. \A i \in T : \E k \in 1 .. C : Nth(k) = i
  <2> TAKE i \in T
  <2>1. Rank(i) + 1 \in 1 .. C /\ (Rank(i) + 1) - 1 = Rank(i)
    BY <1>1, <1>4
  <2>2. Nth(Rank(i) + 1) \in T /\ Rank(Nth(Rank(i) + 1)) = Rank(i)
    BY <1>2, <2>1
  <2>3. Nth(Rank(i) + 1) = i
    BY <1>5, <2>2
  <2> QED
    BY <2>1, <2>3
<1>9. ASSUME T = 1 .. n PROVE InOrder(T) = [k \in 1 .. n |-> k]
  <2>1. C = n
    BY <1>9, FS_Interval DEF C
  <2>2. \A i \in 1 .. n : Rank(i) = i - 1
    <3> TAKE i \in 1 .. n
    <3>1. Before(T, i) = 1 .. (i - 1)
      BY <1>9 DEF Before
    <3>2. Cardinality(1 .. (i - 1)) = i - 1
      BY FS_Interval
    <3> QED
      BY <3>1, <3>2 DEF Rank
  <2>3. \A k \in 1 .. n : Nth(k) = k
    <3> TAKE k \in 1 .. n
    <3>1. Nth(k) \in 1 .. n /\ Rank(Nth(k)) = k - 1
      BY <1>2, <1>9, <2>1
    <3>2. Rank(Nth(k)) = Nth(k) - 1
      BY <2>2, <3>1
    <3>3. Nth(k) \in Nat /\ k \in Nat
      BY <3>1
    <3> QED
      BY <3>1, <3>2, <3>3
  <2> QED
    BY <1>3, <2>1, <2>3
<1>10. /\ \A k, l \in DOMAIN InOrder(T) : InOrder(T)[k] = InOrder(T)[l] => k = l
       /\ \A i \in T : \E k \in DOMAIN InOrder(T) : InOrder(T)[k] = i
  BY <1>3, <1>7, <1>8
<1> QED
  BY <1>1, <1>6, <1>9, <1>10 DEF C

----------------------------------------------------------------------------
(* AgenticAnswer: a reply goes out by itself only when it is earned.       *)

\* What is left of the documents found: documents of them that have text; all
\* of them, in their places, when each has some.
LEMMA ContextHasText ==
    ASSUME NEW kb \in Seq(Articles)
    PROVE  /\ Context(kb) \in Seq(Articles)
           /\ \A n \in DOMAIN Context(kb) : Context(kb)[n].text # "blank"
           /\ (\A i \in DOMAIN kb : kb[i].text # "blank") => Context(kb) = kb
<1> DEFINE T == {i \in DOMAIN kb : kb[i].text # "blank"}
           places == InOrder(T)
<1>1. T \subseteq 1 .. Len(kb) /\ Len(kb) \in Nat /\ DOMAIN kb = 1 .. Len(kb)
  OBVIOUS
<1>2. Context(kb) = [n \in DOMAIN places |-> kb[places[n]]]
  BY DEF Context
<1>3. \A i \in T : kb[i] \in Articles /\ kb[i].text # "blank"
  OBVIOUS
<1>4. (\A i \in DOMAIN kb : kb[i].text # "blank") => T = 1 .. Len(kb)
  BY <1>1
<1> HIDE DEF T
<1>5. /\ places \in Seq(T) /\ Len(places) \in Nat /\ DOMAIN places = 1 .. Len(places)
      /\ T = 1 .. Len(kb) => places = [k \in 1 .. Len(kb) |-> k]
  <2>1. /\ Cardinality(T) \in Nat /\ DOMAIN InOrder(T) = 1 .. Cardinality(T)
        /\ InOrder(T) \in Seq(T) /\ Len(InOrder(T)) = Cardinality(T)
        /\ T = 1 .. Len(kb) => InOrder(T) = [k \in 1 .. Len(kb) |-> k]
    BY <1>1, InOrderListsAll, Zenon
  <2> QED
    BY <2>1, Zenon
<1> HIDE DEF places
<1>6. \A n \in DOMAIN places : kb[places[n]] \in Articles /\ kb[places[n]].text # "blank"
  BY <1>3, <1>5
<1>7. T = 1 .. Len(kb) => Context(kb) = kb
  BY <1>1, <1>2, <1>5
<1> QED
  BY <1>2, <1>4, <1>5, <1>6, <1>7

\* A first candidate that fits is one that fits.
LEMMA FirstFits ==
    ASSUME NEW n \in Nat, NEW candidates, DOMAIN candidates = 1 .. n, NEW fitting
    PROVE  First(candidates, fitting) \in fitting \union {NoModel}
<1> DEFINE Places == {i \in DOMAIN candidates : candidates[i] \in fitting}
<1>1. CASE Places = {}
  BY <1>1 DEF First
<1>2. CASE Places # {}
  <2>1. Places \subseteq Nat
    OBVIOUS
  <2>2. \E i \in Places : \A j \in Places : i <= j
    <3> HIDE DEF Places
    <3> QED
      BY <1>2, <2>1, SmallestOf
  <2> DEFINE i == CHOOSE i \in Places : \A j \in Places : i <= j
  <2>3. i \in Places
    <3> HIDE DEF Places
    <3> QED
      BY <2>2
  <2>4. First(candidates, fitting) = candidates[i]
    BY <1>2 DEF First
  <2> HIDE DEF i
  <2> QED
    BY <2>3, <2>4
<1> QED
  BY <1>1, <1>2

\* Under the strict policy the judge is not the generator.
LEMMA JudgeIsIndependent ==
    ASSUME NEW generator, NEW runtime, NEW strict \in BOOLEAN
    PROVE  LET judge == ResolveJudge(generator, runtime, strict) IN
           /\ judge \in Models \union {NoModel}
           /\ strict /\ judge # NoModel => judge # generator
<1> DEFINE fitting == IF strict THEN Independent(generator) ELSE Models
<1>1. PICK n \in Nat : DOMAIN Candidates(generator, runtime) = 1 .. n
  <2>1. DOMAIN <<generator>> = 1 .. 1 /\ DOMAIN <<runtime.fast, runtime.strong>> = 1 .. 2
    OBVIOUS
  <2> QED
    BY <2>1 DEF Candidates
<1>2. ResolveJudge(generator, runtime, strict) \in fitting \union {NoModel}
  BY <1>1, FirstFits DEF ResolveJudge
<1> QED
  BY <1>2 DEF Independent

Places == {"pending", "select", "fixed", "loop", "tools", "graph", "raised", "done"}

Flows ==
    [step : Places, own : Models \union {NoModel}, writer : Models \union {NoModel},
     loops : 0 .. MaxToolLoops, calls : 0 .. MaxToolCalls, output : BOOLEAN,
     kb : Seq(Articles), searches : Nat, longest : Nat]

Replies ==
    [kind : {"none", "ticket", "cancelled", "confirm", "answer", "fallback", "order", "refusal"},
     route : {"none", "agentic", "auto", "human"}, cited : SUBSET Nat,
     danger : SUBSET {"injection", "pii"}, docs : Seq(Articles), quality : Nat,
     judge : Models \union {NoModel}, strict : BOOLEAN, author : Models \union {NoModel},
     scorer : Models \union {NoModel}]

\* A model writes in the loop; the documents are those of the searches, and
\* after one search they are what it found.
FlowInvariant ==
    /\ flow \in Flows
    /\ flow.step \in {"loop", "tools"} => flow.writer # NoModel
    /\ flow.step = "tools" => flow.calls > 0
    /\ flow.searches = 0 => flow.kb = <<>> /\ flow.longest = 0
    /\ flow.searches = 1 => flow.longest = Len(flow.kb)

\* There is no reply before the flow is done.
AgenticInvariant ==
    /\ FlowInvariant
    /\ reply \in Replies
    /\ flow.step # "done" => reply = NoReply
    /\ AutoIsCited /\ AutoIsJudged /\ CitationsNameTheirDocs /\ DeliveredIsSafe

\* What a reply r of the flow f has to bring to go out by itself.
Deserves(r, f) ==
    /\ r \in Replies
    /\ \A n \in DOMAIN r.docs : r.docs[n].text # "blank"
    /\ r.route = "auto" =>
          /\ r.cited # {} /\ r.cited \subseteq 1 .. Len(r.docs)
          /\ r.kind \in {"answer", "fallback", "order"}
          /\ r.judge # NoModel /\ r.quality >= MinQuality
          /\ r.strict /\ r.kind = "answer" =>
                /\ r.judge # f.writer
                /\ r.author \in Answerers(f.writer) /\ r.scorer \in Answerers(r.judge)
          /\ r.kind = "answer" => r.docs = Context(f.kb)

LEMMA Floors == MinQuality \in Nat /\ MinQuality > 0 /\ MinQuality - 1 \in Nat
<1>1. MinQuality \in 1 .. 100
  BY AgenticAnswerAssumption
<1> QED
  BY <1>1

LEMMA NoReplyIsOne == NoReply \in Replies /\ NoReply.route = "none"
<1>1. {} \in SUBSET Nat /\ {} \in SUBSET {"injection", "pii"} /\ <<>> \in Seq(Articles)
  OBVIOUS
<1> QED
  BY <1>1 DEF NoReply, Replies

\* What a reply is after the safety check.
LEMMA SecureReply ==
    ASSUME NEW r \in Replies
    PROVE  \/ /\ Secure(r) = [r EXCEPT !.kind = "refusal", !.route = "human", !.cited = {},
                                       !.danger = {}, !.quality = 0]
              /\ Secure(r) \in Replies
              /\ Secure(r).route = "human" /\ Secure(r).danger = {}
           \/ /\ Secure(r) = [r EXCEPT !.danger = r.danger \ {"pii"}]
              /\ Secure(r) \in Replies
              /\ r.kind = "confirm" \/ ("injection" \notin r.danger
                                        /\ \A i \in DOMAIN r.docs : r.docs[i].text # "injection")
<1> DEFINE Refused == /\ r.kind # "confirm"
                      /\ \/ "injection" \in r.danger
                         \/ \E i \in DOMAIN r.docs : r.docs[i].text = "injection"
<1>1. CASE Refused
  <2>1. Secure(r) = [r EXCEPT !.kind = "refusal", !.route = "human", !.cited = {},
                              !.danger = {}, !.quality = 0]
    BY <1>1 DEF Secure
  <2>2. {} \in SUBSET Nat /\ {} \in SUBSET {"injection", "pii"}
    OBVIOUS
  <2>3. Secure(r) = [kind |-> "refusal", route |-> "human", cited |-> {}, danger |-> {},
                     docs |-> r.docs, quality |-> 0, judge |-> r.judge, strict |-> r.strict,
                     author |-> r.author, scorer |-> r.scorer]
    BY <2>1 DEF Replies
  <2>4. /\ r.docs \in Seq(Articles) /\ r.judge \in Models \union {NoModel} /\ r.strict \in BOOLEAN
        /\ r.author \in Models \union {NoModel} /\ r.scorer \in Models \union {NoModel}
    BY DEF Replies
  <2>5. Secure(r) \in Replies /\ Secure(r).route = "human" /\ Secure(r).danger = {}
    BY <2>2, <2>3, <2>4 DEF Replies
  <2> QED
    BY <2>1, <2>5
<1>2. CASE ~ Refused
  <2>1. Secure(r) = [r EXCEPT !.danger = r.danger \ {"pii"}]
    BY <1>2 DEF Secure
  <2>2. r.danger \ {"pii"} \in SUBSET {"injection", "pii"}
    BY DEF Replies
  <2>3. Secure(r) \in Replies
    BY <2>1, <2>2 DEF Replies
  <2> QED
    BY <1>2, <2>1, <2>3
<1> QED
  BY <1>1, <1>2

\* A reply that deserves it is handed over soundly.
LEMMA HandedSoundly ==
    ASSUME FlowInvariant, NEW r, Deserves(r, flow), Hand(r), flow.step # "done"
    PROVE  AgenticInvariant'
<1>1. r \in Replies
  BY DEF Deserves
<1>2. flow' = [flow EXCEPT !.step = "done"] /\ reply' = Secure(r)
  BY DEF Hand
<1>3. FlowInvariant'
  BY <1>2 DEF FlowInvariant, Flows, Places
<1>4. flow' \in Flows /\ flow'.step = "done" /\ flow'.writer = flow.writer
      /\ flow'.kb = flow.kb /\ flow'.searches = flow.searches /\ flow'.longest = flow.longest
  BY <1>2 DEF FlowInvariant, Flows, Places
<1>5. CASE /\ Secure(r) \in Replies /\ Secure(r).route = "human" /\ Secure(r).danger = {}
  BY <1>2, <1>3, <1>4, <1>5 DEF AgenticInvariant, AutoIsCited, AutoIsJudged, GoesOut,
     CitationsNameTheirDocs, DeliveredIsSafe
<1>6. CASE /\ Secure(r) = [r EXCEPT !.danger = r.danger \ {"pii"}]
           /\ Secure(r) \in Replies
           /\ r.kind = "confirm" \/ ("injection" \notin r.danger
                                     /\ \A i \in DOMAIN r.docs : r.docs[i].text # "injection")
  <2>1. /\ reply'.kind = r.kind /\ reply'.route = r.route /\ reply'.cited = r.cited
        /\ reply'.danger = r.danger \ {"pii"} /\ reply'.docs = r.docs
        /\ reply'.quality = r.quality /\ reply'.judge = r.judge /\ reply'.strict = r.strict
        /\ reply'.author = r.author /\ reply'.scorer = r.scorer
    BY <1>1, <1>2, <1>6 DEF Replies
  <2>2. DeliveredIsSafe'
    BY <1>1, <1>6, <2>1 DEF DeliveredIsSafe, Replies
  <2>3. AutoIsCited'
    <3>1. SUFFICES ASSUME r.route = "auto"
                   PROVE  /\ r.cited # {} /\ r.danger \ {"pii"} = {}
                          /\ \A n \in r.cited : n \in DOMAIN r.docs /\ r.docs[n].text = "plain"
                          /\ r.kind \in {"answer", "fallback", "order"}
      BY <2>1 DEF AutoIsCited, GoesOut
    <3>2. /\ r.cited # {} /\ r.cited \subseteq 1 .. Len(r.docs)
          /\ r.kind \in {"answer", "fallback", "order"}
      BY <3>1 DEF Deserves
    <3>3. "injection" \notin r.danger /\ \A i \in DOMAIN r.docs : r.docs[i].text # "injection"
      BY <1>6, <3>2
    <3>4. r.danger \ {"pii"} = {}
      BY <1>1, <3>3 DEF Replies
    <3>5. \A n \in r.cited : n \in DOMAIN r.docs /\ r.docs[n].text = "plain"
      <4> TAKE n \in r.cited
      <4>1. r.docs \in Seq(Articles)
        BY <1>1 DEF Replies
      <4>2. n \in DOMAIN r.docs
        BY <3>2, <4>1
      <4>3. r.docs[n] \in Articles
        BY <4>1, <4>2
      <4>4. r.docs[n].text \in {"plain", "blank", "injection"}
        BY <4>3, AgenticAnswerAssumption
      <4> QED
        BY <3>3, <4>2, <4>4 DEF Deserves
    <3> QED
      BY <3>2, <3>4, <3>5
  <2>4. AutoIsJudged'
    BY <1>4, <2>1 DEF AutoIsJudged, GoesOut, Deserves, Answerers
  <2>5. CitationsNameTheirDocs'
    <3>1. SUFFICES ASSUME r.route = "auto", r.kind = "answer", flow.searches = 1,
                          \A i \in DOMAIN flow.kb : flow.kb[i].text # "blank"
                   PROVE  \A n \in r.cited : n <= flow.longest /\ r.docs[n] = flow.kb[n]
      BY <1>4, <2>1 DEF CitationsNameTheirDocs, GoesOut
    <3>2. flow.kb \in Seq(Articles) /\ flow.longest = Len(flow.kb)
      BY <3>1 DEF FlowInvariant, Flows
    <3>3. r.docs = flow.kb
      BY <3>1, <3>2, ContextHasText DEF Deserves
    <3>4. r.cited \subseteq 1 .. Len(r.docs)
      BY <3>1 DEF Deserves
    <3> QED
      BY <3>2, <3>3, <3>4
  <2> QED
    BY <1>2, <1>3, <1>4, <1>6, <2>2, <2>3, <2>4, <2>5 DEF AgenticInvariant
<1> QED
  BY <1>1, <1>5, <1>6, SecureReply

\* A reply with no documents behind it never goes out by itself.
LEMMA HandedUnmeasured ==
    ASSUME NEW kind \in {"ticket", "cancelled", "confirm", "answer", "fallback", "order"},
           NEW danger \in Dangerous,
           FlowInvariant, flow.step # "done", HandUnmeasured(kind, danger)
    PROVE  AgenticInvariant'
<1> DEFINE r == [NoReply EXCEPT !.kind = kind, !.route = "agentic", !.danger = danger]
<1>1. r \in Replies
  BY NoReplyIsOne DEF Replies, NoReply, Dangerous
<1>2. r.docs = <<>> /\ r.route = "agentic"
  BY DEF NoReply
<1>3. Deserves(r, flow)
  BY <1>1, <1>2 DEF Deserves
<1>4. Hand(r)
  BY DEF HandUnmeasured
<1> HIDE DEF r
<1> QED
  BY <1>3, <1>4, HandedSoundly

LEMMA AnswerersAreModels == \A m \in Models : Answerers(m) \subseteq Models
  BY AgenticAnswerAssumption DEF Answerers

\* A measured reply goes out by itself only when it deserves it.
LEMMA HandedMeasured ==
    ASSUME NEW kind \in {"answer", "fallback", "order"}, NEW cited \in SUBSET Nat,
           NEW danger \in Dangerous, NEW kb \in Seq(Articles),
           NEW model \in Models \union {NoModel}, NEW author \in Models \union {NoModel},
           kind = "answer" => /\ kb = flow.kb /\ model = flow.writer /\ model # NoModel
                              /\ author \in Answerers(flow.writer),
           FlowInvariant, flow.step # "done",
           HandMeasured(kind, cited, danger, kb, model, author)
    PROVE  AgenticInvariant'
<1>1. CASE Context(kb) = <<>>
  <2>1. HandUnmeasured(kind, danger)
    BY <1>1 DEF HandMeasured
  <2> QED
    BY <2>1, HandedUnmeasured
<1>2. CASE Context(kb) # <<>>
  <2> DEFINE Quality(e) == IF cited = {} THEN 0 ELSE e.quality
             Reply(e, strict) ==
                [kind |-> kind, cited |-> cited, danger |-> danger, docs |-> Context(kb),
                 quality |-> Quality(e), judge |-> e.judge, strict |-> strict,
                 author |-> author, scorer |-> e.scorer,
                 route |-> MeasuredRoute(cited, Context(kb), Quality(e))]
  <2>1. PICK runtime \in Runtimes, strict \in BOOLEAN :
           \E e \in Evaluations(GeneratorOf(model, runtime), runtime, strict) :
              Hand(Reply(e, strict))
    BY <1>2 DEF HandMeasured
  <2> DEFINE generator == GeneratorOf(model, runtime)
             judge == ResolveJudge(generator, runtime, strict)
  <2>2. PICK e \in Evaluations(generator, runtime, strict) : Hand(Reply(e, strict))
    BY <2>1
  <2>3. judge \in Models \union {NoModel} /\ (strict /\ judge # NoModel => judge # generator)
    BY JudgeIsIndependent
  <2>4. \/ e = [judge |-> NoModel, scorer |-> NoModel, quality |-> 0]
        \/ /\ judge # NoModel /\ e.judge = judge /\ e.scorer \in Answerers(judge)
           /\ e.quality \in {MinQuality - 1, MinQuality}
    <3> HIDE DEF generator, judge
    <3>1. judge = ResolveJudge(generator, runtime, strict)
      BY DEF judge
    <3> QED
      BY <2>2, <3>1 DEF Evaluations
  <2> HIDE DEF judge
  <2>5. /\ e.judge \in Models \union {NoModel} /\ e.quality \in Nat
        /\ e.scorer \in Models \union {NoModel}
        /\ e.quality >= MinQuality =>
              e.judge = judge /\ judge # NoModel /\ e.scorer \in Answerers(judge)
    BY <2>3, <2>4, Floors, AnswerersAreModels
  <2>6. Quality(e) \in Nat /\ (Quality(e) >= MinQuality => e.quality >= MinQuality)
    BY <2>5, Floors
  <2>7. Context(kb) \in Seq(Articles) /\ \A n \in DOMAIN Context(kb) : Context(kb)[n].text # "blank"
    BY ContextHasText
  <2>8. MeasuredRoute(cited, Context(kb), Quality(e)) \in {"auto", "agentic"}
    BY DEF MeasuredRoute
  <2>9. ASSUME MeasuredRoute(cited, Context(kb), Quality(e)) = "auto"
        PROVE  /\ cited # {} /\ cited \subseteq 1 .. Len(Context(kb))
               /\ Quality(e) >= MinQuality
    BY <2>9 DEF MeasuredRoute, Grounded, InRange
  <2>10. kind = "answer" => generator = flow.writer
    BY DEF GeneratorOf
  <2> HIDE DEF Quality, generator
  <2>11. Reply(e, strict) \in Replies
    BY <2>5, <2>6, <2>7, <2>8 DEF Replies, Dangerous
  <2>12. Deserves(Reply(e, strict), flow)
    BY <2>3, <2>5, <2>6, <2>7, <2>9, <2>10, <2>11 DEF Deserves
  <2> HIDE DEF Reply
  <2> QED
    BY <2>2, <2>12, HandedSoundly
<1> QED
  BY <1>1, <1>2

\* As long as nothing is handed over only the flow counts.
LEMMA NoReplyYet ==
    ASSUME FlowInvariant', reply = NoReply, reply' = reply
    PROVE  AgenticInvariant'
<1>1. reply' = NoReply
  OBVIOUS
<1>2. NoReply \in Replies /\ NoReply.route = "none" /\ NoReply.danger = {}
  BY NoReplyIsOne DEF NoReply
<1> HIDE DEF NoReply
<1> QED
  BY <1>1, <1>2 DEF AgenticInvariant, AutoIsCited, AutoIsJudged, GoesOut, CitationsNameTheirDocs,
     DeliveredIsSafe

LEMMA LimitsAreCounts ==
    /\ SearchLimit \in Nat /\ MaxToolLoops \in Nat /\ MaxToolCalls \in Nat /\ MaxCitation \in Nat
    /\ MaxToolLoops > 0 /\ MaxToolCalls > 0
  BY AgenticAnswerAssumption

LEMMA ExcerptsAreCited ==
    ASSUME NEW f, f.longest \in Nat
    PROVE  /\ ExcerptCitations(f) \subseteq SUBSET Nat
           /\ ExcerptDangers(f) \subseteq Dangerous
<1>1. \A c \in Citations : c \subseteq Nat
  BY LimitsAreCounts DEF Citations
<1> QED
  BY <1>1 DEF ExcerptCitations, ExcerptDangers, Dangerous

\* What a search adds to a flow.
LEMMA SearchAdds ==
    ASSUME NEW f \in Flows, NEW docs \in FoundDocs
    PROVE  /\ docs \in Seq(Articles)
           /\ WithDocs(f, docs) =
                [f EXCEPT !.kb = f.kb \o docs,
                          !.searches = IF docs = <<>> THEN f.searches ELSE f.searches + 1,
                          !.longest = IF Len(docs) > f.longest THEN Len(docs) ELSE f.longest,
                          !.output = TRUE]
           /\ WithDocs(f, docs) \in Flows
<1>1. docs \in Seq(Articles)
  BY LimitsAreCounts DEF FoundDocs
<1>2. f.kb \o docs \in Seq(Articles) /\ Len(docs) \in Nat
  BY <1>1 DEF Flows
<1> DEFINE searches == IF docs = <<>> THEN f.searches ELSE f.searches + 1
           longest == IF Len(docs) > f.longest THEN Len(docs) ELSE f.longest
<1>3. searches \in Nat /\ longest \in Nat /\ TRUE \in BOOLEAN
  BY <1>2 DEF Flows
<1>4. WithDocs(f, docs) = [f EXCEPT !.kb = f.kb \o docs, !.searches = searches,
                                    !.longest = longest, !.output = TRUE]
  BY DEF WithDocs
<1>5. [f EXCEPT !.kb = f.kb \o docs, !.searches = searches, !.longest = longest,
                !.output = TRUE] \in Flows
  <2> DEFINE kb == f.kb \o docs
  <2>1. kb \in Seq(Articles)
    BY <1>2
  <2> HIDE DEF searches, longest, kb
  <2>2. [f EXCEPT !.kb = kb, !.searches = searches, !.longest = longest, !.output = TRUE] \in Flows
    BY <1>3, <2>1 DEF Flows
  <2> QED
    BY <2>2 DEF kb
<1> QED
  BY <1>1, <1>4, <1>5

LEMMA AgenticStarts == AgenticInit => AgenticInvariant
<1> SUFFICES ASSUME AgenticInit PROVE AgenticInvariant
  OBVIOUS
<1>1. /\ flow.step \in {"pending", "select"} /\ flow.kb = <<>> /\ flow.searches = 0
      /\ flow.longest = 0 /\ reply = NoReply
  BY DEF AgenticInit
<1>2. flow \in Flows
  <2>1. <<>> \in Seq(Articles) /\ 0 \in 0 .. MaxToolLoops /\ 0 \in 0 .. MaxToolCalls
    BY LimitsAreCounts
  <2>2. PICK step \in {"pending", "select"}, own \in Models \union {NoModel} :
           flow = [step |-> step, own |-> own, writer |-> NoModel, loops |-> 0, calls |-> 0,
                   output |-> FALSE, kb |-> <<>>, searches |-> 0, longest |-> 0]
    BY DEF AgenticInit
  <2>3. step \in Places
    BY DEF Places
  <2> QED
    BY <2>1, <2>2, <2>3 DEF Flows
<1>3. FlowInvariant
  BY <1>1, <1>2 DEF FlowInvariant
<1>4. NoReply \in Replies /\ NoReply.route = "none" /\ NoReply.danger = {}
  BY NoReplyIsOne DEF NoReply
<1> HIDE DEF NoReply
<1> QED
  BY <1>1, <1>3, <1>4 DEF AgenticInvariant, AutoIsCited, AutoIsJudged, GoesOut,
     CitationsNameTheirDocs, DeliveredIsSafe

LEMMA ToolCalled ==
    ASSUME AgenticInvariant, NEW f \in Flows, Called(f), f.step = flow.step,
           f.calls = flow.calls, f.writer = flow.writer,
           f.searches = 0 => f.kb = <<>> /\ f.longest = 0,
           f.searches = 1 => f.longest = Len(f.kb)
    PROVE  AgenticInvariant'
<1>1. flow.step = "tools" /\ flow.calls > 0 /\ flow.writer # NoModel /\ reply = NoReply
  BY DEF Called, At, AgenticInvariant, FlowInvariant
<1>2. /\ flow' = [f EXCEPT !.calls = f.calls - 1,
                           !.step = IF f.calls = 1 THEN "loop" ELSE "tools"]
      /\ reply' = reply
  BY DEF Called
<1>3. f.calls \in Nat /\ f.calls - 1 \in 0 .. MaxToolCalls /\ (f.calls # 1 => f.calls - 1 > 0)
  BY <1>1, LimitsAreCounts DEF Flows
<1>4. flow' \in Flows
  BY <1>2, <1>3 DEF Flows, Places
<1>5. /\ flow'.step = (IF f.calls = 1 THEN "loop" ELSE "tools") /\ flow'.calls = f.calls - 1
      /\ flow'.writer = f.writer /\ flow'.kb = f.kb /\ flow'.searches = f.searches
      /\ flow'.longest = f.longest
  BY <1>2 DEF Flows
<1>6. FlowInvariant'
  BY <1>1, <1>3, <1>4, <1>5 DEF FlowInvariant
<1> QED
  BY <1>1, <1>2, <1>6, NoReplyYet

LEMMA AgenticStep ==
    ASSUME AgenticInvariant, AgenticNext
    PROVE  AgenticInvariant'
<1> USE DEF At
<1>1. FlowInvariant /\ flow \in Flows
  BY DEF AgenticInvariant, FlowInvariant
<1>2. flow.step # "done" => reply = NoReply
  BY DEF AgenticInvariant
<1>3. \A d \in Dangerous : d \in Dangerous /\ {} \in Dangerous
  BY DEF Dangerous
<1>4. ASSUME NEW place \in {"fixed", "graph", "raised"}, Go(place), flow.step # "done"
      PROVE  AgenticInvariant'
  <2>1. flow' = [flow EXCEPT !.step = place] /\ reply' = reply
    BY <1>4 DEF Go
  <2>2. FlowInvariant'
    BY <1>1, <2>1 DEF FlowInvariant, Flows, Places
  <2> QED
    BY <1>2, <1>4, <2>1, <2>2, NoReplyYet
<1>5. CASE TicketCreated
  BY <1>1, <1>5, HandedUnmeasured DEF TicketCreated
<1>6. CASE TicketCancelled
  BY <1>1, <1>6, HandedUnmeasured DEF TicketCancelled, Dangerous
<1>7. CASE ConfirmationAwaited
  BY <1>1, <1>7, HandedUnmeasured DEF ConfirmationAwaited
<1>8. CASE SelectModel
  <2>1. PICK runtime \in Runtimes :
           LET writer == First(<<flow.own, runtime.strong, runtime.fast>>, ToolModels)
           IN flow' = [flow EXCEPT !.writer = writer,
                                   !.step = IF writer = NoModel THEN "fixed" ELSE "loop"]
    BY <1>8 DEF SelectModel
  <2> DEFINE writer == First(<<flow.own, runtime.strong, runtime.fast>>, ToolModels)
  <2>2. writer \in Models \union {NoModel}
    <3>1. DOMAIN <<flow.own, runtime.strong, runtime.fast>> = 1 .. 3
      OBVIOUS
    <3>2. writer \in ToolModels \union {NoModel}
      BY <3>1, FirstFits
    <3> HIDE DEF writer
    <3> QED
      BY <3>2, AgenticAnswerAssumption
  <2>3. flow' = [flow EXCEPT !.writer = writer,
                             !.step = IF writer = NoModel THEN "fixed" ELSE "loop"]
    BY <2>1
  <2> HIDE DEF writer
  <2>4. FlowInvariant'
    BY <1>1, <2>2, <2>3 DEF FlowInvariant, Flows, Places
  <2>5. reply = NoReply /\ reply' = reply
    BY <1>2, <1>8 DEF SelectModel
  <2> QED
    BY <2>4, <2>5, NoReplyYet
<1>9. CASE ModelUnavailable
  BY <1>4, <1>9 DEF ModelUnavailable, InLoop
<1>10. CASE ModelReplies
  <2>1. PICK cited \in Citations, d \in Dangerous, author \in Answerers(flow.writer) :
           HandMeasured("answer", cited, d, flow.kb, flow.writer, author)
    BY <1>10 DEF ModelReplies
  <2>2. cited \in SUBSET Nat
    BY LimitsAreCounts DEF Citations
  <2>3. flow.kb \in Seq(Articles) /\ flow.writer \in Models \union {NoModel}
    BY <1>1 DEF Flows
  <2>4. flow.step # "done" /\ flow.writer # NoModel
    BY <1>1, <1>10 DEF ModelReplies, InLoop, FlowInvariant
  <2>5. author \in Models \union {NoModel}
    BY <2>3, <2>4, AnswerersAreModels
  <2> QED
    BY <1>1, <2>1, <2>2, <2>3, <2>4, <2>5, HandedMeasured
<1>11. CASE ModelCallsTools
  <2>1. PICK n \in 1 .. MaxToolCalls :
           flow' = [flow EXCEPT !.step = "tools", !.calls = n, !.loops = flow.loops + 1]
    BY <1>11 DEF ModelCallsTools
  <2>2. flow.step = "loop" /\ flow.loops < MaxToolLoops
    BY <1>11 DEF ModelCallsTools, InLoop
  <2>3. n \in 0 .. MaxToolCalls /\ n > 0 /\ flow.loops + 1 \in 0 .. MaxToolLoops
    BY <1>1, <2>2, LimitsAreCounts DEF Flows
  <2>4. FlowInvariant'
    BY <1>1, <2>1, <2>2, <2>3 DEF FlowInvariant, Flows, Places
  <2>5. reply = NoReply /\ reply' = reply
    BY <1>2, <1>11, <2>2 DEF ModelCallsTools
  <2> QED
    BY <2>4, <2>5, NoReplyYet
<1>12. CASE CallSearch
  <2>1. PICK docs \in FoundDocs : Called(WithDocs(flow, docs))
    BY <1>12 DEF CallSearch
  <2> DEFINE f == WithDocs(flow, docs)
  <2>2. /\ docs \in Seq(Articles) /\ f \in Flows
        /\ f = [flow EXCEPT !.kb = flow.kb \o docs,
                            !.searches = IF docs = <<>> THEN flow.searches ELSE flow.searches + 1,
                            !.longest = IF Len(docs) > flow.longest THEN Len(docs) ELSE flow.longest,
                            !.output = TRUE]
    BY <1>1, SearchAdds
  <2> HIDE DEF f
  <2>3. /\ f.step = flow.step /\ f.calls = flow.calls /\ f.writer = flow.writer
        /\ f.kb = flow.kb \o docs
        /\ f.searches = (IF docs = <<>> THEN flow.searches ELSE flow.searches + 1)
        /\ f.longest = (IF Len(docs) > flow.longest THEN Len(docs) ELSE flow.longest)
    BY <1>1, <2>2 DEF Flows
  <2>4. flow.kb \in Seq(Articles) /\ flow.searches \in Nat /\ flow.longest \in Nat
    BY <1>1 DEF Flows
  <2>5. CASE docs = <<>>
    <3>1. f.kb = flow.kb /\ Len(docs) = 0
      BY <2>3, <2>4, <2>5
    <3>2. f.longest = flow.longest /\ f.searches = flow.searches
      BY <2>3, <2>4, <2>5, <3>1
    <3>3. Called(f)
      BY <2>1 DEF f
    <3> QED
      BY <1>1, <2>2, <2>3, <3>1, <3>2, <3>3, ToolCalled DEF FlowInvariant
  <2>6. CASE docs # <<>>
    <3>1. Len(docs) \in Nat /\ Len(docs) > 0
      BY <2>2, <2>6
    <3>2. f.searches = flow.searches + 1 /\ f.searches # 0
      BY <2>3, <2>4, <2>6
    <3>3. f.searches = 1 => f.longest = Len(f.kb)
      <4>1. SUFFICES ASSUME f.searches = 1 PROVE f.longest = Len(f.kb)
        OBVIOUS
      <4>2. flow.kb = <<>> /\ flow.longest = 0
        BY <1>1, <2>4, <3>2, <4>1 DEF FlowInvariant
      <4>3. f.kb = docs /\ f.longest = Len(docs)
        BY <2>2, <2>3, <3>1, <4>2
      <4> QED
        BY <4>3
    <3>4. Called(f)
      BY <2>1 DEF f
    <3> QED
      BY <2>2, <2>3, <3>2, <3>3, <3>4, ToolCalled
  <2> QED
    BY <2>5, <2>6
<1>13. CASE CallOrderStatus
  <2> DEFINE f == [flow EXCEPT !.output = TRUE]
  <2>1. f \in Flows /\ f.step = flow.step /\ f.calls = flow.calls /\ f.writer = flow.writer
        /\ f.kb = flow.kb /\ f.searches = flow.searches /\ f.longest = flow.longest
    BY <1>1 DEF Flows
  <2>2. Called(f)
    BY <1>13 DEF CallOrderStatus
  <2> HIDE DEF f
  <2> QED
    BY <1>1, <2>1, <2>2, ToolCalled DEF FlowInvariant
<1>14. CASE CallSkipped
  BY <1>1, <1>14, ToolCalled DEF CallSkipped, FlowInvariant
<1>15. CASE CallCreateTicket
  BY <1>1, <1>15, HandedUnmeasured DEF CallCreateTicket
<1>16. CASE LoopsExhausted
  <2>1. flow.step = "loop"
    BY <1>16 DEF LoopsExhausted
  <2>2. CASE flow.output
    <3>1. PICK cited \in ExcerptCitations(flow), d \in ExcerptDangers(flow) :
             HandMeasured("fallback", cited, d, flow.kb, flow.writer, NoModel)
      BY <1>16, <2>2 DEF LoopsExhausted
    <3>2. cited \in SUBSET Nat /\ d \in Dangerous
      <4>1. flow.longest \in Nat
        BY <1>1 DEF Flows
      <4> QED
        BY <4>1, ExcerptsAreCited
    <3>3. flow.kb \in Seq(Articles) /\ flow.writer \in Models \union {NoModel}
      BY <1>1 DEF Flows
    <3> QED
      BY <1>1, <2>1, <3>1, <3>2, <3>3, HandedMeasured
  <2>3. CASE ~ flow.output
    BY <1>4, <1>16, <2>1, <2>3 DEF LoopsExhausted
  <2> QED
    BY <2>2, <2>3
<1>17. CASE TicketIntent
  BY <1>1, <1>17, HandedUnmeasured DEF TicketIntent
<1>18. CASE OrderReply
  <2> DEFINE f == [flow EXCEPT !.kb = <<>>, !.longest = 0]
  <2>1. PICK docs \in FoundDocs :
           \E cited \in ExcerptCitations(WithDocs(f, docs)), d \in ExcerptDangers(WithDocs(f, docs)) :
              HandMeasured("order", cited, d, docs, flow.own, NoModel)
    BY <1>18 DEF OrderReply
  <2>2. f \in Flows
    <3>1. <<>> \in Seq(Articles) /\ 0 \in Nat
      OBVIOUS
    <3> QED
      BY <1>1, <3>1 DEF Flows
  <2> HIDE DEF f
  <2>3. docs \in Seq(Articles) /\ WithDocs(f, docs) \in Flows
    BY <2>2, SearchAdds
  <2>4. WithDocs(f, docs).longest \in Nat
    BY <2>3 DEF Flows
  <2>5. PICK cited \in SUBSET Nat, d \in Dangerous :
           HandMeasured("order", cited, d, docs, flow.own, NoModel)
    BY <2>1, <2>4, ExcerptsAreCited
  <2>6. flow.own \in Models \union {NoModel} /\ flow.step # "done"
    BY <1>1, <1>18 DEF Flows, OrderReply
  <2> QED
    BY <1>1, <2>3, <2>5, <2>6, HandedMeasured
<1>19. CASE NotAgentic
  BY <1>4, <1>19 DEF NotAgentic
<1>20. CASE ToolRaises
  BY <1>4, <1>20 DEF ToolRaises
<1> QED
  BY <1>5, <1>6, <1>7, <1>8, <1>9, <1>10, <1>11, <1>12, <1>13, <1>14, <1>15, <1>16, <1>17,
     <1>18, <1>19, <1>20 DEF AgenticNext

\* No question is answered by itself unless its reply cites documents found
\* for it that have text and hold no instructions, and a judge has scored it,
\* under the strict policy not the wrapper that was asked for it and not the
\* model that wrote it unless a fallback provider answered for one of them;
\* and no reply carries what is dangerous (agent/agentic_measure.py,
\* agentic_evaluate.py, response_safety.py, llm/providers/base.py).
THEOREM AgenticRepliesAreEarned == AgenticSpec => []AgenticSafety
<1>1. AgenticInit => AgenticInvariant
  BY AgenticStarts
<1>2. AgenticInvariant /\ [AgenticNext]_agenticVars => AgenticInvariant'
  <2>1. CASE UNCHANGED agenticVars
    BY <2>1 DEF agenticVars, AgenticInvariant, FlowInvariant, AutoIsCited, AutoIsJudged, GoesOut,
       CitationsNameTheirDocs, DeliveredIsSafe
  <2> QED
    BY <2>1, AgenticStep
<1>3. AgenticInvariant => AgenticSafety
  BY DEF AgenticInvariant, FlowInvariant, Flows, Replies, AgenticSafety, AgenticTypeOK
<1> QED
  BY <1>1, <1>2, <1>3, PTL DEF AgenticSpec

----------------------------------------------------------------------------
(* KnowledgeBase: the index is never behind the rows, and gaps are grouped *)
(* by similarity.                                                          *)

Rows == [status : {"absent", "pending", "rejected", "published"}, text : 0 .. MaxEdits]

Edits == [step : {"idle", "index", "commit"}, op : {"none", "edit", "reject", "publish"},
          draft : Drafts \union {"none"}, text : 0 .. MaxEdits]

ArticleEntries == [draft : Drafts, text : 1 .. MaxEdits]

\* An editor that is not idle has read a row with a text.
EditorKnown(e) ==
    /\ editor[e].step = "idle" <=> editor[e].draft = "none"
    /\ editor[e].step # "idle" => editor[e].op # "none" /\ editor[e].text \in 1 .. MaxEdits
    /\ editor[e].step = "index" => editor[e].op = "publish"

DraftTypes ==
    /\ drafts \in [Drafts -> Rows]
    /\ \A d \in Drafts : drafts[d].status # "absent" => drafts[d].text \in 1 .. MaxEdits
    /\ editor \in [Editors -> Edits]
    /\ \A e \in Editors : EditorKnown(e)
    /\ articles \in Seq(ArticleEntries) /\ earlier \in Seq(ArticleEntries)
    /\ rebuilds \in 0 .. MaxRebuilds
    /\ clashed \subseteq Drafts /\ indexed \subseteq Drafts /\ chroma \in BOOLEAN

Holds(e, d) == editor[e].draft = d

\* e has added the article of d, where Chroma takes it, and not committed yet.
Publishes(e, d) == Holds(e, d) /\ editor[e].op = "publish" /\ editor[e].step = "commit"

Once(list, d) == \A i, j \in DOMAIN list : list[i].draft = d /\ list[j].draft = d => i = j

Entered(list, d) == \E i \in DOMAIN list : list[i].draft = d

\* The index knows the articles of the collections and of the rows that are
\* published, where Chroma takes them, and no draft that was never written.
IndexAhead(d) ==
    /\ chroma /\ drafts[d].status = "published" => d \in indexed
    /\ drafts[d].status = "absent" => d \notin indexed /\ \A e \in Editors : ~ Holds(e, d)
    /\ \A e \in Editors : chroma /\ Publishes(e, d) => d \in indexed
    /\ Entered(articles, d) \/ Entered(earlier, d) => d \in indexed

\* Without a clash one editor at a time has the draft, which is pending until
\* then, and its article is added by the one that commits it.
Orderly(d) ==
    /\ Once(articles, d) /\ Once(earlier, d)
    /\ \A e, f \in Editors : Holds(e, d) /\ Holds(f, d) => e = f
    /\ \A e \in Editors : Holds(e, d) => drafts[d].status = "pending"
    /\ d \in indexed => \/ drafts[d].status = "published"
                        \/ \E e \in Editors : Publishes(e, d)

DraftInvariant ==
    /\ DraftTypes
    /\ \A d \in Drafts : IndexAhead(d) /\ (d \notin clashed => Orderly(d))

LEMMA EditsAreCounted == MaxEdits \in Nat /\ 1 \in 1 .. MaxEdits /\ "none" \notin Drafts
  BY KnowledgeBaseAssumption

LEMMA DraftsStart == KbInit => DraftInvariant
<1> SUFFICES ASSUME KbInit PROVE DraftInvariant
  OBVIOUS
<1> USE DEF KbInit
<1>1. Idle \in Edits
  BY EditsAreCounted DEF Idle, Edits
<1>2. \A d \in Drafts : [status |-> "absent", text |-> 0] \in Rows
  BY EditsAreCounted DEF Rows
<1>3. drafts \in [Drafts -> Rows] /\ editor \in [Editors -> Edits]
  BY <1>1, <1>2
<1>4. \A d \in Drafts : drafts[d].status = "absent"
  OBVIOUS
<1>5. \A e \in Editors : editor[e].step = "idle" /\ editor[e].draft = "none"
  BY DEF Idle
<1>6. articles = <<>> /\ earlier = <<>> /\ clashed = {} /\ indexed = {} /\ rebuilds = 0
      /\ <<>> \in Seq(ArticleEntries) /\ 0 \in 0 .. MaxRebuilds
  BY KnowledgeBaseAssumption
<1>7. DraftTypes
  BY <1>3, <1>4, <1>5, <1>6 DEF DraftTypes, EditorKnown
<1>8. \A d \in Drafts, e \in Editors : ~ Holds(e, d)
  BY <1>5, EditsAreCounted DEF Holds
<1>9. \A d \in Drafts : Once(articles, d) /\ Once(earlier, d)
                         /\ ~ Entered(articles, d) /\ ~ Entered(earlier, d)
  BY <1>6 DEF Once, Entered
<1> QED
  BY <1>4, <1>6, <1>7, <1>8, <1>9 DEF DraftInvariant, IndexAhead, Orderly, Publishes

\* A draft that a step does not touch stays as it is.
LEMMA OtherDraft ==
    ASSUME DraftInvariant, NEW d \in Drafts, drafts'[d] = drafts[d],
           d \in indexed' <=> d \in indexed, d \in clashed => d \in clashed', chroma' = chroma,
           \A e \in Editors : editor'[e].draft = d => editor'[e] = editor[e],
           \A e \in Editors : editor[e].draft = d => editor'[e] = editor[e],
           \A i \in DOMAIN articles' :
              articles'[i].draft = d => i \in DOMAIN articles /\ articles'[i] = articles[i],
           \A i \in DOMAIN earlier' :
              earlier'[i].draft = d => i \in DOMAIN earlier /\ earlier'[i] = earlier[i]
    PROVE  IndexAhead(d)' /\ (d \notin clashed' => Orderly(d)')
<1>1. IndexAhead(d) /\ (d \notin clashed => Orderly(d))
  BY DEF DraftInvariant
<1>2. \A e \in Editors : (Holds(e, d)' <=> Holds(e, d)) /\ (Publishes(e, d)' <=> Publishes(e, d))
  BY DEF Holds, Publishes
<1>3. /\ Entered(articles, d)' => Entered(articles, d)
      /\ Entered(earlier, d)' => Entered(earlier, d)
  BY DEF Entered
<1>4. /\ Once(articles, d) => Once(articles, d)'
      /\ Once(earlier, d) => Once(earlier, d)'
  BY DEF Once
<1>5. IndexAhead(d)'
  BY <1>1, <1>2, <1>3 DEF IndexAhead
<1>6. d \notin clashed' => Orderly(d)'
  BY <1>1, <1>2, <1>4 DEF Orderly
<1> QED
  BY <1>5, <1>6

\* Only the editor e has changed.
OneEditor(e, me) == editor' = [editor EXCEPT ![e] = me]

LEMMA Editing ==
    ASSUME DraftTypes, NEW e \in Editors, NEW me \in Edits, OneEditor(e, me)
    PROVE  /\ editor' \in [Editors -> Edits] /\ editor'[e] = me
           /\ \A f \in Editors \ {e} : editor'[f] = editor[f]
  BY DEF DraftTypes, OneEditor

\* Unless it is clashing, the draft of an editor that only it holds is
\* pending, and indexed only when the editor is about to say so.
LEMMA HeldDraft ==
    ASSUME DraftInvariant, NEW e \in Editors, editor[e].step # "idle"
    PROVE  /\ editor[e].draft \in Drafts /\ editor[e].draft # "none"
           /\ drafts[editor[e].draft].status # "absent"
           /\ editor[e].draft \notin clashed =>
                 /\ drafts[editor[e].draft].status = "pending"
                 /\ \A f \in Editors \ {e} : editor[f].draft # editor[e].draft
                 /\ editor[e].draft \in indexed =>
                       editor[e].op = "publish" /\ editor[e].step = "commit"
<1>1. editor[e] \in Edits /\ EditorKnown(e)
  BY DEF DraftInvariant, DraftTypes
<1>2. editor[e].draft # "none" /\ editor[e].draft \in Drafts
  BY <1>1 DEF EditorKnown, Edits
<1> DEFINE d == editor[e].draft
<1> d \in Drafts
  BY <1>2
<1>3. IndexAhead(d) /\ (d \notin clashed => Orderly(d))
  BY DEF DraftInvariant
<1>4. Holds(e, d)
  BY DEF Holds
<1>5. drafts[d].status # "absent"
  BY <1>3, <1>4 DEF IndexAhead
<1>6. ASSUME d \notin clashed
      PROVE  /\ drafts[d].status = "pending"
             /\ \A f \in Editors \ {e} : editor[f].draft # d
             /\ d \in indexed => editor[e].op = "publish" /\ editor[e].step = "commit"
  <2>1. Orderly(d)
    BY <1>3, <1>6
  <2>2. drafts[d].status = "pending"
    BY <1>4, <2>1 DEF Orderly
  <2>3. \A f \in Editors \ {e} : editor[f].draft # d
    BY <1>4, <2>1 DEF Orderly, Holds
  <2>4. ASSUME d \in indexed PROVE editor[e].op = "publish" /\ editor[e].step = "commit"
    <3>1. PICK f \in Editors : Publishes(f, d)
      BY <2>1, <2>2, <2>4 DEF Orderly
    <3>2. f = e
      BY <2>3, <3>1 DEF Publishes, Holds
    <3> QED
      BY <3>1, <3>2 DEF Publishes
  <2> QED
    BY <2>2, <2>3, <2>4
<1> QED
  BY <1>2, <1>5, <1>6

LEMMA IdleHoldsNothing == Idle \in Edits /\ Idle.step = "idle" /\ Idle.draft = "none"
  BY EditsAreCounted DEF Idle, Edits

LEMMA DraftWritten ==
    ASSUME DraftInvariant, NEW c \in Drafts, WriteDraft(c)
    PROVE  DraftInvariant'
<1> USE DEF WriteDraft
<1> DEFINE row == [status |-> "pending", text |-> 1]
<1>1. row \in Rows /\ row.status = "pending" /\ row.text \in 1 .. MaxEdits
  BY EditsAreCounted DEF Rows
<1>2. drafts \in [Drafts -> Rows] /\ drafts' = [drafts EXCEPT ![c] = row]
  BY DEF DraftInvariant, DraftTypes
<1> HIDE DEF row
<1>3. drafts' \in [Drafts -> Rows] /\ drafts'[c] = row
      /\ \A d \in Drafts \ {c} : drafts'[d] = drafts[d]
  BY <1>1, <1>2
<1>4. DraftTypes'
  BY <1>1, <1>3 DEF DraftInvariant, DraftTypes, EditorKnown
<1>5. \A d \in Drafts \ {c} : IndexAhead(d)' /\ (d \notin clashed' => Orderly(d)')
  BY <1>3, OtherDraft
<1>6. c \notin indexed /\ \A e \in Editors : ~ Holds(e, c)
  BY DEF DraftInvariant, IndexAhead
<1>7. ~ Entered(articles, c) /\ ~ Entered(earlier, c)
  BY <1>6 DEF DraftInvariant, IndexAhead
<1>8. \A e \in Editors : ~ Holds(e, c)' /\ ~ Publishes(e, c)'
  BY <1>6 DEF Holds, Publishes
<1>9. IndexAhead(c)'
  BY <1>1, <1>3, <1>6, <1>7, <1>8 DEF IndexAhead, Entered
<1>10. Orderly(c)'
  BY <1>6, <1>7, <1>8 DEF Orderly, Once, Entered
<1> QED
  BY <1>4, <1>5, <1>9, <1>10 DEF DraftInvariant

LEMMA DraftRead ==
    ASSUME DraftInvariant, NEW e \in Editors, NEW c \in Drafts,
           NEW op \in {"edit", "reject", "publish"}, ReadDraft(e, c, op)
    PROVE  DraftInvariant'
<1> USE DEF ReadDraft, MayDecide
<1> DEFINE me == [step |-> IF op = "publish" THEN "index" ELSE "commit",
                  op |-> op, draft |-> c, text |-> drafts[c].text]
<1>1. drafts[c].status = "pending" /\ drafts[c].text \in 1 .. MaxEdits
  BY DEF DraftInvariant, DraftTypes
<1>2. me \in Edits
  BY <1>1 DEF Edits
<1>3. /\ me.draft = c /\ me.step \in {"index", "commit"} /\ me.op = op /\ me.text \in 1 .. MaxEdits
      /\ me.step = "index" <=> op = "publish"
  BY <1>1
<1>4. OneEditor(e, me)
  BY DEF OneEditor
<1> HIDE DEF me
<1>5. /\ editor' \in [Editors -> Edits] /\ editor'[e] = me
      /\ \A f \in Editors \ {e} : editor'[f] = editor[f]
  BY <1>2, <1>4, Editing DEF DraftInvariant
<1>6. \A f \in Editors : EditorKnown(f)'
  BY <1>3, <1>5, EditsAreCounted DEF DraftInvariant, DraftTypes, EditorKnown
<1>7. clashed' \subseteq Drafts /\ clashed \subseteq clashed'
  BY DEF DraftInvariant, DraftTypes
<1>8. DraftTypes'
  BY <1>5, <1>6, <1>7 DEF DraftInvariant, DraftTypes
<1>9. editor[e].draft = "none"
  BY DEF DraftInvariant, DraftTypes, EditorKnown
<1>10. \A d \in Drafts \ {c} : IndexAhead(d)' /\ (d \notin clashed' => Orderly(d)')
  BY <1>3, <1>5, <1>7, <1>9, EditsAreCounted, OtherDraft
<1>11. IndexAhead(c) /\ (c \notin clashed => Orderly(c))
  BY DEF DraftInvariant
<1>12. ~ Publishes(e, c)'
  BY <1>3, <1>5 DEF Publishes, Holds
<1>13. \A f \in Editors \ {e} : (Holds(f, c)' <=> Holds(f, c)) /\ (Publishes(f, c)' <=> Publishes(f, c))
  BY <1>5 DEF Publishes, Holds
<1>14. IndexAhead(c)'
  BY <1>1, <1>11, <1>12, <1>13 DEF IndexAhead, Entered
<1>15. ASSUME c \notin clashed' PROVE Orderly(c)'
  <2>1. c \notin clashed /\ \A f \in Editors \ {e} : ~ Holds(f, c)
    BY <1>7, <1>15 DEF Holds
  <2>2. ~ Publishes(e, c)
    BY <1>9, EditsAreCounted DEF Publishes, Holds
  <2>3. c \notin indexed
    BY <1>1, <1>11, <2>1, <2>2 DEF Orderly, Publishes
  <2> QED
    BY <1>1, <1>11, <1>13, <2>1, <2>3 DEF Orderly, Once
<1> QED
  BY <1>8, <1>10, <1>14, <1>15 DEF DraftInvariant

\* An editor ends, whatever it leaves in the row of its draft.
LEMMA EditorReleased ==
    ASSUME DraftInvariant, NEW e \in Editors, editor[e].step # "idle", OneEditor(e, Idle),
           NEW c \in Drafts, c = editor[e].draft,
           NEW row \in Rows, row.status # "absent", row.text \in 1 .. MaxEdits,
           drafts' = [drafts EXCEPT ![c] = row], chroma /\ row.status = "published" => c \in indexed,
           UNCHANGED <<articles, earlier, rebuilds, indexed, chroma>>,
           clashed' \in SUBSET Drafts, clashed \subseteq clashed',
           c \notin clashed' => (c \in indexed => row.status = "published")
    PROVE  DraftInvariant'
<1>0. c \in Drafts /\ c = editor[e].draft
  OBVIOUS
<1>1. /\ c \in Drafts /\ c # "none" /\ drafts[c].status # "absent"
      /\ c \notin clashed => \A f \in Editors \ {e} : editor[f].draft # c
  BY <1>0, HeldDraft
<1>2. drafts \in [Drafts -> Rows]
  BY DEF DraftInvariant, DraftTypes
<1>3. drafts' \in [Drafts -> Rows] /\ drafts'[c] = row
      /\ \A d \in Drafts \ {c} : drafts'[d] = drafts[d]
  BY <1>0, <1>1, <1>2
<1>4. /\ editor' \in [Editors -> Edits] /\ editor'[e] = Idle
      /\ \A f \in Editors \ {e} : editor'[f] = editor[f]
  BY IdleHoldsNothing, Editing DEF DraftInvariant
<1>5. \A f \in Editors : EditorKnown(f)'
  BY <1>4, IdleHoldsNothing DEF DraftInvariant, DraftTypes, EditorKnown
<1>6. \A d \in Drafts : drafts'[d].status # "absent" => drafts'[d].text \in 1 .. MaxEdits
  BY <1>3 DEF DraftInvariant, DraftTypes
<1>7. DraftTypes'
  BY <1>3, <1>4, <1>5, <1>6 DEF DraftInvariant, DraftTypes
<1>8. \A d \in Drafts \ {c} : IndexAhead(d)' /\ (d \notin clashed' => Orderly(d)')
  BY <1>0, <1>1, <1>3, <1>4, IdleHoldsNothing, EditsAreCounted, OtherDraft
<1>9. IndexAhead(c) /\ (c \notin clashed => Orderly(c))
  BY <1>1 DEF DraftInvariant
<1>10. ~ Holds(e, c)' /\ ~ Publishes(e, c)'
  BY <1>1, <1>4, IdleHoldsNothing DEF Publishes, Holds
<1>11. \A f \in Editors \ {e} : (Holds(f, c)' <=> Holds(f, c)) /\ (Publishes(f, c)' <=> Publishes(f, c))
  BY <1>4 DEF Publishes, Holds
<1>12. IndexAhead(c)'
  BY <1>0, <1>3, <1>9, <1>10, <1>11 DEF IndexAhead, Entered
<1>13. ASSUME c \notin clashed' PROVE Orderly(c)'
  <2>1. c \notin clashed
    BY <1>13
  <2>2. \A f \in Editors : ~ Holds(f, c)'
    BY <1>1, <1>10, <1>11, <2>1 DEF Holds
  <2>3. c \in indexed => row.status = "published"
    BY <1>0, <1>13
  <2> QED
    BY <1>3, <1>9, <2>1, <2>2, <2>3 DEF Orderly, Once
<1> QED
  BY <1>7, <1>8, <1>12, <1>13 DEF DraftInvariant

LEMMA ArticleAdded ==
    ASSUME DraftInvariant, NEW e \in Editors, AddArticle(e)
    PROVE  DraftInvariant'
<1> USE DEF AddArticle
<1> DEFINE c == editor[e].draft
           me == [editor[e] EXCEPT !.step = "commit"]
           added == [draft |-> c, text |-> editor[e].text]
<1>1. /\ c \in Drafts /\ c # "none" /\ drafts[c].status # "absent"
      /\ c \notin clashed =>
            /\ drafts[c].status = "pending" /\ c \notin indexed
            /\ \A f \in Editors \ {e} : editor[f].draft # c
  BY HeldDraft
<1>2. editor[e] \in Edits /\ editor[e].op = "publish" /\ editor[e].text \in 1 .. MaxEdits
  BY DEF DraftInvariant, DraftTypes, EditorKnown
<1>3. /\ me \in Edits /\ me.draft = c /\ me.step = "commit" /\ me.op = "publish"
      /\ me.text \in 1 .. MaxEdits
  BY <1>2 DEF Edits
<1>4. OneEditor(e, me)
  BY <1>2 DEF OneEditor, DraftInvariant, DraftTypes
<1>5. added \in ArticleEntries /\ added.draft = c
  BY <1>1, <1>2 DEF ArticleEntries
<1> HIDE DEF me
<1>6. /\ editor' \in [Editors -> Edits] /\ editor'[e] = me
      /\ \A f \in Editors \ {e} : editor'[f] = editor[f]
  BY <1>3, <1>4, Editing DEF DraftInvariant
<1>7. \A f \in Editors : EditorKnown(f)'
  BY <1>1, <1>3, <1>6 DEF DraftInvariant, DraftTypes, EditorKnown
<1>8. articles \in Seq(ArticleEntries) /\ articles' = Append(articles, added)
  BY DEF DraftInvariant, DraftTypes
<1> HIDE DEF added
<1>9. /\ articles' \in Seq(ArticleEntries) /\ DOMAIN articles' = 1 .. Len(articles) + 1
      /\ DOMAIN articles = 1 .. Len(articles) /\ Len(articles) \in Nat
      /\ articles'[Len(articles) + 1] = added
      /\ \A i \in DOMAIN articles : articles'[i] = articles[i]
  BY <1>5, <1>8
<1>10. indexed' = indexed \union {c}
  OBVIOUS
<1>11. DraftTypes'
  BY <1>1, <1>6, <1>7, <1>9, <1>10 DEF DraftInvariant, DraftTypes
<1>12. \A d \in Drafts \ {c} : \A i \in DOMAIN articles' :
          articles'[i].draft = d => i \in DOMAIN articles /\ articles'[i] = articles[i]
  BY <1>5, <1>9
<1>13. \A d \in Drafts \ {c} : IndexAhead(d)' /\ (d \notin clashed' => Orderly(d)')
  BY <1>3, <1>6, <1>10, <1>12, OtherDraft
<1>14. IndexAhead(c) /\ (c \notin clashed => Orderly(c))
  BY <1>1 DEF DraftInvariant
<1>15. c \in indexed' /\ Publishes(e, c)'
  BY <1>3, <1>6, <1>10 DEF Publishes, Holds
<1>16. IndexAhead(c)'
  BY <1>1, <1>15 DEF IndexAhead
<1>17. ASSUME c \notin clashed' PROVE Orderly(c)'
  <2>1. c \notin clashed
    BY <1>17
  <2>2. ~ Entered(articles, c) /\ ~ Entered(earlier, c)
    BY <1>1, <1>14, <2>1 DEF IndexAhead
  <2>3. Once(articles, c)'
    BY <1>9, <2>2 DEF Once, Entered
  <2>4. Once(earlier, c)'
    BY <1>14, <2>1 DEF Orderly, Once
  <2>5. \A f \in Editors : Holds(f, c)' => f = e
    BY <1>1, <1>6, <2>1 DEF Holds
  <2>6. drafts'[c].status = "pending"
    BY <1>1, <2>1
  <2> QED
    BY <1>15, <2>3, <2>4, <2>5, <2>6 DEF Orderly
<1> QED
  BY <1>11, <1>13, <1>16, <1>17 DEF DraftInvariant

\* The request goes on to its commit with nothing added.
LEMMA ArticleSkipped ==
    ASSUME DraftInvariant, NEW e \in Editors, SkipArticle(e)
    PROVE  DraftInvariant'
<1> USE DEF SkipArticle
<1>1. PICK c \in Drafts : c = editor[e].draft
  BY HeldDraft
<1>2. PICK me : me = [editor[e] EXCEPT !.step = "commit"]
  OBVIOUS
<1>3. editor[e] \in Edits /\ editor[e].op = "publish" /\ editor[e].text \in 1 .. MaxEdits
      /\ c # "none" /\ ~ chroma
  BY <1>1, EditsAreCounted DEF DraftInvariant, DraftTypes, EditorKnown
<1>4. /\ me \in Edits /\ me.draft = c /\ me.step = "commit" /\ me.op = "publish"
      /\ me.text \in 1 .. MaxEdits
  BY <1>1, <1>2, <1>3 DEF Edits
<1>5. OneEditor(e, me)
  BY <1>2, <1>3 DEF OneEditor, DraftInvariant, DraftTypes
<1>6. /\ editor' \in [Editors -> Edits] /\ editor'[e] = me
      /\ \A f \in Editors \ {e} : editor'[f] = editor[f]
  BY <1>4, <1>5, Editing DEF DraftInvariant
<1>7. \A f \in Editors : EditorKnown(f)'
  BY <1>3, <1>4, <1>6 DEF DraftInvariant, DraftTypes, EditorKnown
<1>8. DraftTypes'
  BY <1>6, <1>7 DEF DraftInvariant, DraftTypes
<1>9. \A d \in Drafts \ {c} : IndexAhead(d)' /\ (d \notin clashed' => Orderly(d)')
  BY <1>1, <1>4, <1>6, OtherDraft
<1>10. IndexAhead(c) /\ (c \notin clashed => Orderly(c))
  BY DEF DraftInvariant
<1>11. \A f \in Editors : (Holds(f, c)' <=> Holds(f, c)) /\ (Publishes(f, c) => Publishes(f, c)')
  BY <1>1, <1>4, <1>6 DEF Publishes, Holds
<1>12. IndexAhead(c)'
  BY <1>3, <1>10, <1>11 DEF IndexAhead, Entered
<1>13. c \notin clashed' => Orderly(c)'
  BY <1>10, <1>11 DEF Orderly, Once
<1> QED
  BY <1>8, <1>9, <1>12, <1>13 DEF DraftInvariant

LEMMA DraftCommitted ==
    ASSUME DraftInvariant, NEW e \in Editors, CommitDraft(e)
    PROVE  DraftInvariant'
<1> USE DEF CommitDraft
<1>1. PICK c \in Drafts : c = editor[e].draft
  BY HeldDraft
<1>2. /\ drafts[c].status # "absent" /\ editor[e].step = "commit"
      /\ c \notin clashed => /\ drafts[c].status = "pending"
                             /\ c \in indexed => editor[e].op = "publish"
  BY <1>1, HeldDraft
<1>3. /\ drafts \in [Drafts -> Rows] /\ drafts[c] \in Rows /\ drafts[c].text \in 1 .. MaxEdits
      /\ editor[e] \in Edits /\ editor[e].text \in 1 .. MaxEdits
      /\ editor[e].op \in {"edit", "reject", "publish"}
  BY <1>2 DEF DraftInvariant, DraftTypes, EditorKnown, Edits
<1>4. PICK row : row = Committed(editor[e], drafts[c])
  OBVIOUS
<1>5. drafts' = [drafts EXCEPT ![c] = row]
  BY <1>1, <1>4
<1>6. OneEditor(e, Idle) /\ UNCHANGED <<articles, earlier, rebuilds, indexed, chroma>>
  BY DEF OneEditor
<1>7. IndexAhead(c) /\ clashed' = clashed /\ clashed' \in SUBSET Drafts /\ clashed \subseteq clashed'
  BY DEF DraftInvariant, DraftTypes
<1>a. ASSUME row \in Rows, row.status # "absent", row.text \in 1 .. MaxEdits,
             chroma /\ row.status = "published" => c \in indexed,
             c \notin clashed' => (c \in indexed => row.status = "published")
      PROVE  DraftInvariant'
  <2>1. editor[e].step # "idle"
    BY <1>2
  <2> QED
    BY <1>1, <1>5, <1>6, <1>7, <1>a, <2>1, EditorReleased, Zenon
<1>8. CASE editor[e].op = "edit"
  <2>1. row = [drafts[c] EXCEPT !.text = editor[e].text + 1]
    BY <1>4, <1>8 DEF Committed
  <2>2. editor[e].text + 1 \in 1 .. MaxEdits
    BY <1>3, <1>8, EditsAreCounted
  <2>3. row \in Rows /\ row.status = drafts[c].status /\ row.text \in 1 .. MaxEdits
    BY <1>3, <2>1, <2>2 DEF Rows
  <2>4. chroma /\ row.status = "published" => c \in indexed
    BY <1>7, <2>3 DEF IndexAhead
  <2>5. c \notin clashed => c \notin indexed
    BY <1>2, <1>8
  <2> QED
    BY <1>2, <1>7, <1>a, <2>3, <2>4, <2>5
<1>9. CASE editor[e].op = "reject"
  <2>1. row = [drafts[c] EXCEPT !.status = "rejected"]
    BY <1>4, <1>9 DEF Committed
  <2>2. row \in Rows /\ row.status = "rejected" /\ row.text \in 1 .. MaxEdits
    BY <1>3, <2>1 DEF Rows
  <2>3. c \notin clashed => c \notin indexed
    BY <1>2, <1>9
  <2> QED
    BY <1>7, <1>a, <2>2, <2>3
<1>10. CASE editor[e].op = "publish"
  <2>1. row = [drafts[c] EXCEPT !.status = "published"]
    BY <1>4, <1>10 DEF Committed
  <2>2. row \in Rows /\ row.status = "published" /\ row.text \in 1 .. MaxEdits
    BY <1>3, <2>1 DEF Rows
  <2>3. chroma => c \in indexed
    BY <1>1, <1>2, <1>7, <1>10 DEF IndexAhead, Publishes, Holds
  <2> QED
    BY <1>a, <2>2, <2>3
<1> QED
  BY <1>3, <1>8, <1>9, <1>10

\* A request that ends with an error leaves the row as it was.
LEMMA EditorFails ==
    ASSUME DraftInvariant, NEW e \in Editors, PublishRefused(e) \/ CommitFails(e)
    PROVE  DraftInvariant'
<1> USE DEF PublishRefused, CommitFails
<1>1. PICK c \in Drafts : c = editor[e].draft
  BY HeldDraft
<1>2. /\ drafts[c].status # "absent"
      /\ c \notin clashed => (c \in indexed => editor[e].step = "commit")
  BY <1>1, HeldDraft
<1>3. /\ drafts \in [Drafts -> Rows] /\ drafts[c] \in Rows /\ drafts[c].text \in 1 .. MaxEdits
  BY <1>2 DEF DraftInvariant, DraftTypes
<1>4. drafts' = [drafts EXCEPT ![c] = drafts[c]]
  BY <1>1, <1>3
<1>5. OneEditor(e, Idle) /\ UNCHANGED <<articles, earlier, rebuilds, indexed, chroma>>
  BY DEF OneEditor
<1>6. chroma /\ drafts[c].status = "published" => c \in indexed
  BY DEF DraftInvariant, IndexAhead
<1>7. /\ clashed' \in SUBSET Drafts /\ clashed \subseteq clashed'
      /\ c \notin clashed' => c \notin indexed
  BY <1>1, <1>2 DEF DraftInvariant, DraftTypes
<1>8. editor[e].step # "idle" /\ (c \notin clashed' => (c \in indexed => drafts[c].status = "published"))
  BY <1>7
<1> QED
  BY <1>1, <1>2, <1>3, <1>4, <1>5, <1>6, <1>7, <1>8, EditorReleased, Zenon

\* Collections change places, or an empty one comes.
LEMMA IndexReplaced ==
    ASSUME DraftInvariant, RebuildFromUploads \/ RollBackIndex
    PROVE  DraftInvariant'
<1> USE DEF RebuildFromUploads, RollBackIndex
<1>1. /\ rebuilds' \in 0 .. MaxRebuilds /\ articles' \in Seq(ArticleEntries) /\ earlier' = articles
      /\ articles' = <<>> \/ articles' = earlier
  <2>1. rebuilds \in 0 .. MaxRebuilds /\ MaxRebuilds \in Nat
    BY KnowledgeBaseAssumption DEF DraftInvariant, DraftTypes
  <2>2. rebuilds' \in 0 .. MaxRebuilds
    BY <2>1
  <2>3. <<>> \in Seq(ArticleEntries) /\ earlier \in Seq(ArticleEntries)
    BY DEF DraftInvariant, DraftTypes
  <2>4. earlier' = articles /\ (articles' = <<>> \/ articles' = earlier)
    OBVIOUS
  <2> QED
    BY <2>2, <2>3, <2>4
<1>2. DraftTypes'
  BY <1>1 DEF DraftInvariant, DraftTypes, EditorKnown
<1>3. ASSUME NEW d \in Drafts PROVE IndexAhead(d)' /\ (d \notin clashed' => Orderly(d)')
  <2>1. IndexAhead(d) /\ (d \notin clashed => Orderly(d))
    BY DEF DraftInvariant
  <2>2. \A e \in Editors : (Holds(e, d)' <=> Holds(e, d)) /\ (Publishes(e, d)' <=> Publishes(e, d))
    BY DEF Holds, Publishes
  <2>3. Entered(articles, d)' \/ Entered(earlier, d)' => Entered(articles, d) \/ Entered(earlier, d)
    BY <1>1 DEF Entered
  <2>4. Once(articles, d) /\ Once(earlier, d) => Once(articles, d)' /\ Once(earlier, d)'
    BY <1>1 DEF Once
  <2>5. IndexAhead(d)'
    BY <2>1, <2>2, <2>3 DEF IndexAhead
  <2>6. d \notin clashed' => Orderly(d)'
    BY <2>1, <2>2, <2>4 DEF Orderly
  <2> QED
    BY <2>5, <2>6
<1> QED
  BY <1>2, <1>3 DEF DraftInvariant

LEMMA DraftsStep ==
    ASSUME DraftInvariant, DraftStep PROVE DraftInvariant'
  BY DraftWritten, DraftRead, DraftCommitted, EditorFails, ArticleAdded, ArticleSkipped,
     IndexReplaced DEF DraftStep

LEMMA DraftsAreSound == DraftInvariant => PublishedWasIndexed /\ TwiceNeedsClash
<1> SUFFICES ASSUME DraftInvariant PROVE PublishedWasIndexed /\ TwiceNeedsClash
  OBVIOUS
<1>1. PublishedWasIndexed
  BY DEF DraftInvariant, IndexAhead, PublishedWasIndexed
<1>2. TwiceNeedsClash
  <2> SUFFICES ASSUME NEW d \in Drafts \ clashed
               PROVE  Once(articles, d) /\ (drafts[d].status = "rejected" => d \notin indexed)
    BY DEF TwiceNeedsClash, Once
  <2>1. Orderly(d)
    BY DEF DraftInvariant
  <2>2. ASSUME drafts[d].status = "rejected", d \in indexed PROVE FALSE
    BY <2>1, <2>2 DEF Orderly, Publishes
  <2> QED
    BY <2>1, <2>2 DEF Orderly
<1> QED
  BY <1>1, <1>2

Distinct(s) == \A i, j \in DOMAIN s : s[i] = s[j] => i = j

LEMMA AppendedDistinct ==
    ASSUME NEW S, NEW s \in Seq(S), NEW x \in S, Distinct(s), x \notin ToSet(s)
    PROVE  /\ Append(s, x) \in Seq(S) /\ Distinct(Append(s, x))
           /\ ToSet(Append(s, x)) = ToSet(s) \union {x}
<1>1. /\ Append(s, x) \in Seq(S) /\ Len(s) \in Nat /\ DOMAIN s = 1 .. Len(s)
      /\ DOMAIN Append(s, x) = 1 .. Len(s) + 1
      /\ \A i \in 1 .. Len(s) : Append(s, x)[i] = s[i]
      /\ Append(s, x)[Len(s) + 1] = x
  OBVIOUS
<1>2. \A i \in 1 .. Len(s) : s[i] # x
  BY <1>1 DEF ToSet
<1>3. Distinct(Append(s, x))
  BY <1>1, <1>2 DEF Distinct
<1>4. ToSet(Append(s, x)) = ToSet(s) \union {x}
  <2>1. \A i \in 1 .. Len(s) + 1 : i \in 1 .. Len(s) \/ i = Len(s) + 1
    BY <1>1
  <2>2. Len(s) + 1 \in 1 .. Len(s) + 1 /\ 1 .. Len(s) \subseteq 1 .. Len(s) + 1
    BY <1>1
  <2> QED
    BY <1>1, <2>1, <2>2, Zenon DEF ToSet
<1> QED
  BY <1>1, <1>3, <1>4

LEMMA JoinedDistinct ==
    ASSUME NEW S, NEW s \in Seq(S), NEW t \in Seq(S), Distinct(s), Distinct(t),
           ToSet(s) \intersect ToSet(t) = {}
    PROVE  /\ s \o t \in Seq(S) /\ Distinct(s \o t)
           /\ ToSet(s \o t) = ToSet(s) \union ToSet(t)
<1> DEFINE m == Len(s)
           n == Len(t)
<1>1. /\ s \o t \in Seq(S) /\ m \in Nat /\ n \in Nat /\ DOMAIN s = 1 .. m /\ DOMAIN t = 1 .. n
      /\ DOMAIN (s \o t) = 1 .. m + n
      /\ \A i \in 1 .. m : (s \o t)[i] = s[i]
      /\ \A i \in 1 .. n : (s \o t)[m + i] = t[i]
  OBVIOUS
<1> DEFINE u == s \o t
<1> HIDE DEF m, n, u
<1>2. \A i \in 1 .. m + n : \/ i \in 1 .. m /\ u[i] = s[i]
                            \/ \E j \in 1 .. n : i = m + j /\ u[i] = t[j]
  <2> TAKE i \in 1 .. m + n
  <2>1. CASE i <= m
    BY <1>1, <2>1 DEF u
  <2>2. CASE i > m
    <3>1. i - m \in 1 .. n /\ i = m + (i - m)
      BY <1>1, <2>2
    <3> QED
      BY <1>1, <3>1 DEF u
  <2> QED
    BY <1>1, <2>1, <2>2
<1>3. \A i \in 1 .. m, j \in 1 .. n : s[i] # t[j]
  BY <1>1 DEF ToSet
<1>4. Distinct(u)
  <2> SUFFICES ASSUME NEW i \in 1 .. m + n, NEW j \in 1 .. m + n, u[i] = u[j] PROVE i = j
    BY <1>1 DEF Distinct, u
  <2>1. CASE i \in 1 .. m /\ u[i] = s[i] /\ j \in 1 .. m /\ u[j] = s[j]
    BY <1>1, <2>1 DEF Distinct
  <2>2. ASSUME NEW k \in 1 .. n, i = m + k, u[i] = t[k], NEW l \in 1 .. n, j = m + l, u[j] = t[l]
        PROVE  i = j
    BY <1>1, <2>2 DEF Distinct
  <2>3. ASSUME NEW k \in 1 .. m, NEW l \in 1 .. n
        PROVE  ~ (u[i] = s[k] /\ u[j] = t[l]) /\ ~ (u[j] = s[k] /\ u[i] = t[l])
    BY <1>3
  <2> QED
    BY <1>2, <2>1, <2>2, <2>3
<1>5. ToSet(u) = ToSet(s) \union ToSet(t)
  <2>1. \A i \in 1 .. m : i \in 1 .. m + n /\ u[i] = s[i]
    BY <1>1 DEF u
  <2>2. \A j \in 1 .. n : m + j \in 1 .. m + n /\ u[m + j] = t[j]
    BY <1>1 DEF u
  <2>3. DOMAIN u = 1 .. m + n
    BY <1>1 DEF u
  <2> HIDE DEF u
  <2> QED
    <3>1. ASSUME NEW x \in ToSet(u) PROVE x \in ToSet(s) \union ToSet(t)
      <4>1. PICK i \in 1 .. m + n : x = u[i]
        BY <2>3 DEF ToSet
      <4>2. CASE i \in 1 .. m /\ u[i] = s[i]
        BY <1>1, <4>1, <4>2 DEF ToSet
      <4>3. CASE \E j \in 1 .. n : i = m + j /\ u[i] = t[j]
        BY <1>1, <4>1, <4>3 DEF ToSet
      <4> QED
        BY <1>2, <4>2, <4>3
    <3>2. ASSUME NEW x \in ToSet(s) PROVE x \in ToSet(u)
      BY <1>1, <2>1, <2>3 DEF ToSet
    <3>3. ASSUME NEW x \in ToSet(t) PROVE x \in ToSet(u)
      <4>1. PICK j \in 1 .. n : x = t[j]
        BY <1>1 DEF ToSet
      <4>2. m + j \in DOMAIN u /\ x = u[m + j]
        BY <2>2, <2>3, <4>1, Zenon
      <4> QED
        BY <4>2, Zenon DEF ToSet
    <3>4. ToSet(u) \subseteq ToSet(s) \union ToSet(t)
      BY <3>1, Zenon
    <3>5. ToSet(s) \union ToSet(t) \subseteq ToSet(u)
      BY <3>2, <3>3, Zenon
    <3> QED
      BY <3>4, <3>5, Zenon
<1> QED
  BY <1>1, <1>4, <1>5 DEF u

LEMMA FrontDistinct ==
    ASSUME NEW S, NEW s \in Seq(S), s # <<>>, Distinct(s)
    PROVE  /\ Front(s) \in Seq(S) /\ Distinct(Front(s)) /\ Last(s) \in S /\ Last(s) \in ToSet(s)
           /\ ToSet(Front(s)) = ToSet(s) \ {Last(s)}
<1>1. PICK n \in Nat : n + 1 = Len(s)
  <2>1. Len(s) \in Nat /\ Len(s) > 0
    OBVIOUS
  <2>2. Len(s) - 1 \in Nat /\ (Len(s) - 1) + 1 = Len(s)
    BY <2>1
  <2> QED
    BY <2>2
<1>2. DOMAIN s = 1 .. n + 1 /\ Last(s) = s[n + 1]
  BY <1>1 DEF Last
<1>3. /\ Front(s) \in Seq(S) /\ DOMAIN Front(s) = 1 .. n
      /\ \A i \in 1 .. n : Front(s)[i] = s[i]
  BY <1>1 DEF Front
<1>4. \A i \in 1 .. n + 1 : i \in 1 .. n \/ i = n + 1
  OBVIOUS
<1>5. 1 .. n \subseteq 1 .. n + 1 /\ n + 1 \in 1 .. n + 1 /\ n + 1 \notin 1 .. n
  OBVIOUS
<1>6. Distinct(Front(s))
  BY <1>2, <1>3, <1>5 DEF Distinct
<1>7. ToSet(Front(s)) = ToSet(s) \ {Last(s)}
  <2>1. ASSUME NEW x \in ToSet(Front(s)) PROVE x \in ToSet(s) /\ x # Last(s)
    <3>1. PICK i \in 1 .. n : x = s[i]
      BY <1>3 DEF ToSet
    <3>2. i \in DOMAIN s /\ i # n + 1 /\ n + 1 \in DOMAIN s
      BY <1>2, <1>5
    <3> QED
      BY <1>2, <3>1, <3>2 DEF ToSet, Distinct
  <2>2. ASSUME NEW x \in ToSet(s), x # Last(s) PROVE x \in ToSet(Front(s))
    <3>1. PICK i \in 1 .. n + 1 : x = s[i]
      BY <1>2 DEF ToSet
    <3>2. i \in 1 .. n
      BY <1>2, <1>4, <2>2, <3>1
    <3> QED
      BY <1>3, <3>1, <3>2 DEF ToSet
  <2> QED
    BY <2>1, <2>2
<1>8. Last(s) \in S /\ Last(s) \in ToSet(s)
  BY <1>2, <1>5 DEF ToSet
<1> QED
  BY <1>3, <1>6, <1>7, <1>8

LEMMA DistinctCounted ==
    ASSUME NEW S, NEW s \in Seq(S), Distinct(s)
    PROVE  Len(s) = Cardinality(ToSet(s))
<1>1. Len(s) \in Nat /\ DOMAIN s = 1 .. Len(s) /\ s \in [1 .. Len(s) -> ToSet(s)]
  BY DEF ToSet
<1>2. \A i, j \in 1 .. Len(s) : s[i] = s[j] => i = j
  BY <1>1 DEF Distinct
<1>3. \A x \in ToSet(s) : \E i \in 1 .. Len(s) : s[i] = x
  BY <1>1 DEF ToSet
<1>4. ExistsBijection(1 .. Len(s), ToSet(s))
  BY <1>1, <1>2, <1>3, Zenon DEF ExistsBijection, Bijection, Injection, Surjection, IsInjective
<1> QED
  BY <1>1, <1>4, FS_CountingElements

\* A set that no cut leaves without a pair of R across it.
Linked(U, R) == \A S \in SUBSET U : S \notin {{}, U} => \E p \in S, q \in U \ S : {p, q} \in R

Walks == [next : 1 .. QuestionCount + 1, stack : Seq(Questions), visited : SUBSET Questions,
          component : Seq(Questions), clusters : SUBSET Seq(Questions)]

Waiting == ToSet(grouping.stack)
Joined == ToSet(grouping.component)
Walked == Waiting \union Joined
Clustered == UNION {ToSet(c) : c \in grouping.clusters}

\* Every question passed over is visited, and every visited one waits, has
\* joined the group or is in a complete one, each once.
WalkInOrder ==
    /\ grouping \in Walks
    /\ \A q \in Questions : q < grouping.next => q \in grouping.visited
    /\ grouping.visited = Walked \union Clustered
    /\ Distinct(grouping.stack) /\ Distinct(grouping.component)
    /\ \A c \in grouping.clusters : Distinct(c)
    /\ Waiting \intersect Joined = {} /\ Walked \intersect Clustered = {}
    /\ \A c, d \in grouping.clusters : c # d => ToSet(c) \intersect ToSet(d) = {}

\* Similar questions stay together: what has joined has brought its own.
WalkIsClosed ==
    /\ \A p \in Joined, q \in Questions : {p, q} \in similar => q \in Walked
    /\ \A c \in grouping.clusters : \A p \in ToSet(c), q \in Questions : {p, q} \in similar => q \in ToSet(c)

WalkIsLinked == Linked(Walked, similar) /\ \A c \in grouping.clusters : Linked(ToSet(c), similar)

GapInvariant ==
    /\ similar \in SUBSET {pair \in SUBSET Questions : Cardinality(pair) = 2}
    /\ WalkInOrder /\ WalkIsClosed /\ WalkIsLinked

\* What is similar to a linked set can be added to it.
LEMMA LinkedGrows ==
    ASSUME NEW U, NEW R, Linked(U, R), NEW q \in U, NEW N, \A n \in N : {q, n} \in R
    PROVE  Linked(U \union N, R)
<1> SUFFICES ASSUME NEW S \in SUBSET (U \union N), S # {}, S # U \union N
             PROVE  \E a \in S, b \in (U \union N) \ S : {a, b} \in R
  BY Zenon DEF Linked
<1>1. \A n \in N : {n, q} \in R
  <2>1. \A n \in N : {n, q} = {q, n}
    OBVIOUS
  <2> QED
    BY <2>1
<1>2. CASE S \intersect U = {}
  BY <1>1, <1>2
<1>3. CASE S \intersect U = U
  BY <1>3
<1>4. CASE S \intersect U \notin {{}, U}
  <2>1. S \intersect U \in SUBSET U
    OBVIOUS
  <2>2. PICK a \in S \intersect U, b \in U \ (S \intersect U) : {a, b} \in R
    BY <1>4, <2>1, Zenon DEF Linked
  <2> QED
    BY <2>2
<1> QED
  BY <1>2, <1>3, <1>4

LEMMA GapsStart == KbInit => GapInvariant
<1> SUFFICES ASSUME KbInit PROVE GapInvariant
  OBVIOUS
<1>1. /\ grouping = [next |-> 1, stack |-> <<>>, visited |-> {}, component |-> <<>>, clusters |-> {}]
      /\ similar \in SUBSET {pair \in SUBSET Questions : Cardinality(pair) = 2}
  BY Zenon DEF KbInit
<1>2. /\ grouping.next = 1 /\ grouping.stack = <<>> /\ grouping.component = <<>>
      /\ grouping.visited = {} /\ grouping.clusters = {}
  BY <1>1
<1>3. grouping \in Walks
  <2>1. <<>> \in Seq(Questions) /\ 1 \in 1 .. QuestionCount + 1
    BY KnowledgeBaseAssumption
  <2> QED
    BY <1>1, <2>1 DEF Walks
<1>4. ToSet(<<>>) = {} /\ Distinct(<<>>)
  BY DEF ToSet, Distinct
<1>5. Waiting = {} /\ Joined = {} /\ Walked = {} /\ Clustered = {}
  BY <1>2, <1>4 DEF Waiting, Joined, Walked, Clustered
<1>6. WalkInOrder
  BY <1>2, <1>3, <1>4, <1>5, KnowledgeBaseAssumption DEF WalkInOrder, Questions
<1>7. WalkIsClosed /\ WalkIsLinked
  BY <1>2, <1>5 DEF WalkIsClosed, WalkIsLinked, Linked
<1> QED
  BY <1>1, <1>6, <1>7 DEF GapInvariant

LEMMA GroupStarted ==
    ASSUME GapInvariant, StartGroup
    PROVE  GapInvariant'
<1> DEFINE n == grouping.next
<1>1. /\ n \in Questions /\ n + 1 \in 1 .. QuestionCount + 1 /\ grouping \in Walks
      /\ grouping.stack = <<>> /\ grouping.component = <<>>
  BY KnowledgeBaseAssumption DEF StartGroup, GapInvariant, WalkInOrder, Walks, Questions
<1>2. similar' = similar /\ Waiting = {} /\ Joined = {} /\ Walked = {}
  BY <1>1 DEF StartGroup, Waiting, Joined, Walked, ToSet
<1>3. \A q \in Questions : q < n + 1 => q < n \/ q = n
  BY <1>1 DEF Questions
<1>4. CASE n \in grouping.visited
  <2>1. grouping' = [grouping EXCEPT !.next = n + 1]
    BY <1>4 DEF StartGroup
  <2>2. /\ grouping' \in Walks /\ grouping'.next = n + 1 /\ grouping'.stack = grouping.stack
        /\ grouping'.component = grouping.component /\ grouping'.visited = grouping.visited
        /\ grouping'.clusters = grouping.clusters
    BY <1>1, <2>1 DEF Walks
  <2>3. Waiting' = Waiting /\ Joined' = Joined /\ Walked' = Walked /\ Clustered' = Clustered
    BY <2>2 DEF Waiting, Joined, Walked, Clustered
  <2>4. WalkInOrder'
    BY <1>3, <1>4, <2>2, <2>3 DEF GapInvariant, WalkInOrder
  <2>5. WalkIsClosed' /\ WalkIsLinked'
    BY <1>2, <2>2, <2>3 DEF GapInvariant, WalkIsClosed, WalkIsLinked
  <2> QED
    BY <1>2, <2>4, <2>5 DEF GapInvariant
<1>5. CASE n \notin grouping.visited
  <2>1. grouping' = [grouping EXCEPT !.next = n + 1, !.stack = <<n>>,
                                     !.visited = grouping.visited \union {n}]
    BY <1>5 DEF StartGroup
  <2>2. /\ grouping' \in Walks /\ grouping'.next = n + 1 /\ grouping'.stack = <<n>>
        /\ grouping'.component = grouping.component
        /\ grouping'.visited = grouping.visited \union {n}
        /\ grouping'.clusters = grouping.clusters
    <3>1. <<n>> \in Seq(Questions) /\ grouping.visited \union {n} \in SUBSET Questions
      BY <1>1 DEF Walks
    <3> HIDE DEF n
    <3> QED
      BY <1>1, <2>1, <3>1 DEF Walks
  <2>3. ToSet(<<n>>) = {n} /\ Distinct(<<n>>)
    BY DEF ToSet, Distinct
  <2>4. Waiting' = {n} /\ Joined' = {} /\ Walked' = {n} /\ Clustered' = Clustered
    BY <1>2, <2>2, <2>3 DEF Waiting, Joined, Walked, Clustered
  <2>5. WalkInOrder'
    BY <1>2, <1>3, <1>5, <2>2, <2>3, <2>4 DEF GapInvariant, WalkInOrder
  <2>6. WalkIsClosed'
    BY <1>2, <2>2, <2>4 DEF GapInvariant, WalkIsClosed
  <2>7. WalkIsLinked'
    <3>1. Linked({n}, similar)
      BY DEF Linked
    <3> QED
      BY <1>2, <2>2, <2>4, <3>1 DEF GapInvariant, WalkIsLinked
  <2> QED
    BY <1>2, <2>5, <2>6, <2>7 DEF GapInvariant
<1> QED
  BY <1>4, <1>5

\* The questions that one on the stack brings, each of them once.
LEMMA ReachedOnce ==
    ASSUME NEW q \in Questions, NEW visited
    PROVE  /\ Reached(q, visited) \in Seq(Questions) /\ Distinct(Reached(q, visited))
           /\ ToSet(Reached(q, visited)) = {c \in Questions : {q, c} \in similar /\ c \notin visited}
<1> DEFINE N == {c \in Questions : {q, c} \in similar /\ c \notin visited}
<1>1. N \subseteq 1 .. QuestionCount /\ QuestionCount \in Nat
  BY KnowledgeBaseAssumption DEF Questions
<1>2. Reached(q, visited) = InOrder(N)
  BY DEF Reached
<1>3. N \subseteq Questions
  OBVIOUS
<1> HIDE DEF N
<1>4. /\ InOrder(N) \in Seq(N)
      /\ \A k, l \in DOMAIN InOrder(N) : InOrder(N)[k] = InOrder(N)[l] => k = l
      /\ \A i \in N : \E k \in DOMAIN InOrder(N) : InOrder(N)[k] = i
  BY <1>1, InOrderListsAll, Zenon
<1>5. InOrder(N) \in Seq(Questions) /\ \A k \in DOMAIN InOrder(N) : InOrder(N)[k] \in N
  BY <1>3, <1>4
<1>6. ToSet(InOrder(N)) = N
  BY <1>4, <1>5 DEF ToSet
<1> QED
  BY <1>2, <1>4, <1>5, <1>6 DEF Distinct, N

LEMMA GroupGrown ==
    ASSUME GapInvariant, GrowGroup
    PROVE  GapInvariant'
<1>1. /\ grouping \in Walks /\ grouping.stack \in Seq(Questions) /\ grouping.stack # <<>>
      /\ grouping.component \in Seq(Questions) /\ Distinct(grouping.stack) /\ similar' = similar
  BY DEF GrowGroup, GapInvariant, WalkInOrder, Walks
<1>2. PICK q : q = Last(grouping.stack)
  OBVIOUS
<1>3. PICK new : new = Reached(q, grouping.visited)
  OBVIOUS
<1>4. PICK front : front = Front(grouping.stack)
  OBVIOUS
<1>5. /\ front \in Seq(Questions) /\ Distinct(front) /\ q \in Questions /\ q \in Waiting
      /\ ToSet(front) = Waiting \ {q}
  BY <1>1, <1>2, <1>4, FrontDistinct DEF Waiting
<1>6. PICK N \in SUBSET Questions :
         N = {c \in Questions : {q, c} \in similar /\ c \notin grouping.visited}
  OBVIOUS
<1>7. new \in Seq(Questions) /\ Distinct(new) /\ ToSet(new) = N
  BY <1>3, <1>5, <1>6, ReachedOnce
<1>8. /\ grouping.visited = Walked \union Clustered /\ Walked = Waiting \union Joined
      /\ Waiting \intersect Joined = {} /\ Walked \intersect Clustered = {}
      /\ Distinct(grouping.component) /\ grouping.visited \in SUBSET Questions
  BY <1>1 DEF GapInvariant, WalkInOrder, Walked, Walks
<1>9. N \intersect (Walked \union Clustered) = {}
  BY <1>6, <1>8
<1>10. front \o new \in Seq(Questions) /\ Distinct(front \o new)
       /\ ToSet(front \o new) = (Waiting \ {q}) \union N
  <2>1. ToSet(front) \intersect ToSet(new) = {}
    BY <1>5, <1>7, <1>8, <1>9
  <2> QED
    BY <1>5, <1>7, <2>1, JoinedDistinct
<1>11. /\ Append(grouping.component, q) \in Seq(Questions)
       /\ Distinct(Append(grouping.component, q))
       /\ ToSet(Append(grouping.component, q)) = Joined \union {q}
  <2>1. q \notin ToSet(grouping.component)
    BY <1>5, <1>8 DEF Joined
  <2> QED
    BY <1>1, <1>5, <1>8, <2>1, AppendedDistinct DEF Joined
<1>12. grouping' = [grouping EXCEPT !.stack = front \o new,
                                    !.visited = grouping.visited \union N,
                                    !.component = Append(grouping.component, q)]
  BY <1>2, <1>3, <1>4, <1>7 DEF GrowGroup
<1> DEFINE stack == front \o new
           component == Append(grouping.component, q)
           visited == grouping.visited \union N
<1>13. visited \in SUBSET Questions
  BY <1>8
<1>14. stack \in Seq(Questions) /\ component \in Seq(Questions) /\ Distinct(stack) /\ Distinct(component)
       /\ ToSet(stack) = (Waiting \ {q}) \union N /\ ToSet(component) = Joined \union {q}
  BY <1>10, <1>11
<1>15. grouping' = [grouping EXCEPT !.stack = stack, !.visited = visited, !.component = component]
  BY <1>12
<1> HIDE DEF stack, component, visited
<1>16. /\ grouping' \in Walks /\ grouping'.next = grouping.next /\ grouping'.stack = stack
       /\ grouping'.component = component /\ grouping'.visited = visited
       /\ grouping'.clusters = grouping.clusters
  BY <1>1, <1>13, <1>14, <1>15 DEF Walks
<1>17. /\ Waiting' = (Waiting \ {q}) \union N /\ Joined' = Joined \union {q}
       /\ Walked' = Walked \union N /\ Clustered' = Clustered
  <2>1. Waiting' = (Waiting \ {q}) \union N /\ Joined' = Joined \union {q}
    BY <1>14, <1>16 DEF Waiting, Joined
  <2>2. Walked' = Waiting' \union Joined' /\ Clustered' = Clustered
    BY <1>16 DEF Walked, Clustered
  <2> QED
    BY <1>5, <1>8, <2>1, <2>2
<1>18. WalkInOrder'
  <2>1. \A p \in Questions : p < grouping'.next => p \in grouping'.visited
    BY <1>16 DEF GapInvariant, WalkInOrder, visited
  <2>2. grouping'.visited = Walked' \union Clustered'
    BY <1>8, <1>16, <1>17 DEF visited
  <2>3. Waiting' \intersect Joined' = {} /\ Walked' \intersect Clustered' = {}
    BY <1>5, <1>8, <1>9, <1>17
  <2>4. /\ \A c \in grouping'.clusters : Distinct(c)
        /\ \A c, d \in grouping'.clusters : c # d => ToSet(c) \intersect ToSet(d) = {}
    BY <1>16 DEF GapInvariant, WalkInOrder
  <2>5. Distinct(grouping'.stack) /\ Distinct(grouping'.component)
    BY <1>14, <1>16
  <2> QED
    BY <1>16, <2>1, <2>2, <2>3, <2>4, <2>5 DEF WalkInOrder
<1>19. /\ \A p \in Joined, x \in Questions : {p, x} \in similar => x \in Walked
       /\ \A c \in grouping.clusters : \A p \in ToSet(c), x \in Questions :
             {p, x} \in similar => x \in ToSet(c)
  BY DEF GapInvariant, WalkIsClosed
<1>20. ASSUME NEW x \in Questions, {q, x} \in similar PROVE x \in Walked \union N
  <2>1. CASE x \notin grouping.visited
    BY <1>6, <1>20, <2>1
  <2>2. CASE x \in Walked
    BY <2>2
  <2>3. CASE x \in Clustered
    <3>1. PICK c \in grouping.clusters : x \in ToSet(c)
      BY <2>3 DEF Clustered
    <3>2. {x, q} = {q, x}
      OBVIOUS
    <3>3. q \in ToSet(c)
      BY <1>5, <1>19, <1>20, <3>1, <3>2
    <3>4. q \in Walked /\ q \in Clustered
      BY <1>5, <1>8, <3>1, <3>3 DEF Clustered
    <3> QED
      BY <1>8, <3>4
  <2> QED
    BY <1>8, <2>1, <2>2, <2>3
<1>21. WalkIsClosed'
  BY <1>1, <1>16, <1>17, <1>19, <1>20 DEF WalkIsClosed
<1>22. WalkIsLinked'
  <2>1. Linked(Walked, similar) /\ \A c \in grouping.clusters : Linked(ToSet(c), similar)
    BY DEF GapInvariant, WalkIsLinked
  <2>2. q \in Walked /\ \A x \in N : {q, x} \in similar
    BY <1>5, <1>6, <1>8
  <2>3. Linked(Walked \union N, similar)
    BY <2>1, <2>2, LinkedGrows
  <2> QED
    BY <1>1, <1>16, <1>17, <2>1, <2>3 DEF WalkIsLinked
<1> QED
  BY <1>1, <1>18, <1>21, <1>22 DEF GapInvariant

LEMMA GroupClosed ==
    ASSUME GapInvariant, CloseGroup
    PROVE  GapInvariant'
<1>1. /\ grouping \in Walks /\ grouping.stack = <<>> /\ similar' = similar
      /\ grouping' = [grouping EXCEPT !.component = <<>>,
                         !.clusters = grouping.clusters \union {grouping.component}]
  BY DEF CloseGroup, GapInvariant, WalkInOrder
<1>2. PICK group \in Seq(Questions) : group = grouping.component
  BY <1>1 DEF Walks
<1> DEFINE clusters == grouping.clusters \union {group}
<1>3. clusters \in SUBSET Seq(Questions) /\ <<>> \in Seq(Questions)
  BY <1>1, <1>2 DEF Walks
<1>4. grouping' = [grouping EXCEPT !.component = <<>>, !.clusters = clusters]
  BY <1>1, <1>2
<1> HIDE DEF clusters
<1>5. /\ grouping' \in Walks /\ grouping'.next = grouping.next /\ grouping'.stack = <<>>
      /\ grouping'.component = <<>> /\ grouping'.visited = grouping.visited
      /\ grouping'.clusters = clusters
  BY <1>1, <1>3, <1>4 DEF Walks
<1>6. ToSet(<<>>) = {} /\ Distinct(<<>>)
  BY DEF ToSet, Distinct
<1>7. Waiting = {} /\ Joined = ToSet(group) /\ Walked = ToSet(group)
  BY <1>1, <1>2, <1>6 DEF Waiting, Joined, Walked
<1>8. Waiting' = {} /\ Joined' = {} /\ Walked' = {} /\ Clustered' = Clustered \union ToSet(group)
  BY <1>5, <1>6 DEF Waiting, Joined, Walked, Clustered, clusters
<1>9. /\ Distinct(group) /\ ToSet(group) \intersect Clustered = {}
      /\ grouping.visited = ToSet(group) \union Clustered
  BY <1>2, <1>7 DEF GapInvariant, WalkInOrder
<1>10. \A c \in grouping.clusters : ToSet(c) \intersect ToSet(group) = {}
  BY <1>9 DEF Clustered
<1>11. WalkInOrder'
  <2>1. \A c, d \in clusters : c # d => ToSet(c) \intersect ToSet(d) = {}
    BY <1>10 DEF clusters, GapInvariant, WalkInOrder
  <2>2. \A c \in clusters : Distinct(c)
    BY <1>9 DEF clusters, GapInvariant, WalkInOrder
  <2>3. \A p \in Questions : p < grouping.next => p \in grouping.visited
    BY DEF GapInvariant, WalkInOrder
  <2> QED
    BY <1>5, <1>6, <1>8, <1>9, <2>1, <2>2, <2>3 DEF WalkInOrder
<1>12. WalkIsClosed'
  <2>1. \A c \in clusters : \A p \in ToSet(c), x \in Questions : {p, x} \in similar => x \in ToSet(c)
    BY <1>7 DEF clusters, GapInvariant, WalkIsClosed
  <2> QED
    BY <1>1, <1>5, <1>8, <2>1 DEF WalkIsClosed
<1>13. WalkIsLinked'
  <2>1. \A c \in clusters : Linked(ToSet(c), similar)
    BY <1>7 DEF clusters, GapInvariant, WalkIsLinked
  <2>2. Linked({}, similar)
    BY DEF Linked
  <2> QED
    BY <1>1, <1>5, <1>8, <2>1, <2>2 DEF WalkIsLinked
<1> QED
  BY <1>1, <1>11, <1>12, <1>13 DEF GapInvariant

\* Two members of a set of two are all it has.
LEMMA PairOfTwo ==
    ASSUME NEW S \in SUBSET Questions, Cardinality(S) = 2, NEW p \in S, NEW x \in S, p # x
    PROVE  S = {p, x}
<1>1. IsFiniteSet(S)
  <2>1. IsFiniteSet(1 .. QuestionCount)
    BY FS_Interval, KnowledgeBaseAssumption
  <2> QED
    BY <2>1, FS_Subset, Zenon DEF Questions
<1>2. {p, x} \in SUBSET S
  OBVIOUS
<1>3. Cardinality({p, x}) = 2
  <2>1. IsFiniteSet({p}) /\ Cardinality({p}) = 1
    BY FS_Singleton
  <2>2. Cardinality({p} \union {x}) = 2
    BY <2>1, FS_AddElement
  <2>3. {p} \union {x} = {p, x}
    OBVIOUS
  <2> QED
    BY <2>2, <2>3
<1> QED
  BY <1>1, <1>2, <1>3, FS_Subset, Zenon

LEMMA GapsStep ==
    ASSUME GapInvariant, GapStep PROVE GapInvariant'
  BY GroupStarted, GroupGrown, GroupClosed DEF GapStep

\* The complete groups are the components of similarity.
LEMMA GapsAreSound == GapInvariant => GroupsAreComponents
<1> SUFFICES ASSUME GapInvariant, grouping.next > QuestionCount, grouping.stack = <<>>,
                    grouping.component = <<>>
             PROVE  /\ \A q \in Questions :
                          Cardinality({c \in grouping.clusters : q \in ToSet(c)}) = 1
                    /\ \A c \in grouping.clusters : Len(c) = Cardinality(ToSet(c))
                    /\ \A pair \in similar : \E c \in grouping.clusters : pair \subseteq ToSet(c)
                    /\ \A c \in grouping.clusters : Linked(ToSet(c), similar)
  BY DEF GroupsAreComponents, Linked
<1>1. /\ grouping \in Walks /\ WalkIsClosed /\ WalkIsLinked
      /\ similar \in SUBSET {pair \in SUBSET Questions : Cardinality(pair) = 2}
      /\ \A c, d \in grouping.clusters : c # d => ToSet(c) \intersect ToSet(d) = {}
      /\ \A c \in grouping.clusters : Distinct(c)
  BY DEF GapInvariant, WalkInOrder
<1>2. \A q \in Questions : \E c \in grouping.clusters : q \in ToSet(c)
  <2> TAKE q \in Questions
  <2>1. ToSet(<<>>) = {}
    BY DEF ToSet
  <2>2. Walked = {}
    BY <2>1 DEF Walked, Waiting, Joined
  <2>3. q < grouping.next
    BY <1>1, KnowledgeBaseAssumption DEF Questions, Walks
  <2>4. q \in Clustered
    BY <2>2, <2>3 DEF GapInvariant, WalkInOrder
  <2> QED
    BY <2>4 DEF Clustered
<1>3. ASSUME NEW q \in Questions
      PROVE  Cardinality({c \in grouping.clusters : q \in ToSet(c)}) = 1
  <2>1. PICK c \in grouping.clusters : q \in ToSet(c)
    BY <1>2
  <2>2. {d \in grouping.clusters : q \in ToSet(d)} = {c}
    BY <1>1, <2>1
  <2>3. Cardinality({c}) = 1
    BY FS_Singleton
  <2> QED
    BY <2>2, <2>3
<1>4. \A c \in grouping.clusters : Len(c) = Cardinality(ToSet(c))
  BY <1>1, DistinctCounted DEF Walks
<1>5. ASSUME NEW pair \in similar PROVE \E c \in grouping.clusters : pair \subseteq ToSet(c)
  <2>1. pair \subseteq Questions /\ Cardinality(pair) = 2
    BY <1>1
  <2>2. pair # {}
    <3>1. Cardinality({}) # 2
      BY FS_EmptySet
    <3> QED
      BY <2>1, <3>1, Zenon
  <2>3. PICK p \in pair : TRUE
    BY <2>2
  <2>4. PICK c \in grouping.clusters : p \in ToSet(c)
    BY <1>2, <2>1, <2>3
  <2>5. ASSUME NEW x \in pair PROVE x \in ToSet(c)
    <3>1. CASE x = p
      BY <2>4, <3>1
    <3>2. CASE x # p
      <4>1. pair = {p, x}
        BY <2>1, <3>2, PairOfTwo
      <4> QED
        BY <1>1, <2>1, <2>4, <4>1 DEF WalkIsClosed
    <3> QED
      BY <3>1, <3>2
  <2> QED
    BY <2>4, <2>5
<1>6. \A c \in grouping.clusters : Linked(ToSet(c), similar)
  BY <1>1 DEF WalkIsLinked
<1> QED
  BY <1>3, <1>4, <1>5, <1>6

LEMMA DraftsUnchanged ==
    ASSUME DraftInvariant, UNCHANGED draftVars PROVE DraftInvariant'
<1>1. \A d \in Drafts : IndexAhead(d)' /\ (d \notin clashed' => Orderly(d)')
  BY OtherDraft DEF draftVars
<1>2. DraftTypes'
  BY DEF draftVars, DraftInvariant, DraftTypes, EditorKnown
<1> QED
  BY <1>1, <1>2 DEF DraftInvariant

LEMMA GapsUnchanged ==
    ASSUME GapInvariant, UNCHANGED gapVars PROVE GapInvariant'
<1>1. Waiting' = Waiting /\ Joined' = Joined /\ Walked' = Walked /\ Clustered' = Clustered
  BY DEF gapVars, Waiting, Joined, Walked, Clustered
<1>2. WalkInOrder' /\ WalkIsClosed' /\ WalkIsLinked'
  BY <1>1 DEF gapVars, GapInvariant, WalkInOrder, WalkIsClosed, WalkIsLinked
<1> QED
  BY <1>2 DEF gapVars, GapInvariant

LEMMA KbStep ==
    ASSUME DraftInvariant, GapInvariant, [KbNext]_kbVars
    PROVE  DraftInvariant' /\ GapInvariant'
<1>1. CASE DraftStep
  <2>1. UNCHANGED gapVars
    BY <1>1 DEF DraftStep, WriteDraft, ReadDraft, AddArticle, SkipArticle, PublishRefused, CommitDraft,
       CommitFails, RebuildFromUploads, RollBackIndex
  <2> QED
    BY <1>1, <2>1, DraftsStep, GapsUnchanged
<1>2. CASE GapStep
  <2>1. UNCHANGED draftVars
    BY <1>2 DEF GapStep, StartGroup, GrowGroup, CloseGroup
  <2> QED
    BY <1>2, <2>1, DraftsUnchanged, GapsStep
<1>3. CASE UNCHANGED kbVars
  <2>1. UNCHANGED draftVars /\ UNCHANGED gapVars
    BY <1>3 DEF kbVars, draftVars, gapVars
  <2> QED
    BY <2>1, DraftsUnchanged, GapsUnchanged
<1> QED
  BY <1>1, <1>2, <1>3 DEF KbNext

\* A draft marked published has had its article indexed, its article is in a
\* collection once unless editors clash or a commit fails, and the gaps are the
\* connected components of similarity (api/routers/admin_kb.py,
\* scripts/kb_gap_detector.py).
THEOREM ArticlesAndGapsAreSound == KbSpec => []KbSafety
<1>1. KbInit => DraftInvariant /\ GapInvariant
  BY DraftsStart, GapsStart
<1>2. DraftInvariant /\ GapInvariant /\ [KbNext]_kbVars => (DraftInvariant /\ GapInvariant)'
  BY KbStep
<1>3. DraftInvariant /\ GapInvariant => KbSafety
  <2> SUFFICES ASSUME DraftInvariant, GapInvariant PROVE KbSafety
    OBVIOUS
  <2>1. \A list \in Seq(ArticleEntries) : \A a \in ToSet(list) : a.draft \in Drafts /\ a.text \in 1 .. MaxEdits
    <3>1. ASSUME NEW list \in Seq(ArticleEntries), NEW a \in ToSet(list) PROVE a \in ArticleEntries
      BY <3>1 DEF ToSet
    <3> QED
      BY <3>1 DEF ArticleEntries
  <2>2. \A a \in ToSet(articles) \union ToSet(earlier) : a.draft \in Drafts /\ a.text \in 1 .. MaxEdits
    BY <2>1 DEF DraftInvariant, DraftTypes
  <2>3. /\ \A d \in Drafts : drafts[d].status \in {"absent", "pending", "rejected", "published"}
        /\ \A e \in Editors : editor[e].step \in {"idle", "index", "commit"}
        /\ rebuilds \in 0 .. MaxRebuilds /\ chroma \in BOOLEAN
    BY DEF DraftInvariant, DraftTypes, Rows, Edits
  <2>4. grouping.next \in 1 .. QuestionCount + 1 /\ grouping.visited \subseteq Questions
    BY DEF GapInvariant, WalkInOrder, Walks
  <2> QED
    BY <2>2, <2>3, <2>4, DraftsAreSound, GapsAreSound DEF KbSafety, KbTypeOK
<1> QED
  BY <1>1, <1>2, <1>3, PTL DEF KbSpec

----------------------------------------------------------------------------
(* HybridRetrieval: what is ranked and shown.                              *)

\* The members of S that R puts before c.
Below(S, R, c) == {d \in S : <<d, c>> \in R}

\* L lists S in the order of R: the p-th has p - 1 members before it, if any has.
ListedBy(L, S, R) ==
    /\ L = [p \in 1 .. Cardinality(S) |-> L[p]]
    /\ \A p \in 1 .. Cardinality(S) :
          (\E c \in S : Cardinality(Below(S, R, c)) = p - 1)
              => L[p] \in S /\ Cardinality(Below(S, R, L[p])) = p - 1

NoRepeats(list) == \A p, q \in DOMAIN list : list[p] = list[q] => p = q

StrictOrder(S, R) ==
    /\ \A c \in S : <<c, c>> \notin R
    /\ \A c, d, e \in S : <<c, d>> \in R /\ <<d, e>> \in R => <<c, e>> \in R
    /\ \A c, d \in S : c = d \/ <<c, d>> \in R \/ <<d, c>> \in R

LEMMA BelowGrows ==
  ASSUME NEW S, IsFiniteSet(S), NEW R, StrictOrder(S, R)
  PROVE  /\ \A c \in S : Cardinality(Below(S, R, c)) \in Nat
                         /\ Cardinality(Below(S, R, c)) < Cardinality(S)
         /\ \A c, d \in S : <<c, d>> \in R =>
                Cardinality(Below(S, R, c)) < Cardinality(Below(S, R, d))
  <1>0. Cardinality(S) \in Nat
    BY FS_CardinalityType
  <1>1. ASSUME NEW c \in S
        PROVE  /\ IsFiniteSet(Below(S, R, c)) /\ Cardinality(Below(S, R, c)) \in Nat
               /\ Cardinality(Below(S, R, c) \cup {c}) = Cardinality(Below(S, R, c)) + 1
    <2>1. Below(S, R, c) \subseteq S /\ c \notin Below(S, R, c)
      BY DEF Below, StrictOrder
    <2>2. IsFiniteSet(Below(S, R, c))
      BY <2>1, FS_Subset, Zenon
    <2>3. QED
      BY <2>1, <2>2, FS_CardinalityType, FS_AddElement
  <1>2. ASSUME NEW c \in S PROVE Cardinality(Below(S, R, c)) < Cardinality(S)
    <2>1. Below(S, R, c) \cup {c} \subseteq S
      BY DEF Below
    <2>2. Cardinality(Below(S, R, c) \cup {c}) <= Cardinality(S)
      BY <2>1, FS_Subset, Zenon
    <2>3. QED
      BY <1>0, <1>1, <2>2
  <1>3. ASSUME NEW c \in S, NEW d \in S, <<c, d>> \in R
        PROVE  Cardinality(Below(S, R, c)) < Cardinality(Below(S, R, d))
    <2>1. Below(S, R, c) \cup {c} \subseteq Below(S, R, d)
      BY <1>3 DEF Below, StrictOrder
    <2>2. IsFiniteSet(Below(S, R, d))
      BY <1>1
    <2>3. Cardinality(Below(S, R, c) \cup {c}) <= Cardinality(Below(S, R, d))
      BY <2>1, <2>2, FS_Subset, Zenon
    <2>4. /\ Cardinality(Below(S, R, c)) \in Nat /\ Cardinality(Below(S, R, d)) \in Nat
          /\ Cardinality(Below(S, R, c) \cup {c}) = Cardinality(Below(S, R, c)) + 1
      BY <1>1
    <2>5. QED
      BY <2>3, <2>4
  <1>4. QED
    BY <1>1, <1>2, <1>3

LEMMA BelowIsTaken ==
  ASSUME NEW S, IsFiniteSet(S), NEW R, StrictOrder(S, R), NEW n \in Nat, n < Cardinality(S)
  PROVE  \E c \in S : Cardinality(Below(S, R, c)) = n
  <1> DEFINE N == 0 .. Cardinality(S) - 1
             f == [c \in S |-> Cardinality(Below(S, R, c))]
  <1>1. Cardinality(S) \in Nat
    BY FS_CardinalityType
  <1>2. IsFiniteSet(N) /\ Cardinality(N) = Cardinality(S)
    <2>1. 0 \in Int /\ Cardinality(S) - 1 \in Int
      BY <1>1
    <2>2. IsFiniteSet(N)
          /\ Cardinality(N) = IF 0 > Cardinality(S) - 1 THEN 0 ELSE Cardinality(S) - 1 - 0 + 1
      BY <2>1, FS_Interval
    <2>3. QED
      BY <1>1, <2>2
  <1>3. f \in [S -> N]
    BY <1>1, BelowGrows
  <1>4. \A c, d \in S : f[c] = f[d] => c = d
    <2> SUFFICES ASSUME NEW c \in S, NEW d \in S, c # d PROVE f[c] # f[d]
      OBVIOUS
    <2>1. <<c, d>> \in R \/ <<d, c>> \in R
      BY DEF StrictOrder
    <2>2. f[c] < f[d] \/ f[d] < f[c]
      BY <2>1, BelowGrows
    <2>3. f[c] \in Nat /\ f[d] \in Nat
      BY BelowGrows
    <2>4. QED
      BY <2>2, <2>3
  <1>5. f \in Injection(S, N)
    BY <1>3, <1>4 DEF Injection, IsInjective
  <1>6. f \in Surjection(S, N)
    BY <1>2, <1>5, FS_Injection
  <1>7. n \in N
    BY <1>1
  <1>8. QED
    BY <1>6, <1>7 DEF Surjection

\* The list has every member once, and in the order of R.
LEMMA ListIsOrdered ==
  ASSUME NEW S, IsFiniteSet(S), NEW R, StrictOrder(S, R), NEW L, ListedBy(L, S, R)
  PROVE  /\ ToSet(L) = S /\ L \in Seq(S)
         /\ NoRepeats(L)
         /\ \A c, d \in S : <<c, d>> \in R => Place(L, c) < Place(L, d)
  <1> DEFINE rank(c) == Cardinality(Below(S, R, c))
  <1>1. Cardinality(S) \in Nat
    BY FS_CardinalityType
  <1>2. /\ \A c \in S : rank(c) \in Nat /\ rank(c) < Cardinality(S)
        /\ \A c, d \in S : <<c, d>> \in R => rank(c) < rank(d)
    BY BelowGrows
  <1>3. \A n \in Nat : n < Cardinality(S) => \E c \in S : rank(c) = n
    BY BelowIsTaken
  <1>4. \A c, d \in S : c = d \/ <<c, d>> \in R \/ <<d, c>> \in R
    BY DEF StrictOrder
  <1>5. /\ DOMAIN L = 1 .. Cardinality(S)
        /\ \A p \in 1 .. Cardinality(S) :
              (\E c \in S : rank(c) = p - 1) => L[p] \in S /\ rank(L[p]) = p - 1
    BY DEF ListedBy
  <1> HIDE DEF rank
  <1>6. \A c, d \in S : rank(c) = rank(d) => c = d
    <2> SUFFICES ASSUME NEW c \in S, NEW d \in S, rank(c) = rank(d), c # d PROVE FALSE
      OBVIOUS
    <2>1. rank(c) \in Nat /\ (rank(c) < rank(d) \/ rank(d) < rank(c))
      BY <1>2, <1>4
    <2>2. QED
      BY <2>1
  <1>7. /\ DOMAIN L = 1 .. Cardinality(S)
        /\ \A p \in 1 .. Cardinality(S) : L[p] \in S /\ rank(L[p]) = p - 1
    <2>1. DOMAIN L = 1 .. Cardinality(S)
      BY <1>5
    <2>2. ASSUME NEW p \in 1 .. Cardinality(S) PROVE L[p] \in S /\ rank(L[p]) = p - 1
      <3>1. p - 1 \in Nat /\ p - 1 < Cardinality(S)
        BY <1>1
      <3>2. \E c \in S : rank(c) = p - 1
        BY <1>3, <3>1
      <3>3. QED
        BY <1>5, <3>2
    <2>3. QED
      BY <2>1, <2>2
  <1>8. ASSUME NEW c \in S PROVE rank(c) + 1 \in DOMAIN L /\ L[rank(c) + 1] = c
    <2>1. rank(c) + 1 \in 1 .. Cardinality(S) /\ (rank(c) + 1) - 1 = rank(c)
      BY <1>1, <1>2
    <2>2. L[rank(c) + 1] \in S /\ rank(L[rank(c) + 1]) = rank(c)
      BY <1>7, <2>1
    <2>3. QED
      BY <1>6, <1>7, <2>1, <2>2
  <1>9. ASSUME NEW c \in S PROVE Place(L, c) = rank(c) + 1
    <2>1. Place(L, c) \in DOMAIN L /\ L[Place(L, c)] = c
      BY <1>8 DEF Place
    <2>2. rank(c) = Place(L, c) - 1 /\ Place(L, c) \in Nat
      BY <1>1, <1>7, <2>1
    <2>3. QED
      BY <1>2, <2>2
  <1>10. ToSet(L) = S
    BY <1>7, <1>8 DEF ToSet
  <1>11. \A c, d \in S : <<c, d>> \in R => Place(L, c) < Place(L, d)
    BY <1>2, <1>9
  <1>12. L \in Seq(S)
    <2>1. L = [p \in 1 .. Cardinality(S) |-> L[p]]
      BY DEF ListedBy
    <2>2. L \in [1 .. Cardinality(S) -> S]
      BY <1>7, <2>1
    <2>3. QED
      BY <1>1, <2>2
  <1>13. NoRepeats(L)
    <2> SUFFICES ASSUME NEW p \in DOMAIN L, NEW q \in DOMAIN L, L[p] = L[q] PROVE p = q
      BY DEF NoRepeats
    <2>1. rank(L[p]) = p - 1 /\ rank(L[p]) = q - 1 /\ p \in Nat /\ q \in Nat
      BY <1>1, <1>7
    <2>2. QED
      BY <2>1
  <1>14. QED
    BY <1>10, <1>11, <1>12, <1>13

\* A higher rank adds no less to a score.
LEMMA QuotientFalls ==
  ASSUME NEW n \in Nat, NEW x \in Nat \ {0}, NEW y \in Nat, x <= y
  PROVE  n \div y \in Nat /\ n \div y <= n \div x
  <1>1. PICK q \in Nat : q = n \div y /\ q * y <= n
    OBVIOUS
  <1>2. q * x <= q * y
    OBVIOUS
  <1>3. q * x <= n
    BY <1>1, <1>2
  <1>4. PICK p \in Nat : p = n \div x /\ n < (p + 1) * x
    OBVIOUS
  <1>5. q * x < (p + 1) * x
    BY <1>3, <1>4
  <1>6. q < p + 1
    <2> SUFFICES ASSUME q >= p + 1 PROVE FALSE
      OBVIOUS
    <2>1. q * x >= (p + 1) * x
      OBVIOUS
    <2>2. QED
      BY <1>5, <2>1
  <1>7. QED
    BY <1>1, <1>4, <1>6

\* Rankings.

LEMMA PlaceIn ==
  ASSUME NEW list, list \in Seq(Chunks \cup {Foreign}), NEW c \in ToSet(list)
  PROVE  /\ Place(list, c) \in 1 .. Len(list) /\ list[Place(list, c)] = c
         /\ Len(list) \in Nat
  BY DEF ToSet, Place

\* A chunk that is found before another adds no less to the score.
LEMMA ScoresFollowPlaces ==
  ASSUME NEW list, list \in Seq(Chunks \cup {Foreign}), NEW c, NEW d,
         d \in ToSet(list) => c \in ToSet(list) /\ Place(list, c) <= Place(list, d)
  PROVE  /\ ScoreIn(list, c) \in Nat /\ ScoreIn(list, d) \in Nat
         /\ ScoreIn(list, d) <= ScoreIn(list, c)
  <1>1. Denominator \in Nat /\ RrfK \in Nat \ {0}
    BY HybridRetrievalAssumption
  <1>2. ASSUME NEW e \in ToSet(list)
        PROVE  /\ RrfK + Place(list, e) - 1 \in Nat \ {0}
               /\ ScoreIn(list, e) = Denominator \div (RrfK + Place(list, e) - 1)
    BY <1>1, PlaceIn DEF ScoreIn
  <1>3. ASSUME NEW e PROVE ScoreIn(list, e) \in Nat
    <2>1. CASE e \in ToSet(list)
      <3>1. PICK x \in Nat \ {0} : x = RrfK + Place(list, e) - 1
        BY <1>2, <2>1
      <3>2. Denominator \div x \in Nat
        BY <1>1, QuotientFalls
      <3>3. QED
        BY <1>2, <2>1, <3>1, <3>2
    <2>2. CASE e \notin ToSet(list)
      BY <2>2 DEF ScoreIn
    <2>3. QED
      BY <2>1, <2>2
  <1>4. CASE d \in ToSet(list)
    <2>1. RrfK + Place(list, c) - 1 <= RrfK + Place(list, d) - 1
      BY <1>1, <1>4, PlaceIn
    <2>2. QED
      BY <1>1, <1>2, <1>3, <1>4, <2>1, QuotientFalls
  <1>5. CASE d \notin ToSet(list)
    <2>1. ScoreIn(list, d) = 0
      BY <1>5 DEF ScoreIn
    <2>2. QED
      BY <1>3, <2>1
  <1>6. QED
    BY <1>4, <1>5

Met(a, b) == ToSet(a) \cup ToSet(b)

AheadPairs(a, b) == {x \in Met(a, b) \X Met(a, b) : Ahead(a, b, x[1], x[2])}

Lists == Seq(Chunks \cup {Foreign})

LEMMA AheadIsAnOrder ==
  ASSUME NEW a \in Lists, NEW b \in Lists
  PROVE  StrictOrder(Met(a, b), AheadPairs(a, b))
  <1>1. ASSUME NEW c \in Met(a, b)
        PROVE  Score(a, b, c) \in Nat /\ FirstMet(a, b, c) \in Nat
    <2>1. Score(a, b, c) \in Nat
      <3>1. ASSUME NEW list \in Lists PROVE ScoreIn(list, c) \in Nat
        <4>1. list \in Seq(Chunks \cup {Foreign})
          BY DEF Lists
        <4>2. c \in ToSet(list) => Place(list, c) <= Place(list, c)
          BY <4>1, PlaceIn
        <4>3. QED
          BY <4>1, <4>2, ScoresFollowPlaces
      <3>2. QED
        BY <3>1 DEF Score
    <2>2. FirstMet(a, b, c) \in Nat
      BY PlaceIn DEF FirstMet, Lists, Met
    <2>3. QED
      BY <2>1, <2>2
  <1>2. ASSUME NEW c \in Met(a, b), NEW d \in Met(a, b), FirstMet(a, b, c) = FirstMet(a, b, d)
        PROVE  c = d
    <2>0. a \in Seq(Chunks \cup {Foreign}) /\ b \in Seq(Chunks \cup {Foreign}) /\ Len(a) \in Nat
      BY DEF Lists
    <2>1. CASE c \in ToSet(a) /\ d \in ToSet(a)
      BY <1>2, <2>0, <2>1, PlaceIn DEF FirstMet
    <2>2. CASE c \in ToSet(a) /\ d \notin ToSet(a)
      <3>1. /\ FirstMet(a, b, c) = Place(a, c) /\ FirstMet(a, b, d) = Len(a) + Place(b, d)
            /\ d \in ToSet(b)
        BY <2>2 DEF FirstMet, Met
      <3>2. Place(a, c) <= Len(a) /\ Place(b, d) >= 1 /\ Place(a, c) \in Nat /\ Place(b, d) \in Nat
        BY <2>0, <2>2, <3>1, PlaceIn
      <3>3. Place(a, c) = Len(a) + Place(b, d) /\ Len(a) \in Nat
        BY <1>2, <2>0, <3>1
      <3>4. QED
        BY <3>2, <3>3
    <2>3. CASE c \notin ToSet(a) /\ d \in ToSet(a)
      <3>1. /\ FirstMet(a, b, d) = Place(a, d) /\ FirstMet(a, b, c) = Len(a) + Place(b, c)
            /\ c \in ToSet(b)
        BY <2>3 DEF FirstMet, Met
      <3>2. Place(a, d) <= Len(a) /\ Place(b, c) >= 1 /\ Place(a, d) \in Nat /\ Place(b, c) \in Nat
        BY <2>0, <2>3, <3>1, PlaceIn
      <3>3. QED
        BY <1>2, <2>0, <3>1, <3>2
    <2>4. CASE c \notin ToSet(a) /\ d \notin ToSet(a)
      <3>1. /\ FirstMet(a, b, d) = Len(a) + Place(b, d) /\ FirstMet(a, b, c) = Len(a) + Place(b, c)
            /\ c \in ToSet(b) /\ d \in ToSet(b)
        BY <2>4 DEF FirstMet, Met
      <3>2. /\ Place(b, d) \in Nat /\ Place(b, c) \in Nat
            /\ b[Place(b, d)] = d /\ b[Place(b, c)] = c
        BY <2>0, <3>1, PlaceIn
      <3>3. Place(b, c) = Place(b, d)
        BY <1>2, <2>0, <3>1, <3>2
      <3>4. QED
        BY <3>2, <3>3
    <2>5. QED
      BY <2>1, <2>2, <2>3, <2>4
  <1>3. ASSUME NEW c \in Met(a, b), NEW d \in Met(a, b)
        PROVE  <<c, d>> \in AheadPairs(a, b) <=> Ahead(a, b, c, d)
    BY DEF AheadPairs
  <1>4. \A c \in Met(a, b) : <<c, c>> \notin AheadPairs(a, b)
    BY <1>1, <1>3 DEF Ahead
  <1>5. \A c, d \in Met(a, b) :
            c = d \/ <<c, d>> \in AheadPairs(a, b) \/ <<d, c>> \in AheadPairs(a, b)
    <2> SUFFICES ASSUME NEW c \in Met(a, b), NEW d \in Met(a, b), c # d
                 PROVE  Ahead(a, b, c, d) \/ Ahead(a, b, d, c)
      BY <1>3
    <2>1. FirstMet(a, b, c) # FirstMet(a, b, d)
      BY <1>2
    <2>2. /\ Score(a, b, c) \in Nat /\ FirstMet(a, b, c) \in Nat
          /\ Score(a, b, d) \in Nat /\ FirstMet(a, b, d) \in Nat
      BY <1>1
    <2>3. QED
      BY <2>1, <2>2 DEF Ahead
  <1>6. ASSUME NEW c \in Met(a, b), NEW d \in Met(a, b), NEW e \in Met(a, b),
               <<c, d>> \in AheadPairs(a, b), <<d, e>> \in AheadPairs(a, b)
        PROVE  <<c, e>> \in AheadPairs(a, b)
    <2>1. /\ Score(a, b, c) \in Nat /\ FirstMet(a, b, c) \in Nat
          /\ Score(a, b, d) \in Nat /\ FirstMet(a, b, d) \in Nat
          /\ Score(a, b, e) \in Nat /\ FirstMet(a, b, e) \in Nat
      BY <1>1
    <2>2. Ahead(a, b, c, d) /\ Ahead(a, b, d, e)
      BY <1>3, <1>6
    <2>3. Ahead(a, b, c, e)
      BY <2>1, <2>2 DEF Ahead
    <2>4. QED
      BY <1>3, <2>3
  <1>7. QED
    BY <1>4, <1>5, <1>6 DEF StrictOrder

LEMMA MetIsFinite ==
  ASSUME NEW a \in Lists, NEW b \in Lists
  PROVE  IsFiniteSet(Met(a, b))
  <1>1. Met(a, b) \subseteq 1 .. (ChunkCount + 1)
    <2>1. Chunks \cup {Foreign} \subseteq 1 .. (ChunkCount + 1)
      BY HybridRetrievalAssumption DEF Chunks, Foreign
    <2>2. ToSet(a) \subseteq Chunks \cup {Foreign} /\ ToSet(b) \subseteq Chunks \cup {Foreign}
      BY DEF Lists, ToSet
    <2>3. QED
      BY <2>1, <2>2 DEF Met
  <1>2. IsFiniteSet(1 .. (ChunkCount + 1))
    BY HybridRetrievalAssumption, FS_Interval
  <1>3. QED
    BY <1>1, <1>2, FS_Subset, Zenon

\* Whoever is found before another wherever the other is found comes before it.
LEMMA FusionKeepsAgreement ==
  ASSUME NEW a \in Lists, NEW b \in Lists
  PROVE  /\ ToSet(RrfMerge(a, b)) = Met(a, b)
         /\ RrfMerge(a, b) \in Lists /\ NoRepeats(RrfMerge(a, b))
         /\ \A c, d \in Met(a, b) :
                (/\ c # d
                 /\ \A list \in {a, b} :
                       d \in ToSet(list) => c \in ToSet(list) /\ Place(list, c) < Place(list, d))
                => Place(RrfMerge(a, b), c) < Place(RrfMerge(a, b), d)
  <1>1. ListedBy(RrfMerge(a, b), Met(a, b), AheadPairs(a, b))
    <2> DEFINE S == Met(a, b)
               ahead(c) == {d \in S : Ahead(a, b, d, c)}
    <2>1. ASSUME NEW c \in S PROVE Below(S, AheadPairs(a, b), c) = ahead(c)
      BY DEF Below, AheadPairs
    <2>2. RrfMerge(a, b) = [p \in 1 .. Cardinality(S) |->
                              CHOOSE c \in S : Cardinality(ahead(c)) = p - 1]
      BY DEF RrfMerge, Met
    <2> HIDE DEF S, ahead
    <2>3. ASSUME NEW p \in 1 .. Cardinality(S), NEW c \in S, Cardinality(ahead(c)) = p - 1
          PROVE  /\ RrfMerge(a, b)[p] \in S
                 /\ Cardinality(ahead(RrfMerge(a, b)[p])) = p - 1
      BY <2>2, <2>3
    <2>4. ListedBy(RrfMerge(a, b), S, AheadPairs(a, b))
      BY <2>1, <2>2, <2>3 DEF ListedBy
    <2>5. QED
      BY <2>4 DEF S
  <1>2. /\ ToSet(RrfMerge(a, b)) = Met(a, b)
        /\ RrfMerge(a, b) \in Seq(Met(a, b)) /\ NoRepeats(RrfMerge(a, b))
        /\ \A c, d \in Met(a, b) : <<c, d>> \in AheadPairs(a, b) =>
              Place(RrfMerge(a, b), c) < Place(RrfMerge(a, b), d)
    BY <1>1, ListIsOrdered, MetIsFinite, AheadIsAnOrder
  <1>3. ASSUME NEW c \in Met(a, b), NEW d \in Met(a, b), c # d,
               \A list \in {a, b} :
                   d \in ToSet(list) => c \in ToSet(list) /\ Place(list, c) < Place(list, d)
        PROVE  Ahead(a, b, c, d)
    <2>0. a \in Seq(Chunks \cup {Foreign}) /\ b \in Seq(Chunks \cup {Foreign}) /\ Len(a) \in Nat
      BY DEF Lists
    <2>1. ASSUME NEW list \in {a, b}, d \in ToSet(list)
          PROVE  c \in ToSet(list) /\ Place(list, c) <= Place(list, d)
      <3>1. list \in Seq(Chunks \cup {Foreign}) /\ c \in ToSet(list)
            /\ Place(list, c) < Place(list, d)
        BY <1>3, <2>0, <2>1
      <3>2. Place(list, c) \in Nat /\ Place(list, d) \in Nat
        BY <2>1, <3>1, PlaceIn
      <3>3. QED
        BY <3>1, <3>2
    <2>2. /\ ScoreIn(a, c) \in Nat /\ ScoreIn(a, d) \in Nat /\ ScoreIn(a, d) <= ScoreIn(a, c)
          /\ ScoreIn(b, c) \in Nat /\ ScoreIn(b, d) \in Nat /\ ScoreIn(b, d) <= ScoreIn(b, c)
      BY <2>0, <2>1, ScoresFollowPlaces
    <2>3. /\ Score(a, b, c) \in Nat /\ Score(a, b, d) \in Nat
          /\ Score(a, b, d) <= Score(a, b, c)
      BY <2>2 DEF Score
    <2>4. FirstMet(a, b, c) < FirstMet(a, b, d)
      <3>1. CASE d \in ToSet(a)
        BY <1>3, <3>1 DEF FirstMet
      <3>2. CASE d \notin ToSet(a) /\ c \in ToSet(a)
        <4>1. d \in ToSet(b)
          BY <3>2 DEF Met
        <4>2. Place(a, c) <= Len(a) /\ Place(b, d) >= 1 /\ Place(a, c) \in Nat /\ Place(b, d) \in Nat
          BY <2>0, <3>2, <4>1, PlaceIn
        <4>3. QED
          BY <2>0, <3>2, <4>2 DEF FirstMet
      <3>3. CASE d \notin ToSet(a) /\ c \notin ToSet(a)
        <4>1. d \in ToSet(b) /\ c \in ToSet(b) /\ Place(b, c) < Place(b, d)
          BY <1>3, <3>3 DEF Met
        <4>2. Place(b, c) \in Nat /\ Place(b, d) \in Nat
          BY <2>0, <4>1, PlaceIn
        <4>3. QED
          BY <2>0, <3>3, <4>1, <4>2 DEF FirstMet
      <3>4. QED
        BY <3>1, <3>2, <3>3
    <2>5. QED
      BY <2>3, <2>4 DEF Ahead
  <1>4. ASSUME NEW c \in Met(a, b), NEW d \in Met(a, b), Ahead(a, b, c, d)
        PROVE  Place(RrfMerge(a, b), c) < Place(RrfMerge(a, b), d)
    BY <1>2, <1>4 DEF AheadPairs
  <1>5. RrfMerge(a, b) \in Lists
    <2>1. Met(a, b) \subseteq Chunks \cup {Foreign}
      BY DEF Met, Lists, ToSet
    <2>2. QED
      BY <1>2, <2>1 DEF Lists
  <1>6. QED
    BY <1>2, <1>3, <1>4, <1>5

------------------------------------------------------------
Weight(sizes, parts, n) == IF n \in parts THEN sizes[n] ELSE 0

\* g adds up the sizes of the parts as far as n.
AddsUp(g, n, sizes, parts) ==
    g = [i \in 0 .. n |-> IF i = 0 THEN 0 ELSE g[i - 1] + Weight(sizes, parts, i)]

LEMMA SumsExist ==
  ASSUME NEW sizes, NEW parts, NEW n \in Nat
  PROVE  \E g : AddsUp(g, n, sizes, parts)
  <1> DEFINE Failing == {m \in Nat : ~ \E g : AddsUp(g, m, sizes, parts)}
  <1>1. SUFFICES ASSUME Failing # {} PROVE FALSE
    OBVIOUS
  <1>2. PICK m \in Failing : \A k \in Failing : m <= k
    <2>1. Failing \subseteq Nat
      OBVIOUS
    <2> HIDE DEF Failing
    <2>2. QED
      BY <1>1, <2>1, SmallestOf
  <1>3. m # 0
    <2> SUFFICES ASSUME m = 0 PROVE \E g : AddsUp(g, m, sizes, parts)
      BY <1>2
    <2> DEFINE g == [i \in 0 .. 0 |-> 0]
    <2>1. AddsUp(g, 0, sizes, parts)
      BY DEF AddsUp
    <2>2. QED
      BY <2>1
  <1>4. PICK k \in Nat : m = k + 1
    <2>1. m - 1 \in Nat /\ m = (m - 1) + 1
      BY <1>3
    <2>2. QED
      BY <2>1
  <1>5. PICK g : AddsUp(g, k, sizes, parts)
    <2>1. k \notin Failing
      BY <1>2, <1>4
    <2>2. QED
      BY <2>1
  <1> DEFINE h == [i \in 0 .. m |-> IF i = m THEN g[k] + Weight(sizes, parts, m) ELSE g[i]]
  <1>6. ASSUME NEW i \in 0 .. m
        PROVE  h[i] = IF i = 0 THEN 0 ELSE h[i - 1] + Weight(sizes, parts, i)
    <2>1. CASE i = 0
      <3>1. 0 \in 0 .. k
        BY <1>4
      <3>2. g[0] = 0
        BY <1>5, <3>1 DEF AddsUp
      <3>3. QED
        BY <1>3, <2>1, <3>2
    <2>2. CASE i = m
      BY <1>3, <1>4, <2>2
    <2>3. CASE i # 0 /\ i # m
      <3>1. i \in 0 .. k /\ i - 1 \in 0 .. m /\ i - 1 # m
        BY <1>4, <2>3
      <3>2. g[i] = g[i - 1] + Weight(sizes, parts, i)
        BY <1>5, <2>3, <3>1 DEF AddsUp
      <3>3. QED
        BY <2>3, <3>1, <3>2
    <2>4. QED
      BY <2>1, <2>2, <2>3
  <1>7. AddsUp(h, m, sizes, parts)
    <2>1. h = [i \in 0 .. m |-> h[i]]
      OBVIOUS
    <2>2. QED
      BY <1>6, <2>1 DEF AddsUp
  <1>8. QED
    BY <1>2, <1>7

LEMMA TextSum ==
  ASSUME NEW sizes, NEW parts
  PROVE  \E g : AddsUp(g, ChunkCount, sizes, parts) /\ Text(sizes, parts) = g[ChunkCount]
  <1> DEFINE g == CHOOSE g : AddsUp(g, ChunkCount, sizes, parts)
  <1>1. AddsUp(g, ChunkCount, sizes, parts)
    BY SumsExist, HybridRetrievalAssumption
  <1>2. Text(sizes, parts) = g[ChunkCount]
    BY DEF Text, AddsUp, Weight
  <1>3. QED
    BY <1>1, <1>2

\* A chunk more is its characters more: no number of chunks has it otherwise.
LEMMA TextGrows ==
  ASSUME NEW sizes \in [Chunks \cup {Foreign} -> Nat], NEW parts \in SUBSET Chunks,
         NEW c \in Chunks, c \notin parts
  PROVE  /\ Text(sizes, parts) \in Nat
         /\ Text(sizes, parts \cup {c}) = Text(sizes, parts) + sizes[c]
  <1>0. ChunkCount \in Nat /\ c \in 1 .. ChunkCount /\ sizes[c] \in Nat
    BY HybridRetrievalAssumption DEF Chunks
  <1>1. PICK g : AddsUp(g, ChunkCount, sizes, parts) /\ Text(sizes, parts) = g[ChunkCount]
    BY TextSum
  <1>2. PICK h : /\ AddsUp(h, ChunkCount, sizes, parts \cup {c})
                 /\ Text(sizes, parts \cup {c}) = h[ChunkCount]
    BY TextSum
  <1> DEFINE Good(m) == g[m] \in Nat /\ h[m] = g[m] + (IF m < c THEN 0 ELSE sizes[c])
             Failing == {m \in 0 .. ChunkCount : ~Good(m)}
  <1>3. ASSUME Failing # {} PROVE FALSE
    <2>1. PICK m \in Failing : \A k \in Failing : m <= k
      <3>1. Failing \subseteq Nat
        OBVIOUS
      <3> HIDE DEF Failing
      <3>2. QED
        BY <1>3, <3>1, SmallestOf
    <2>2. m # 0
      <3>1. 0 \in 0 .. ChunkCount /\ g[0] = 0 /\ h[0] = 0
        BY <1>0, <1>1, <1>2 DEF AddsUp
      <3>2. Good(0)
        BY <1>0, <3>1
      <3>3. QED
        BY <2>1, <3>2
    <2>3. PICK k \in Nat : m = k + 1 /\ k \in 0 .. ChunkCount /\ m \in 1 .. ChunkCount
      <3>1. m - 1 \in Nat /\ m = (m - 1) + 1 /\ m - 1 \in 0 .. ChunkCount /\ m \in 1 .. ChunkCount
        BY <1>0, <2>1, <2>2
      <3>2. QED
        BY <3>1
    <2>4. Good(k)
      <3>1. k \notin Failing
        BY <2>1, <2>3
      <3> HIDE DEF Good
      <3>2. QED
        BY <2>3, <3>1
    <2>5. /\ g[m] = g[k] + Weight(sizes, parts, m)
          /\ h[m] = h[k] + Weight(sizes, parts \cup {c}, m)
      <3>1. ASSUME NEW f, NEW T, AddsUp(f, ChunkCount, sizes, T)
            PROVE  f[m] = f[k] + Weight(sizes, T, m)
        <4>1. m \in 0 .. ChunkCount /\ m # 0 /\ m - 1 = k
          BY <1>0, <2>3
        <4>2. f[m] = f[m - 1] + Weight(sizes, T, m)
          BY <3>1, <4>1 DEF AddsUp
        <4>3. QED
          BY <4>1, <4>2
      <3>2. QED
        BY <1>1, <1>2, <3>1
    <2>6. Weight(sizes, parts, m) \in Nat
      BY <2>3 DEF Weight, Chunks
    <2>7. CASE m = c
      <3>1. Weight(sizes, parts, m) = 0 /\ Weight(sizes, parts \cup {c}, m) = sizes[c]
        BY <2>7 DEF Weight
      <3>2. Good(m)
        BY <1>0, <2>3, <2>4, <2>5, <2>7, <3>1
      <3>3. QED
        BY <2>1, <3>2
    <2>8. CASE m # c
      <3>1. Weight(sizes, parts \cup {c}, m) = Weight(sizes, parts, m)
        BY <2>8 DEF Weight
      <3>2. m < c <=> k < c
        BY <1>0, <2>3, <2>8
      <3>3. Good(m)
        BY <1>0, <2>3, <2>4, <2>5, <2>6, <3>1, <3>2
      <3>4. QED
        BY <2>1, <3>3
    <2>9. QED
      BY <2>7, <2>8
  <1>4. Good(ChunkCount)
    <2>1. ChunkCount \in 0 .. ChunkCount /\ ChunkCount \notin Failing
      BY <1>0, <1>3
    <2> HIDE DEF Good
    <2>2. QED
      BY <2>1
  <1>5. QED
    BY <1>0, <1>1, <1>2, <1>4

\* So the characters of any chunks are a number.
LEMMA TextNat ==
  ASSUME NEW sizes \in [Chunks \cup {Foreign} -> Nat], NEW parts \in SUBSET Chunks
  PROVE  Text(sizes, parts) \in Nat
  <1>1. PICK g : AddsUp(g, ChunkCount, sizes, parts) /\ Text(sizes, parts) = g[ChunkCount]
    BY TextSum
  <1> DEFINE Failing == {m \in 0 .. ChunkCount : g[m] \notin Nat}
  <1>2. ASSUME Failing # {} PROVE FALSE
    <2>1. PICK m \in Failing : \A k \in Failing : m <= k
      <3>1. Failing \subseteq Nat
        OBVIOUS
      <3> HIDE DEF Failing
      <3>2. QED
        BY <1>2, <3>1, SmallestOf
    <2>2. m # 0
      BY <1>1, <2>1 DEF AddsUp
    <2>3. m - 1 \in 0 .. ChunkCount /\ m - 1 < m /\ m \in Chunks
      BY <2>1, <2>2, HybridRetrievalAssumption DEF Chunks
    <2>4. g[m - 1] \in Nat
      BY <2>1, <2>3
    <2>5. g[m] = g[m - 1] + Weight(sizes, parts, m)
      BY <1>1, <2>1, <2>2 DEF AddsUp
    <2>6. Weight(sizes, parts, m) \in Nat
      BY <2>3 DEF Weight
    <2>7. QED
      BY <2>1, <2>4, <2>5, <2>6
  <1>3. QED
    BY <1>1, <1>2, HybridRetrievalAssumption

LEMMA NoText ==
  ASSUME NEW sizes
  PROVE  Text(sizes, {}) = 0
  <1>1. PICK g : AddsUp(g, ChunkCount, sizes, {}) /\ Text(sizes, {}) = g[ChunkCount]
    BY TextSum
  <1> DEFINE Failing == {m \in 0 .. ChunkCount : g[m] # 0}
  <1>2. ASSUME Failing # {} PROVE FALSE
    <2>1. PICK m \in Failing : \A k \in Failing : m <= k
      <3>1. Failing \subseteq Nat
        OBVIOUS
      <3> HIDE DEF Failing
      <3>2. QED
        BY <1>2, <3>1, SmallestOf
    <2>2. m # 0
      BY <1>1, <2>1 DEF AddsUp
    <2>3. m - 1 \in 0 .. ChunkCount /\ m - 1 < m
      BY <2>1, <2>2, HybridRetrievalAssumption
    <2>4. g[m - 1] = 0
      BY <2>1, <2>3
    <2>5. g[m] = g[m - 1] + 0
      BY <1>1, <2>1, <2>2 DEF AddsUp, Weight
    <2>6. QED
      BY <2>1, <2>4, <2>5
  <1>3. QED
    BY <1>1, <1>2, HybridRetrievalAssumption

QuerySteps == {"search", "words", "rerank", "expand", "done", "raised"}

ShownEntries == [core : Chunks \cup {Foreign}, parts : SUBSET Chunks, tried : 0 .. Tries,
            room : 0 .. MaxChars]

QueryTypes ==
    /\ query \in [step : QuerySteps, vector : Lists, words : Lists, merged : Lists]
    /\ query.vector \in Rankings(Chunks \cup {Foreign}) /\ query.words \in Rankings(Chunks)
    /\ NoRepeats(query.merged)

\* The merged list is the fusion of the two rankings, or the first one when the words found none.
Fused ==
    query.step = "rerank" =>
        query.merged = IF query.words = <<>> THEN query.vector
                       ELSE RrfMerge(query.vector, query.words)

ExpansionTypes ==
    /\ size \in [Chunks \cup {Foreign} -> 1 .. MaxSize]
    /\ expansion \in [chosen : Lists, used : SUBSET (Chunks \cup {Foreign}),
                      result : Seq(ShownEntries)]
    /\ NoRepeats(expansion.chosen)

\* Results are made of the chosen chunks, in their order, and one at a time.
InTurn ==
    LET result == expansion.result IN
    /\ Len(result) <= Len(expansion.chosen)
    /\ \A i \in DOMAIN result : result[i].core = expansion.chosen[i]
    /\ \A i \in DOMAIN result : i < Len(result) => result[i].tried = Tries
    /\ query.step = "done" => Complete /\ Len(result) = Len(expansion.chosen)

\* A key is used if its chunk was chosen or joined, and a chunk is joined to one of them.
UsedOnce ==
    LET result == expansion.result IN
    /\ ToSet(expansion.chosen) \subseteq expansion.used
    /\ \A n \in expansion.used :
          n \in ToSet(expansion.chosen) \/ \E i \in DOMAIN result : n \in result[i].parts
    /\ \A i \in DOMAIN result :
          /\ result[i].parts \subseteq expansion.used
          /\ result[i].parts \cap ToSet(expansion.chosen) = {}
    /\ \A i, j \in DOMAIN result : i # j => result[i].parts \cap result[j].parts = {}

\* What is left of a budget is what the chunk and its parts have left of it.
Balanced(e) ==
    /\ size[e.core] <= MaxChars => e.room + size[e.core] + Text(size, e.parts) = MaxChars
    /\ size[e.core] > MaxChars => e.room = 0 /\ e.parts = {}

\* A neighbour that was tried is shown, or does not fit in what is left.
TriedDidNotFit(e, used) ==
    e.core \in Chunks =>
        \A t \in 1 .. e.tried :
            LET n == Neighbour(e.core, t) IN
            n \notin Chunks \/ doc[n] # doc[e.core] \/ n \in used \/ size[n] > e.room

EntriesSound ==
    \A i \in DOMAIN expansion.result :
        Balanced(expansion.result[i]) /\ TriedDidNotFit(expansion.result[i], expansion.used)

RetrievalInv ==
    /\ QueryTypes /\ Fused
    /\ ExpansionTypes /\ InTurn /\ UsedOnce /\ EntriesSound

LEMMA RankingsAreLists ==
  ASSUME NEW T, T \subseteq Chunks \cup {Foreign}, NEW s \in Rankings(T)
  PROVE  s \in Lists /\ NoRepeats(s)
  <1>1. PICK n \in 0 .. RetrievalK : s \in [1 .. n -> T]
    BY DEF Rankings
  <1>2. n \in Nat
    BY HybridRetrievalAssumption
  <1>3. s \in Lists
    BY <1>1, <1>2 DEF Lists
  <1>4. NoRepeats(s)
    BY DEF Rankings, NoRepeats
  <1>5. QED
    BY <1>3, <1>4

LEMMA NothingRanked ==
  /\ <<>> \in Lists /\ NoRepeats(<<>>) /\ ToSet(<<>>) = {}
  /\ \A T : <<>> \in Rankings(T)
  <1>1. <<>> \in Lists /\ NoRepeats(<<>>) /\ ToSet(<<>>) = {}
    BY DEF Lists, NoRepeats, ToSet
  <1>2. ASSUME NEW T PROVE <<>> \in Rankings(T)
    <2>1. 0 \in 0 .. RetrievalK /\ <<>> \in [1 .. 0 -> T]
      BY HybridRetrievalAssumption
    <2>2. \A i, j \in DOMAIN <<>> : <<>>[i] = <<>>[j] => i = j
      OBVIOUS
    <2>3. QED
      BY <2>1, <2>2 DEF Rankings
  <1>3. QED
    BY <1>1, <1>2

LEMMA TopKIsAList ==
  ASSUME NEW list \in Lists, NoRepeats(list)
  PROVE  TopK(list) \in Lists /\ NoRepeats(TopK(list))
  <1> DEFINE k == IF Len(list) < RerankK THEN Len(list) ELSE RerankK
  <1>1. k \in Nat /\ k <= Len(list) /\ Len(list) \in Nat /\ list \in Seq(Chunks \cup {Foreign})
    BY HybridRetrievalAssumption DEF Lists
  <1>2. TopK(list) = SubSeq(list, 1, k)
    BY DEF TopK
  <1> HIDE DEF k
  <1>3. \A i \in 1 .. k : list[i] \in Chunks \cup {Foreign}
    BY <1>1
  <1>4. /\ SubSeq(list, 1, k) \in Seq(Chunks \cup {Foreign})
        /\ Len(SubSeq(list, 1, k)) = k
        /\ \A i \in 1 .. k : SubSeq(list, 1, k)[i] = list[i]
    BY <1>1, <1>3
  <1>5. QED
    BY <1>1, <1>2, <1>4 DEF Lists, NoRepeats

LEMMA RetrievalInitInv == RetrievalInit => RetrievalInv
  <1> SUFFICES ASSUME RetrievalInit PROVE RetrievalInv
    OBVIOUS
  <1>1. QueryTypes
    BY NothingRanked DEF RetrievalInit, QueryTypes, QuerySteps
  <1>2. ExpansionTypes
    BY NothingRanked DEF RetrievalInit, ExpansionTypes
  <1>3. Fused /\ InTurn /\ UsedOnce /\ EntriesSound
    BY NothingRanked DEF RetrievalInit, Fused, InTurn, UsedOnce, EntriesSound
  <1>4. QED
    BY <1>1, <1>2, <1>3 DEF RetrievalInv

\* What is handed to the expansion is a list without repeats.
LEMMA KeepHolds ==
  ASSUME RetrievalInv, NEW list \in Lists, NoRepeats(list), Keep(list)
  PROVE  RetrievalInv'
  <1>1. /\ query' = [step |-> "expand", vector |-> <<>>, words |-> <<>>, merged |-> <<>>]
        /\ expansion' = [chosen |-> TopK(list), used |-> ToSet(TopK(list)), result |-> <<>>]
        /\ UNCHANGED <<size, doc>>
    BY DEF Keep
  <1>2. TopK(list) \in Lists /\ NoRepeats(TopK(list))
    BY TopKIsAList
  <1>3. QueryTypes'
    BY <1>1, NothingRanked DEF QueryTypes, QuerySteps
  <1>4. ToSet(TopK(list)) \subseteq Chunks \cup {Foreign} /\ Len(TopK(list)) \in Nat
    BY <1>2 DEF Lists, ToSet
  <1>5. ExpansionTypes'
    BY <1>1, <1>2, <1>4 DEF ExpansionTypes, RetrievalInv
  <1>6. Fused' /\ InTurn' /\ UsedOnce' /\ EntriesSound'
    BY <1>1, <1>4 DEF Fused, InTurn, UsedOnce, EntriesSound
  <1>7. QED
    BY <1>3, <1>5, <1>6 DEF RetrievalInv

\* What the searches do leaves the expansion as it was.
LEMMA SearchHolds ==
  ASSUME RetrievalInv, UNCHANGED <<size, doc, expansion>>, query'.step # "done"
  PROVE  ExpansionTypes' /\ InTurn' /\ UsedOnce' /\ EntriesSound'
  <1>1. ExpansionTypes' /\ InTurn' /\ UsedOnce'
    BY DEF RetrievalInv, ExpansionTypes, InTurn, UsedOnce
  <1>2. EntriesSound'
    BY DEF RetrievalInv, EntriesSound, Balanced, TriedDidNotFit
  <1>3. QED
    BY <1>1, <1>2

LEMMA TriesNat == Tries \in Nat /\ MaxChars \in Nat /\ MaxSize \in Nat
  BY HybridRetrievalAssumption DEF Tries

\* The next chunk starts with nothing joined and nothing tried.
LEMMA ExpandNextHolds == RetrievalInv /\ ExpandNext => RetrievalInv'
  <1> SUFFICES ASSUME RetrievalInv, ExpandNext PROVE RetrievalInv'
    OBVIOUS
  <1> DEFINE result == expansion.result
             chosen == expansion.chosen
             c == chosen[Len(result) + 1]
             e == [core |-> c, parts |-> {}, tried |-> IF c \in Chunks THEN 0 ELSE Tries,
                   room |-> IF size[c] <= MaxChars THEN MaxChars - size[c] ELSE 0]
  <1>1. /\ result \in Seq(ShownEntries) /\ chosen \in Seq(Chunks \cup {Foreign})
        /\ Len(result) \in Nat /\ Len(result) < Len(chosen) /\ Len(chosen) \in Nat
    BY DEF RetrievalInv, ExpansionTypes, ExpandNext, Lists
  <1>2. c \in Chunks \cup {Foreign} /\ size[c] \in Nat
    BY <1>1, TriesNat DEF RetrievalInv, ExpansionTypes
  <1>3. e \in ShownEntries
    BY <1>2, TriesNat DEF ShownEntries
  <1>4. /\ expansion' = [expansion EXCEPT !.result = Append(result, e)]
        /\ UNCHANGED <<size, doc, query>>
    BY DEF ExpandNext
  <1> HIDE DEF e
  <1>5. /\ expansion'.result = Append(result, e) /\ expansion'.chosen = chosen
        /\ expansion'.used = expansion.used
        /\ expansion' \in [chosen : Lists, used : SUBSET (Chunks \cup {Foreign}),
                           result : Seq(ShownEntries)]
    <2>1. expansion' = [chosen |-> chosen, used |-> expansion.used, result |-> Append(result, e)]
      BY <1>4 DEF RetrievalInv, ExpansionTypes
    <2>2. Append(result, e) \in Seq(ShownEntries)
      BY <1>1, <1>3
    <2>3. chosen \in Lists /\ expansion.used \in SUBSET (Chunks \cup {Foreign})
      BY DEF RetrievalInv, ExpansionTypes
    <2>4. QED
      BY <2>1, <2>2, <2>3
  <1>6. /\ Len(expansion'.result) = Len(result) + 1
        /\ DOMAIN expansion'.result = DOMAIN result \cup {Len(result) + 1}
        /\ \A i \in DOMAIN result : expansion'.result[i] = result[i]
        /\ expansion'.result[Len(result) + 1] = e
        /\ DOMAIN result = 1 .. Len(result)
    BY <1>1, <1>3, <1>5
  <1>7. e.core = c /\ e.parts = {}
    BY DEF e
  <1>8. Balanced(e)
    BY <1>2, NoText, TriesNat DEF Balanced, e
  <1>9. TriedDidNotFit(e, expansion.used)
    BY DEF TriedDidNotFit, e
  <1>10. Complete /\ query.step = "expand"
    BY DEF ExpandNext
  <1> HIDE DEF c
  <1>11. QueryTypes' /\ Fused' /\ ExpansionTypes'
    BY <1>4, <1>5 DEF RetrievalInv, QueryTypes, Fused, ExpansionTypes
  <1>12. InTurn'
    <2>1. \A i \in DOMAIN expansion'.result : expansion'.result[i].core = expansion'.chosen[i]
      BY <1>5, <1>6, <1>7 DEF RetrievalInv, InTurn, c
    <2>2. \A i \in DOMAIN result : result[i].tried = Tries
      <3>1. ASSUME NEW i \in DOMAIN result, i = Len(result) PROVE result[i].tried = Tries
        <4>1. result # <<>>
          BY <3>1, <1>1
        <4>2. QED
          BY <1>10, <3>1, <4>1 DEF Complete, Opened
      <3>2. QED
        BY <1>1, <1>6, <3>1 DEF RetrievalInv, InTurn
    <2>3. \A i \in DOMAIN expansion'.result :
              i < Len(expansion'.result) => expansion'.result[i].tried = Tries
      BY <1>1, <1>6, <2>2
    <2>4. Len(expansion'.result) <= Len(expansion'.chosen) /\ query'.step # "done"
      BY <1>1, <1>4, <1>5, <1>6, <1>10
    <2>5. QED
      BY <2>1, <2>3, <2>4 DEF InTurn
  <1>13. UsedOnce'
    BY <1>5, <1>6, <1>7 DEF RetrievalInv, UsedOnce
  <1>14. EntriesSound'
    <2>1. UNCHANGED <<size, doc>>
      BY <1>4
    <2>2. \A i \in DOMAIN expansion'.result :
              /\ Balanced(expansion'.result[i])
              /\ TriedDidNotFit(expansion'.result[i], expansion.used)
      BY <1>6, <1>8, <1>9 DEF RetrievalInv, EntriesSound
    <2>3. QED
      BY <1>5, <2>1, <2>2 DEF EntriesSound, Balanced, TriedDidNotFit
  <1>15. QED
    BY <1>11, <1>12, <1>13, <1>14 DEF RetrievalInv

\* The entry in work becomes e, and its parts and the keys used grow by what is joined.
LEMMA TurnHolds ==
  ASSUME RetrievalInv, query.step = "expand", ~Complete, UNCHANGED <<size, doc, query>>,
         NEW joined \in SUBSET Chunks, joined \cap expansion.used = {},
         NEW e \in ShownEntries, e.core = Opened.core, e.parts = Opened.parts \cup joined,
         e.room <= Opened.room, Balanced(e),
         TriedDidNotFit(e, expansion.used \cup joined),
         expansion' = [expansion EXCEPT !.used = @ \cup joined,
                                        !.result[Len(expansion.result)] = e]
  PROVE  RetrievalInv'
  <1> DEFINE result == expansion.result
             last == Len(result)
             used == expansion.used \cup joined
  <1>1. /\ result \in Seq(ShownEntries) /\ last \in Nat /\ DOMAIN result = 1 .. last
        /\ expansion.used \subseteq Chunks \cup {Foreign}
    BY DEF RetrievalInv, ExpansionTypes
  <1>2. last \in DOMAIN result /\ Opened = result[last]
    <2>1. result # <<>>
      BY DEF Complete
    <2>2. QED
      BY <1>1, <2>1 DEF Opened
  <1>3. /\ expansion'.chosen = expansion.chosen /\ expansion'.used = used
        /\ expansion'.result = [result EXCEPT ![last] = e]
        /\ expansion' = [chosen |-> expansion.chosen, used |-> used,
                         result |-> [result EXCEPT ![last] = e]]
    BY DEF RetrievalInv, ExpansionTypes
  <1>4. /\ [result EXCEPT ![last] = e] \in Seq(ShownEntries)
        /\ Len(expansion'.result) = last /\ DOMAIN expansion'.result = DOMAIN result
        /\ expansion'.result[last] = e
        /\ \A i \in DOMAIN result \ {last} : expansion'.result[i] = result[i]
    BY <1>1, <1>2, <1>3
  <1> HIDE DEF last, used
  <1>5. ExpansionTypes'
    <2>1. used \subseteq Chunks \cup {Foreign}
      BY <1>1 DEF used
    <2>2. expansion' \in [chosen : Lists, used : SUBSET (Chunks \cup {Foreign}),
                          result : Seq(ShownEntries)]
      BY <1>3, <1>4, <2>1 DEF RetrievalInv, ExpansionTypes
    <2>3. QED
      BY <1>3, <2>2 DEF RetrievalInv, ExpansionTypes
  <1>6. QueryTypes' /\ Fused'
    BY DEF RetrievalInv, QueryTypes, Fused
  <1>7. InTurn'
    <2>1. \A i \in DOMAIN expansion'.result : expansion'.result[i].core = expansion'.chosen[i]
      BY <1>2, <1>3, <1>4 DEF RetrievalInv, InTurn
    <2>2. \A i \in DOMAIN expansion'.result :
              i < Len(expansion'.result) => expansion'.result[i].tried = Tries
      BY <1>1, <1>4 DEF RetrievalInv, InTurn, last
    <2>3. Len(expansion'.result) <= Len(expansion'.chosen)
      BY <1>3, <1>4 DEF RetrievalInv, InTurn, last
    <2>4. query'.step # "done"
      OBVIOUS
    <2>5. QED
      BY <2>1, <2>2, <2>3, <2>4 DEF InTurn
  <1>8. UsedOnce'
    <2> DEFINE parts(i) == result[i].parts
               parts2(i) == expansion'.result[i].parts
    <2>1. /\ parts2(last) = parts(last) \cup joined
          /\ \A i \in DOMAIN result \ {last} : parts2(i) = parts(i)
      BY <1>2, <1>4
    <2>2. /\ ToSet(expansion.chosen) \subseteq expansion.used
          /\ \A n \in expansion.used :
                n \in ToSet(expansion.chosen) \/ \E i \in DOMAIN result : n \in parts(i)
          /\ \A i \in DOMAIN result :
                parts(i) \subseteq expansion.used /\ parts(i) \cap ToSet(expansion.chosen) = {}
          /\ \A i, j \in DOMAIN result : i # j => parts(i) \cap parts(j) = {}
      BY DEF RetrievalInv, UsedOnce
    <2> HIDE DEF parts, parts2
    <2>3. \A n \in used :
              n \in ToSet(expansion.chosen) \/ \E i \in DOMAIN result : n \in parts2(i)
      <3> SUFFICES ASSUME NEW n \in used, n \notin ToSet(expansion.chosen)
                   PROVE  \E i \in DOMAIN result : n \in parts2(i)
        OBVIOUS
      <3>1. CASE n \in joined
        BY <1>2, <2>1, <3>1
      <3>2. CASE n \in expansion.used
        <4>1. PICK i \in DOMAIN result : n \in parts(i)
          BY <2>2, <3>2
        <4>2. n \in parts2(i)
          BY <2>1, <4>1
        <4>3. QED
          BY <4>2
      <3>3. QED
        BY <3>1, <3>2 DEF used
    <2>4. \A i \in DOMAIN result :
              parts2(i) \subseteq used /\ parts2(i) \cap ToSet(expansion.chosen) = {}
      <3> TAKE i \in DOMAIN result
      <3>1. parts(i) \subseteq expansion.used /\ parts(i) \cap ToSet(expansion.chosen) = {}
        BY <2>2
      <3>2. joined \cap ToSet(expansion.chosen) = {}
        BY <2>2
      <3>3. parts2(i) \subseteq parts(i) \cup joined
        BY <2>1
      <3>4. QED
        BY <3>1, <3>2, <3>3 DEF used
    <2>5. \A i, j \in DOMAIN result : i # j => parts2(i) \cap parts2(j) = {}
      <3> SUFFICES ASSUME NEW i \in DOMAIN result, NEW j \in DOMAIN result, i # j
                   PROVE  parts2(i) \cap parts2(j) = {}
        OBVIOUS
      <3>1. /\ parts(i) \cap parts(j) = {} /\ parts(i) \subseteq expansion.used
            /\ parts(j) \subseteq expansion.used
        BY <2>2
      <3>2. CASE i = last
        BY <2>1, <3>1, <3>2
      <3>3. CASE j = last
        BY <2>1, <3>1, <3>3
      <3>4. CASE i # last /\ j # last
        BY <2>1, <3>1, <3>4
      <3>5. QED
        BY <3>2, <3>3, <3>4
    <2>6. ToSet(expansion.chosen) \subseteq used
      BY <2>2 DEF used
    <2>7. QED
      BY <1>3, <1>4, <2>3, <2>4, <2>5, <2>6 DEF UsedOnce, parts2
  <1>9. EntriesSound'
    <2>1. ASSUME NEW i \in DOMAIN result
          PROVE  Balanced(expansion'.result[i]) /\ TriedDidNotFit(expansion'.result[i], used)
      <3>1. CASE i = last
        BY <1>4, <3>1 DEF used
      <3>2. CASE i # last
        <4>1. Balanced(result[i]) /\ TriedDidNotFit(result[i], expansion.used)
          BY DEF RetrievalInv, EntriesSound
        <4>2. TriedDidNotFit(result[i], used)
          BY <4>1 DEF TriedDidNotFit, used
        <4>3. QED
          BY <1>4, <3>2, <4>1, <4>2
      <3>3. QED
        BY <3>1, <3>2
    <2>2. ASSUME NEW i \in DOMAIN expansion'.result
          PROVE  (Balanced(expansion.result[i]) /\ TriedDidNotFit(expansion.result[i], expansion.used))'
      <3>1. /\ Balanced(expansion.result[i])' <=> Balanced(expansion'.result[i])
            /\ TriedDidNotFit(expansion.result[i], expansion.used)'
                 <=> TriedDidNotFit(expansion'.result[i], expansion'.used)
        BY DEF Balanced, TriedDidNotFit
      <3>2. QED
        BY <1>3, <1>4, <2>1, <3>1
    <2>3. QED
      BY <2>2 DEF EntriesSound
  <1>10. QED
    BY <1>5, <1>6, <1>7, <1>8, <1>9 DEF RetrievalInv

\* The entry in work has a neighbour left to try.
LEMMA OpenedEntry ==
  ASSUME RetrievalInv, ~Complete
  PROVE  /\ Opened \in ShownEntries /\ Opened.tried + 1 \in 1 .. Tries
         /\ Balanced(Opened) /\ TriedDidNotFit(Opened, expansion.used)
         /\ Opened.parts \subseteq expansion.used
         /\ Opened = [core |-> Opened.core, parts |-> Opened.parts, tried |-> Opened.tried,
                      room |-> Opened.room]
  <1>1. expansion.result \in Seq(ShownEntries) /\ expansion.result # <<>>
    BY DEF RetrievalInv, ExpansionTypes, Complete
  <1>2. Len(expansion.result) \in DOMAIN expansion.result
    BY <1>1
  <1>3. /\ Opened \in ShownEntries /\ Balanced(Opened) /\ TriedDidNotFit(Opened, expansion.used)
        /\ Opened.parts \subseteq expansion.used
    BY <1>1, <1>2 DEF Opened, RetrievalInv, EntriesSound, UsedOnce
  <1>4. Opened.tried # Tries
    BY DEF Complete
  <1>5. Opened.tried + 1 \in 1 .. Tries
    BY <1>3, <1>4, TriesNat DEF ShownEntries
  <1>6. QED
    BY <1>3, <1>5 DEF ShownEntries

LEMMA SkipHolds == RetrievalInv /\ SkipNeighbour => RetrievalInv'
  <1> SUFFICES ASSUME RetrievalInv, SkipNeighbour PROVE RetrievalInv'
    OBVIOUS
  <1>1. /\ query.step = "expand" /\ ~Complete /\ ~Joins(NextNeighbour)
        /\ expansion' = [expansion EXCEPT !.result[Len(expansion.result)] =
                           [Opened EXCEPT !.tried = @ + 1]]
        /\ UNCHANGED <<size, doc, query>>
    BY DEF SkipNeighbour
  <1>2. PICK e : e = [Opened EXCEPT !.tried = @ + 1]
    OBVIOUS
  <1>3. /\ e \in ShownEntries /\ e.core = Opened.core /\ e.parts = Opened.parts \cup {}
        /\ e.room = Opened.room /\ e.tried = Opened.tried + 1
    BY <1>1, <1>2, OpenedEntry, TriesNat DEF ShownEntries
  <1>4. Balanced(e)
    BY <1>1, <1>3, OpenedEntry DEF Balanced
  <1>5. TriedDidNotFit(e, expansion.used)
    <2> SUFFICES ASSUME e.core \in Chunks, NEW t \in 1 .. e.tried,
                        Neighbour(e.core, t) \in Chunks,
                        doc[Neighbour(e.core, t)] = doc[e.core],
                        Neighbour(e.core, t) \notin expansion.used
                 PROVE  size[Neighbour(e.core, t)] > e.room
      BY DEF TriedDidNotFit
    <2>1. CASE t \in 1 .. Opened.tried
      BY <1>1, <1>3, <2>1, OpenedEntry DEF TriedDidNotFit
    <2>2. CASE t = Opened.tried + 1
      <3>1. Neighbour(e.core, t) = NextNeighbour
        BY <1>3, <2>2 DEF NextNeighbour
      <3>2. ~(size[NextNeighbour] <= Opened.room)
        BY <1>1, <1>3, <3>1 DEF Joins
      <3>3. size[NextNeighbour] \in Nat /\ Opened.room \in Nat
        BY <1>1, <3>1, OpenedEntry, TriesNat DEF ShownEntries, RetrievalInv, ExpansionTypes
      <3>4. QED
        BY <1>3, <3>1, <3>2, <3>3
    <2>3. Opened.tried \in Nat
      BY <1>1, OpenedEntry, TriesNat DEF ShownEntries
    <2>4. QED
      BY <1>3, <2>1, <2>2, <2>3
  <1>6. expansion' = [expansion EXCEPT !.used = @ \cup {}, !.result[Len(expansion.result)] = e]
    BY <1>1, <1>2 DEF RetrievalInv, ExpansionTypes
  <1>7. e.room <= Opened.room
    BY <1>1, <1>3, OpenedEntry, TriesNat DEF ShownEntries
  <1>8. /\ {} \in SUBSET Chunks /\ {} \cap expansion.used = {}
        /\ expansion.used \cup {} = expansion.used
    OBVIOUS
  <1>9. QED
    BY <1>1, <1>3, <1>4, <1>5, <1>6, <1>7, <1>8, TurnHolds

LEMMA JoinHolds == RetrievalInv /\ JoinNeighbour => RetrievalInv'
  <1> SUFFICES ASSUME RetrievalInv, JoinNeighbour PROVE RetrievalInv'
    OBVIOUS
  <1>1. PICK n : n = NextNeighbour
    OBVIOUS
  <1>2. /\ query.step = "expand" /\ ~Complete
        /\ n \in Chunks /\ doc[n] = doc[Opened.core] /\ n \notin expansion.used
        /\ size[n] <= Opened.room
        /\ UNCHANGED <<size, doc, query>>
    BY <1>1 DEF JoinNeighbour, Joins
  <1>3. PICK e : e = [Opened EXCEPT !.tried = @ + 1, !.parts = @ \cup {n}, !.room = @ - size[n]]
    OBVIOUS
  <1>4. expansion' = [expansion EXCEPT !.used = @ \cup {n}, !.result[Len(expansion.result)] = e]
    BY <1>1, <1>3 DEF JoinNeighbour
  <1>5. /\ size[n] \in Nat \ {0} /\ Opened.room \in 0 .. MaxChars /\ Opened.tried \in Nat
        /\ Opened.core \in Chunks \cup {Foreign} /\ size[Opened.core] \in Nat
        /\ Opened.parts \in SUBSET Chunks
    BY <1>2, OpenedEntry, TriesNat DEF RetrievalInv, ExpansionTypes, ShownEntries
  <1>6. /\ e.core = Opened.core /\ e.parts = Opened.parts \cup {n}
        /\ e.room = Opened.room - size[n] /\ e.tried = Opened.tried + 1
        /\ e = [core |-> e.core, parts |-> e.parts, tried |-> e.tried, room |-> e.room]
    BY <1>2, <1>3, OpenedEntry DEF ShownEntries
  <1>7. e.room \in 0 .. MaxChars /\ e.room <= Opened.room
    BY <1>2, <1>5, <1>6, TriesNat
  <1>8. e \in ShownEntries
    <2>1. e.tried \in 0 .. Tries
      BY <1>2, <1>6, OpenedEntry, TriesNat
    <2>2. e.parts \in SUBSET Chunks
      BY <1>2, <1>5, <1>6
    <2>3. QED
      BY <1>5, <1>6, <1>7, <2>1, <2>2 DEF ShownEntries
  <1>9. Balanced(e)
    <2>1. Balanced(Opened) /\ n \notin Opened.parts
      BY <1>2, OpenedEntry
    <2>2. size[Opened.core] <= MaxChars
      BY <1>2, <1>5, <2>1, TriesNat DEF Balanced
    <2>3. /\ Text(size, Opened.parts) \in Nat
          /\ Text(size, e.parts) = Text(size, Opened.parts) + size[n]
      <3>1. size \in [Chunks \cup {Foreign} -> Nat]
        BY TriesNat DEF RetrievalInv, ExpansionTypes
      <3>2. PICK p \in SUBSET Chunks : p = Opened.parts
        BY <1>5
      <3>3. n \in Chunks /\ n \notin p
        BY <1>2, <2>1, <3>2
      <3>4. Text(size, p) \in Nat /\ Text(size, p \cup {n}) = Text(size, p) + size[n]
        BY <3>1, <3>3, TextGrows, Zenon
      <3>5. QED
        BY <1>6, <3>2, <3>4
    <2>4. Opened.room + size[Opened.core] + Text(size, Opened.parts) = MaxChars
      BY <2>1, <2>2 DEF Balanced
    <2>5. e.room + size[e.core] + Text(size, e.parts) = MaxChars
      BY <1>5, <1>6, <2>3, <2>4, TriesNat
    <2>6. ~(size[e.core] > MaxChars)
      BY <1>5, <1>6, <2>2, TriesNat
    <2>7. QED
      BY <2>5, <2>6 DEF Balanced
  <1>10. TriedDidNotFit(e, expansion.used \cup {n})
    <2> SUFFICES ASSUME e.core \in Chunks, NEW t \in 1 .. e.tried,
                        Neighbour(e.core, t) \in Chunks,
                        doc[Neighbour(e.core, t)] = doc[e.core],
                        Neighbour(e.core, t) \notin expansion.used \cup {n}
                 PROVE  size[Neighbour(e.core, t)] > e.room
      BY DEF TriedDidNotFit
    <2>1. t # Opened.tried + 1
      BY <1>1, <1>6 DEF NextNeighbour
    <2>2. t \in 1 .. Opened.tried
      BY <1>5, <1>6, <2>1
    <2>3. size[Neighbour(e.core, t)] > Opened.room
      BY <1>2, <1>6, <2>2, OpenedEntry DEF TriedDidNotFit
    <2>4. size[Neighbour(e.core, t)] \in Nat
      BY TriesNat DEF RetrievalInv, ExpansionTypes
    <2>5. QED
      BY <1>5, <1>7, <2>3, <2>4
  <1>11. {n} \in SUBSET Chunks /\ {n} \cap expansion.used = {}
    BY <1>2
  <1>12. QED
    BY <1>2, <1>4, <1>6, <1>7, <1>8, <1>9, <1>10, <1>11, TurnHolds

LEMMA ExpandedHolds == RetrievalInv /\ Expanded => RetrievalInv'
  <1> SUFFICES ASSUME RetrievalInv, Expanded PROVE RetrievalInv'
    OBVIOUS
  <1>1. /\ Complete /\ Len(expansion.result) = Len(expansion.chosen)
        /\ query' = [query EXCEPT !.step = "done"] /\ UNCHANGED <<size, doc, expansion>>
    BY DEF Expanded
  <1>2. QueryTypes' /\ Fused'
    BY <1>1 DEF RetrievalInv, QueryTypes, QuerySteps, Fused
  <1>3. ExpansionTypes' /\ UsedOnce'
    BY <1>1 DEF RetrievalInv, ExpansionTypes, UsedOnce
  <1>4. InTurn'
    BY <1>1 DEF RetrievalInv, InTurn, Complete, Opened
  <1>5. EntriesSound'
    BY <1>1 DEF RetrievalInv, EntriesSound, Balanced, TriedDidNotFit
  <1>6. QED
    BY <1>2, <1>3, <1>4, <1>5 DEF RetrievalInv

LEMMA RetrievalStep == RetrievalInv /\ [RetrievalNext]_retrievalVars => RetrievalInv'
  <1> SUFFICES ASSUME RetrievalInv, [RetrievalNext]_retrievalVars PROVE RetrievalInv'
    OBVIOUS
  <1>1. CASE VectorSearch
    <2>1. PICK ranking \in Rankings(Chunks \cup {Foreign}) :
              query' = [query EXCEPT !.step = "words", !.vector = ranking]
      BY <1>1 DEF VectorSearch
    <2>2. ranking \in Lists
      BY RankingsAreLists
    <2>3. QueryTypes' /\ Fused' /\ query'.step # "done"
      BY <2>1, <2>2 DEF RetrievalInv, QueryTypes, QuerySteps, Fused
    <2>4. QED
      BY <1>1, <2>3, SearchHolds DEF VectorSearch, RetrievalInv
  <1>2. CASE WordSearch
    <2>1. PICK ranking \in Rankings(Chunks) :
              query' = [query EXCEPT !.step = "rerank", !.words = ranking,
                           !.merged = IF ranking = <<>> THEN query.vector
                                      ELSE RrfMerge(query.vector, ranking)]
      BY <1>2 DEF WordSearch
    <2>2. ranking \in Lists
      BY RankingsAreLists
    <2>3. query.vector \in Lists /\ NoRepeats(query.vector)
      BY RankingsAreLists DEF RetrievalInv, QueryTypes
    <2>4. PICK merged : merged = IF ranking = <<>> THEN query.vector
                                 ELSE RrfMerge(query.vector, ranking)
      OBVIOUS
    <2>5. merged \in Lists /\ NoRepeats(merged)
      BY <2>2, <2>3, <2>4, FusionKeepsAgreement
    <2>6. /\ query' = [query EXCEPT !.step = "rerank", !.words = ranking, !.merged = merged]
          /\ query' \in [step : QuerySteps, vector : Lists, words : Lists, merged : Lists]
          /\ query'.step = "rerank" /\ query'.vector = query.vector
          /\ query'.words = ranking /\ query'.merged = merged
      BY <2>1, <2>2, <2>3, <2>4, <2>5 DEF RetrievalInv, QueryTypes, QuerySteps
    <2>7. QueryTypes'
      BY <2>5, <2>6 DEF RetrievalInv, QueryTypes
    <2>8. Fused'
      BY <2>4, <2>6 DEF Fused
    <2>9. QED
      BY <1>2, <2>6, <2>7, <2>8, SearchHolds DEF WordSearch, RetrievalInv
  <1>3. CASE VectorOnly
    <2>1. query.vector \in Lists /\ NoRepeats(query.vector)
      BY RankingsAreLists DEF RetrievalInv, QueryTypes
    <2>2. QED
      BY <1>3, <2>1, KeepHolds DEF VectorOnly
  <1>4. CASE Rerank
    <2>1. PICK order \in [DOMAIN query.merged -> DOMAIN query.merged] :
              /\ \A i, j \in DOMAIN order : order[i] = order[j] => i = j
              /\ Keep([i \in DOMAIN order |-> query.merged[order[i]]])
      BY <1>4 DEF Rerank
    <2>2. query.merged \in Seq(Chunks \cup {Foreign}) /\ NoRepeats(query.merged)
      BY DEF RetrievalInv, QueryTypes, Lists
    <2>3. PICK list : list = [i \in DOMAIN order |-> query.merged[order[i]]]
      OBVIOUS
    <2>4. list \in Lists
      <3>1. Len(query.merged) \in Nat /\ DOMAIN order = 1 .. Len(query.merged)
        BY <2>1, <2>2
      <3>2. \A i \in DOMAIN order : query.merged[order[i]] \in Chunks \cup {Foreign}
        BY <2>1, <2>2
      <3>3. list \in [1 .. Len(query.merged) -> Chunks \cup {Foreign}]
        BY <2>3, <3>1, <3>2
      <3> QED
        BY <3>1, <3>3 DEF Lists
    <2>5. NoRepeats(list)
      <3> SUFFICES ASSUME NEW i \in DOMAIN list, NEW j \in DOMAIN list, list[i] = list[j]
                   PROVE  i = j
        BY DEF NoRepeats
      <3>1. /\ i \in DOMAIN order /\ j \in DOMAIN order
            /\ query.merged[order[i]] = query.merged[order[j]]
        BY <2>1, <2>3
      <3>2. order[i] = order[j]
        BY <2>1, <2>2, <3>1 DEF NoRepeats
      <3> QED
        BY <2>1, <3>1, <3>2
    <2>6. QED
      BY <2>1, <2>3, <2>4, <2>5, KeepHolds
  <1>5. CASE KeepOrder
    <2>1. query.merged \in Lists /\ NoRepeats(query.merged)
      BY DEF RetrievalInv, QueryTypes
    <2>2. QED
      BY <1>5, <2>1, KeepHolds DEF KeepOrder
  <1>6. CASE DeadlineRefuses
    <2>1. QueryTypes' /\ Fused' /\ query'.step # "done"
      BY <1>6 DEF DeadlineRefuses, RetrievalInv, QueryTypes, QuerySteps, Fused
    <2>2. QED
      BY <1>6, <2>1, SearchHolds DEF DeadlineRefuses, RetrievalInv
  <1>7. CASE UNCHANGED retrievalVars
    <2>1. QueryTypes' /\ Fused' /\ ExpansionTypes' /\ UsedOnce'
      BY <1>7 DEF retrievalVars, RetrievalInv, QueryTypes, Fused, ExpansionTypes, UsedOnce
    <2>2. InTurn'
      BY <1>7 DEF retrievalVars, RetrievalInv, InTurn, Complete, Opened
    <2>3. EntriesSound'
      BY <1>7 DEF retrievalVars, RetrievalInv, EntriesSound, Balanced, TriedDidNotFit
    <2>4. QED
      BY <2>1, <2>2, <2>3 DEF RetrievalInv
  <1>8. QED
    BY <1>1, <1>2, <1>3, <1>4, <1>5, <1>6, <1>7, ExpandNextHolds, SkipHolds, JoinHolds,
       ExpandedHolds DEF RetrievalNext

LEMMA FusedIsFair == RetrievalInv => FusionRespectsAgreement
  <1> SUFFICES ASSUME RetrievalInv, query.step = "rerank",
                      NEW c \in ToSet(query.merged), NEW d \in ToSet(query.merged), c # d,
                      \A list \in {query.vector, query.words} :
                          d \in ToSet(list) =>
                              c \in ToSet(list) /\ Place(list, c) < Place(list, d)
               PROVE  Place(query.merged, c) < Place(query.merged, d)
    BY DEF FusionRespectsAgreement
  <1>1. query.vector \in Lists /\ query.words \in Lists
    BY DEF RetrievalInv, QueryTypes
  <1>2. CASE query.words = <<>>
    <2>1. query.merged = query.vector
      BY <1>2 DEF RetrievalInv, Fused
    <2>2. QED
      BY <2>1
  <1>3. CASE query.words # <<>>
    <2>1. query.merged = RrfMerge(query.vector, query.words)
      BY <1>3 DEF RetrievalInv, Fused
    <2>2. c \in Met(query.vector, query.words) /\ d \in Met(query.vector, query.words)
      BY <1>1, <2>1, FusionKeepsAgreement
    <2>3. QED
      BY <1>1, <2>1, <2>2, FusionKeepsAgreement
  <1>4. QED
    BY <1>2, <1>3

LEMMA ShownOnce == RetrievalInv => NoTextTwice
  <1> SUFFICES ASSUME RetrievalInv PROVE NoTextTwice
    OBVIOUS
  <1> DEFINE result == expansion.result
  <1>1. /\ result \in Seq(ShownEntries) /\ expansion.chosen \in Seq(Chunks \cup {Foreign})
        /\ Len(result) <= Len(expansion.chosen)
        /\ NoRepeats(expansion.chosen)
        /\ \A i \in DOMAIN result : result[i].core = expansion.chosen[i]
    BY DEF RetrievalInv, ExpansionTypes, InTurn, Lists
  <1>2. \A i \in DOMAIN result : i \in DOMAIN expansion.chosen
    BY <1>1
  <1>3. \A i \in DOMAIN result : result[i].core \in ToSet(expansion.chosen)
    BY <1>1, <1>2 DEF ToSet
  <1>4. \A i, j \in DOMAIN result : i # j => result[i].core # result[j].core
    BY <1>1, <1>2 DEF NoRepeats
  <1>5. /\ \A i \in DOMAIN result : result[i].parts \cap ToSet(expansion.chosen) = {}
        /\ \A i, j \in DOMAIN result : i # j => result[i].parts \cap result[j].parts = {}
    BY DEF RetrievalInv, UsedOnce
  <1> HIDE DEF result
  <1>6. \A i, j \in DOMAIN result : result[j].core \notin result[i].parts
    BY <1>3, <1>5
  <1>7. QED
    BY <1>4, <1>5, <1>6 DEF NoTextTwice, result

LEMMA NobodyForgotten == RetrievalInv => UnshownDidNotFit
  <1> SUFFICES ASSUME RetrievalInv, query.step = "done", NEW i \in DOMAIN expansion.result,
                      NEW r, r = expansion.result[i]
               PROVE  /\ r.parts # {} => size[r.core] + Text(size, r.parts) <= MaxChars
                      /\ r.core \in Chunks =>
                           \A t \in 1 .. Tries : LET n == Neighbour(r.core, t) IN
                               \/ n \notin Chunks \/ doc[n] # doc[r.core]
                               \/ \E q \in ToSet(expansion.result) : n = q.core \/ n \in q.parts
                               \/ size[n] + size[r.core] + Text(size, r.parts) > MaxChars
    BY DEF UnshownDidNotFit, ToSet
  <1>1. /\ expansion.result \in Seq(ShownEntries) /\ expansion.chosen \in Seq(Chunks \cup {Foreign})
        /\ Len(expansion.result) = Len(expansion.chosen)
        /\ \A j \in DOMAIN expansion.result : expansion.result[j].core = expansion.chosen[j]
    BY DEF RetrievalInv, ExpansionTypes, InTurn, Lists
  <1>2. r \in ShownEntries /\ Balanced(r) /\ TriedDidNotFit(r, expansion.used)
    BY <1>1 DEF RetrievalInv, EntriesSound
  <1>3. r.tried = Tries
    <2>1. CASE i < Len(expansion.result)
      BY <2>1 DEF RetrievalInv, InTurn
    <2>2. CASE i = Len(expansion.result)
      <3>1. expansion.result # <<>>
        BY <1>1
      <3>2. QED
        BY <2>2, <3>1 DEF RetrievalInv, InTurn, Complete, Opened
    <2>3. QED
      BY <1>1, <2>1, <2>2
  <1>4. /\ size[r.core] \in Nat /\ r.room \in Nat /\ r.parts \in SUBSET Chunks
        /\ size \in [Chunks \cup {Foreign} -> Nat]
    BY <1>2, TriesNat DEF RetrievalInv, ExpansionTypes, ShownEntries
  <1>5. Text(size, r.parts) \in Nat
    BY <1>4, TextNat
  <1>6. ASSUME r.parts # {} PROVE size[r.core] + Text(size, r.parts) <= MaxChars
    <2>1. size[r.core] <= MaxChars
      BY <1>2, <1>4, <1>6, TriesNat DEF Balanced
    <2>2. r.room + size[r.core] + Text(size, r.parts) = MaxChars
      BY <1>2, <2>1 DEF Balanced
    <2>3. QED
      BY <1>4, <1>5, <2>2, TriesNat
  <1>7. ASSUME NEW n \in expansion.used
        PROVE  \E q \in ToSet(expansion.result) : n = q.core \/ n \in q.parts
    <2>1. CASE n \in ToSet(expansion.chosen)
      <3>1. PICK j \in DOMAIN expansion.chosen : n = expansion.chosen[j]
        BY <2>1 DEF ToSet
      <3>2. j \in DOMAIN expansion.result /\ expansion.result[j].core = n
        BY <1>1, <3>1
      <3>3. expansion.result[j] \in ToSet(expansion.result)
        BY <3>2 DEF ToSet
      <3>4. QED
        BY <3>2, <3>3
    <2>2. CASE n \notin ToSet(expansion.chosen)
      <3>1. PICK j \in DOMAIN expansion.result : n \in expansion.result[j].parts
        BY <2>2 DEF RetrievalInv, UsedOnce
      <3>2. expansion.result[j] \in ToSet(expansion.result)
        BY <3>1 DEF ToSet
      <3>3. QED
        BY <3>1, <3>2
    <2>3. QED
      BY <2>1, <2>2
  <1>8. ASSUME r.core \in Chunks, NEW t \in 1 .. Tries, NEW n, n = Neighbour(r.core, t),
               n \in Chunks, doc[n] = doc[r.core], n \notin expansion.used
        PROVE  size[n] + size[r.core] + Text(size, r.parts) > MaxChars
    <2>1. size[n] > r.room
      BY <1>2, <1>3, <1>8 DEF TriedDidNotFit
    <2>2. size[n] \in Nat
      BY <1>4, <1>8
    <2>3. CASE size[r.core] <= MaxChars
      <3>1. r.room + size[r.core] + Text(size, r.parts) = MaxChars
        BY <1>2, <2>3 DEF Balanced
      <3>2. QED
        BY <1>4, <1>5, <2>1, <2>2, <3>1, TriesNat
    <2>4. CASE size[r.core] > MaxChars
      BY <1>4, <1>5, <2>2, <2>4, TriesNat
    <2>5. QED
      BY <1>4, <2>3, <2>4, TriesNat
  <1>9. QED
    BY <1>6, <1>7, <1>8

\* For any corpus, rankings and bounds: fusion respects what the rankings agree on, no text is
\* given to the model twice, and no neighbour is left out that fits into the budget.
THEOREM RetrievalIsSound == RetrievalSpec => []RetrievalSafety
  <1>1. RetrievalInv => RetrievalTypeOK
    <2> SUFFICES ASSUME RetrievalInv PROVE RetrievalTypeOK
      OBVIOUS
    <2>1. /\ query.step \in QuerySteps /\ query.merged \in Seq(Chunks \cup {Foreign})
          /\ query.vector \in Rankings(Chunks \cup {Foreign}) /\ query.words \in Rankings(Chunks)
      BY DEF RetrievalInv, QueryTypes, Lists
    <2>2. ToSet(query.merged) \subseteq Chunks \cup {Foreign}
      BY <2>1 DEF ToSet
    <2>3. expansion.chosen \in Seq(Chunks \cup {Foreign}) /\ expansion.result \in Seq(ShownEntries)
      BY DEF RetrievalInv, ExpansionTypes, Lists
    <2>4. \A r \in ToSet(expansion.result) : r.parts \subseteq Chunks /\ r.room \in 0 .. MaxChars
      <3> TAKE r \in ToSet(expansion.result)
      <3>1. PICK i \in DOMAIN expansion.result : r = expansion.result[i]
        BY DEF ToSet
      <3>2. r \in ShownEntries
        BY <2>3, <3>1
      <3>3. QED
        BY <3>2 DEF ShownEntries
    <2>5. QED
      BY <2>1, <2>2, <2>3, <2>4 DEF RetrievalTypeOK, QuerySteps
  <1>2. RetrievalInv => RetrievalSafety
    BY <1>1, FusedIsFair, ShownOnce, NobodyForgotten DEF RetrievalSafety
  <1>3. QED
    BY <1>2, RetrievalInitInv, RetrievalStep, PTL DEF RetrievalSpec
=============================================================================
