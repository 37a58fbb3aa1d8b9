---------------------------- MODULE AnswerCache ----------------------------
(***************************************************************************)
(* The cache of answers in front of the pipeline.  An answer is kept under *)
(* a key made of the tenant, the generation of its index, the prompts, the *)
(* models and the question; the model fixes all but the generation.  The   *)
(* entries are in Redis, or in a dictionary of the process while Redis is  *)
(* away.  An ask decides to use the cache, and under which key, before it  *)
(* waits for capacity and for the turn of its conversation.                *)
(*                                                                         *)
(* api/routers/conversation.py (ask), cache/namespace.py,                  *)
(* cache/redis_cache.py, api/routers/upload.py.                            *)
(***************************************************************************)
EXTENDS Naturals, FiniteSets

CONSTANTS
    Questioners,   \* requests to /api/ask, all with the same question
    Threads,       \* conversations
    MaxGeneration  \* bound on the publications of an index

ASSUME AnswerCacheAssumption == MaxGeneration \in Nat \ {0}

\* The key of a request that does not use the cache.
NoCacheKey == 0

VARIABLES
    asked,        \* per request: its conversation, step, key, and the answer it made
    talk,         \* per conversation: the retriever it has, and its turns
    generation,   \* generation of the active manifest
    invalidate,   \* an upload has published and will call cache_delete_pattern
    redisUp,      \* the server answers
    link,         \* "up", "waiting" (before _redis_retry_at), "due"
    inRedis,      \* entries of Redis
    inProcess     \* _fallback

cacheVars == <<asked, talk, generation, invalidate, redisUp, link, inRedis, inProcess>>

CacheInit ==
    /\ asked \in [Questioners ->
           [thread : Threads, step : {"new"}, resolved : {0}, key : {NoCacheKey},
            straddled : {FALSE}, raced : {FALSE}, made : {0}, context : {FALSE}]]
    /\ talk = [t \in Threads |-> [retriever |-> 1, turns |-> {}]]
    /\ generation = 1
    /\ invalidate = FALSE
    /\ redisUp = TRUE
    /\ link = "due"
    /\ inRedis = {}
    /\ inProcess = {}

Goes(q, s) == asked' = [asked EXCEPT ![q].step = s]

----------------------------------------------------------------------------
(* redis_cache *)

\* _get_redis: the connection is made, or made again once the delay has passed.
Reaches == redisUp /\ link \in {"up", "due"}

\* What an operation leaves of the connection: a failure schedules the next attempt.
LinkAfter == IF link = "waiting" THEN "waiting" ELSE IF redisUp THEN "up" ELSE "waiting"

Entries == IF Reaches THEN inRedis ELSE inProcess

\* cache_set
Put(e) ==
    LET Replace(S) == {x \in S : x.key # e.key} \cup {e}
    IN  /\ link' = LinkAfter
        /\ IF Reaches
           THEN inRedis' = Replace(inRedis) /\ UNCHANGED inProcess
           ELSE inProcess' = Replace(inProcess) /\ UNCHANGED inRedis

\* cache_delete_pattern: the entries of the process stay while Redis answers.
DropAll ==
    /\ link' = LinkAfter
    /\ IF Reaches THEN inRedis' = {} /\ UNCHANGED inProcess
       ELSE inProcess' = {} /\ UNCHANGED inRedis

----------------------------------------------------------------------------
(* ask *)

\* _get_or_create_session gives the conversation the tenant's current retriever.
ResolveRetriever(q) ==
    /\ asked[q].step = "new"
    /\ talk' = [talk EXCEPT ![asked[q].thread].retriever = generation]
    /\ asked' = [p \in Questioners |->
          IF p = q THEN [asked[q] EXCEPT !.step = "key", !.resolved = generation]
          ELSE IF asked[p].thread = asked[q].thread THEN [asked[p] EXCEPT !.raced = TRUE]
          ELSE asked[p]]
    /\ UNCHANGED <<generation, invalidate, redisUp, link, inRedis, inProcess>>

\* The session has no history.
FirstTurn(t) == talk[t].turns = {}

\* build_llm_response_cache_key: the identity of the index is read from the manifest now.
CacheKey == generation

\* A hit is answered from the entry and appended to the history, without the turn.
LookUpAnswer(q) ==
    LET t == asked[q].thread
        hits == {e \in Entries : e.key = CacheKey}
    IN  /\ asked[q].step = "key"
        /\ FirstTurn(t)
        /\ link' = LinkAfter
        /\ IF hits # {}
           THEN /\ Goes(q, "served")
                /\ talk' = [talk EXCEPT ![t].turns = @ \cup {q}]
           ELSE /\ asked' = [asked EXCEPT ![q].step = "queued", ![q].key = CacheKey,
                        ![q].straddled = asked[q].resolved # CacheKey,
                        ![q].raced = \E p \in Questioners \ {q} :
                            asked[p].thread = t /\ asked[p].step \in {"key", "queued", "turn"}]
                /\ UNCHANGED talk
        /\ UNCHANGED <<generation, invalidate, redisUp, inRedis, inProcess>>

\* A follow-up, or an identity that cannot be resolved: the cache is left alone.
PassCache(q) ==
    /\ asked[q].step = "key"
    /\ Goes(q, "queued")
    /\ UNCHANGED <<talk, generation, invalidate, redisUp, link, inRedis, inProcess>>

\* The turn begins: the pipeline sees the history and the retriever of this moment.
BeginTurn(q) ==
    LET t == asked[q].thread
    IN  /\ asked[q].step = "queued"
        /\ \A p \in Questioners : asked[p].thread = t => asked[p].step # "turn"
        /\ asked' = [asked EXCEPT ![q].step = "turn", ![q].made = talk[t].retriever,
                                  ![q].context = talk[t].turns # {}]
        /\ UNCHANGED <<talk, generation, invalidate, redisUp, link, inRedis, inProcess>>

FinishTurn(q) ==
    /\ asked[q].step = "turn"
    /\ talk' = [talk EXCEPT ![asked[q].thread].turns = @ \cup {q}]
    /\ Goes(q, "answered")
    /\ UNCHANGED <<generation, invalidate, redisUp, link, inRedis, inProcess>>

\* Mutant: the entry is filed under the generation that is active when it is written.
EntryOf_CurrentKey(q) ==
    [key |-> generation, made |-> asked[q].made, context |-> asked[q].context,
     straddled |-> asked[q].straddled, raced |-> asked[q].raced]

EntryOf(q) ==
    [key |-> asked[q].key, made |-> asked[q].made, context |-> asked[q].context,
     straddled |-> asked[q].straddled, raced |-> asked[q].raced]

\* Only an automatic answer without confirmation and tools is kept.
KeepAnswer(q) ==
    /\ asked[q].step = "answered"
    /\ asked[q].key # NoCacheKey
    /\ Put(EntryOf(q))
    /\ Goes(q, "served")
    /\ UNCHANGED <<talk, generation, invalidate, redisUp>>

Discard(q) ==
    /\ asked[q].step = "answered"
    /\ Goes(q, "served")
    /\ UNCHANGED <<talk, generation, invalidate, redisUp, link, inRedis, inProcess>>

----------------------------------------------------------------------------
(* Index, server, time *)

PublishIndex ==
    /\ generation < MaxGeneration
    /\ generation' = generation + 1
    /\ invalidate' = TRUE
    /\ UNCHANGED <<asked, talk, redisUp, link, inRedis, inProcess>>

InvalidateAnswers ==
    /\ invalidate
    /\ DropAll
    /\ invalidate' = FALSE
    /\ UNCHANGED <<asked, talk, generation, redisUp>>

FlipRedis ==
    /\ redisUp' = ~redisUp
    /\ UNCHANGED <<asked, talk, generation, invalidate, link, inRedis, inProcess>>

RetryDue ==
    /\ link = "waiting"
    /\ link' = "due"
    /\ UNCHANGED <<asked, talk, generation, invalidate, redisUp, inRedis, inProcess>>

\* llm_cache_ttl_seconds pass.
Expire ==
    \/ \E e \in inRedis :
          inRedis' = inRedis \ {e}
          /\ UNCHANGED <<asked, talk, generation, invalidate, redisUp, link, inProcess>>
    \/ \E e \in inProcess :
          inProcess' = inProcess \ {e}
          /\ UNCHANGED <<asked, talk, generation, invalidate, redisUp, link, inRedis>>

CacheNext ==
    \/ \E q \in Questioners :
          \/ ResolveRetriever(q) \/ LookUpAnswer(q) \/ PassCache(q) \/ BeginTurn(q)
          \/ FinishTurn(q) \/ KeepAnswer(q) \/ Discard(q)
    \/ PublishIndex \/ InvalidateAnswers \/ FlipRedis \/ RetryDue \/ Expire

CacheSpec == CacheInit /\ [][CacheNext]_cacheVars

----------------------------------------------------------------------------
(* Properties *)

CacheTypeOK ==
    /\ \A q \in Questioners :
          /\ asked[q].step \in {"new", "key", "queued", "turn", "answered", "served"}
          /\ asked[q].key \in 0..generation
          /\ asked[q].made \in 0..generation
    /\ \A t \in Threads : talk[t].retriever \in 1..generation
    /\ generation \in 1..MaxGeneration
    /\ link \in {"up", "waiting", "due"}
    /\ \A e, f \in inRedis : e.key = f.key => e = f
    /\ \A e, f \in inProcess : e.key = f.key => e = f

\* An answer filed under a generation was made from that generation or a later one,
\* unless a publication fell between the request's retriever and its key.
EntryIsOfItsGeneration ==
    \A e \in inRedis \cup inProcess : e.made >= e.key \/ e.straddled

\* A follow-up's answer gets into the cache only when another request of the same
\* conversation was under way when this one chose its key, or arrived after that.
FollowUpsNeedARace ==
    \A e \in inRedis \cup inProcess : e.context => e.raced

\* The answer cache gives out only answers of the generation they are filed under, and of
\* conversations without a history but for a race (build_llm_response_cache_key, ask).
CacheSafety ==
    /\ CacheTypeOK
    /\ EntryIsOfItsGeneration
    /\ FollowUpsNeedARace
=============================================================================
