------------------------------ MODULE MCServing ------------------------------
(***************************************************************************)
(* Instances for TLC of the components behind one question: the store of   *)
(* sessions, the cached answers, the streamed turns, the calls of the      *)
(* providers and their accounting, the agentic replies, the cached         *)
(* retrievers and the search.  They share no state in these models, so a   *)
(* behaviour of this module is a behaviour of one of them, chosen by the   *)
(* initial state; the others rest.                                         *)
(***************************************************************************)
EXTENDS SessionStore, AnswerCache, AnswerStream, ProviderCalls, TraceLedger, RetrieverCache,
        HybridRetrieval, AgenticAnswer

VARIABLE part  \* the component that runs

Some(S) == CHOOSE x \in S : TRUE

\* Documents a search may return: under the floor, at it, without text, without a score.
KbArticles ==
    {[text |-> "plain", score |-> MinRelevance - 1], [text |-> "plain", score |-> MinRelevance],
     [text |-> "blank", score |-> Unscored], [text |-> "injection", score |-> Unscored]}

\* One local model stands in for the two others.
OneStandIn ==
    LET local == Some(Models \ ToolModels)
    IN [m \in Models |-> IF m = local THEN NoModel ELSE local]

\* The one initial state in which a component with several of them rests.
StoreRests ==
    /\ \A v \in Visits :
          visit[v].owner = Some(Owners) /\ visit[v].id = Some(Ids) /\ ~visit[v].supplied
    /\ \A d \in Removals :
          removal[d].owner = Some(Owners) /\ removal[d].id = Some(Ids) /\ ~removal[d].hex

CacheRests == \A q \in Questioners : asked[q].thread = Some(Threads)

StreamRests == parity /\ history = <<>>

RetrievalRests == (\A c \in DOMAIN size : size[c] = 1) /\ doc[ChunkCount] = 1

AgenticRests == flow.step = "pending" /\ flow.own = NoModel

ServingInit ==
    /\ part \in {"store", "cache", "stream", "provider", "ledger", "retriever", "retrieval",
                 "agentic"}
    /\ StoreInit /\ (part = "store" \/ StoreRests)
    /\ CacheInit /\ (part = "cache" \/ CacheRests)
    /\ StreamInit /\ (part = "stream" \/ StreamRests)
    /\ ProviderInit
    /\ LedgerInit
    /\ RetrieverCacheInit
    /\ RetrievalInit /\ (part = "retrieval" \/ RetrievalRests)
    /\ AgenticInit /\ (part = "agentic" \/ AgenticRests)

\* Every component but the one that runs rests.
OthersRest ==
    /\ UNCHANGED part
    /\ part # "store" => UNCHANGED storeVars
    /\ part # "cache" => UNCHANGED cacheVars
    /\ part # "stream" => UNCHANGED streamVars
    /\ part # "provider" => UNCHANGED providerVars
    /\ part # "ledger" => UNCHANGED ledgerVars
    /\ part # "retriever" => UNCHANGED retrieverVars
    /\ part # "retrieval" => UNCHANGED retrievalVars
    /\ part # "agentic" => UNCHANGED agenticVars

ServingNext ==
    \/ part = "store" /\ StoreNext /\ OthersRest
    \/ part = "cache" /\ CacheNext /\ OthersRest
    \/ part = "stream" /\ StreamNext /\ OthersRest
    \/ part = "provider" /\ ProviderNext /\ OthersRest
    \/ part = "ledger" /\ LedgerNext /\ OthersRest
    \/ part = "retriever" /\ RetrieverCacheNext /\ OthersRest
    \/ part = "retrieval" /\ RetrievalNext /\ OthersRest
    \/ part = "agentic" /\ AgenticNext /\ OthersRest

ServingSpec ==
    ServingInit /\ [][ServingNext]_<<part, storeVars, cacheVars, streamVars, providerVars,
                                     ledgerVars, retrieverVars, retrievalVars, agenticVars>>
=============================================================================
