--------------------------- MODULE HybridRetrieval ---------------------------
(***************************************************************************)
(* One query of the hybrid retriever: the ranking of the vector store and  *)
(* the one of BM25 are fused by reciprocal ranks, a cross-encoder may      *)
(* reorder the result, and each chunk kept is joined with the neighbours   *)
(* of its document that fit in a budget of characters.  Chunks are numbers *)
(* in the order they were ingested, which is also their key (chunk_index); *)
(* a chunk of the store that is not in the list the retriever was built    *)
(* with is Foreign.                                                        *)
(*                                                                         *)
(* vectordb/_base_manager.py (HybridRetriever, get_retriever).             *)
(***************************************************************************)
EXTENDS Integers, Sequences, FiniteSets, SequencesExt

CONSTANTS
    ChunkCount,  \* chunks of the corpus
    MaxSize,     \* sizes of chunks are 1 .. MaxSize
    RetrievalK,  \* retrieval_top_k
    RerankK,     \* rerank_top_k
    RrfK,        \* rrf_k
    Denominator, \* of scores, which are sums of the reciprocals of ranks
    Window,      \* parent_expansion_window
    MaxChars     \* parent_expansion_max_chars

ASSUME HybridRetrievalAssumption ==
    /\ {ChunkCount, MaxSize, RetrievalK, RerankK, RrfK, Window} \subseteq Nat \ {0}
    /\ MaxChars \in Nat
    \* Scores are counted in multiples of 1 / Denominator, and exactly.
    /\ Denominator \in Nat \ {0}
    /\ \A rank \in 0 .. RetrievalK - 1 : Denominator % (RrfK + rank) = 0

Chunks == 1 .. ChunkCount
Foreign == ChunkCount + 1

VARIABLES
    size,     \* size[c]: characters of chunk c
    doc,      \* doc[c]: the document chunk c was cut from
    query,    \* the query: step, the two rankings, the merged list
    expansion \* of the chunks chosen: the keys used and, one by one, the results

retrievalVars == <<size, doc, query, expansion>>

\* Documents are cut one after the other, so the chunks of one are consecutive.
RetrievalInit ==
    /\ size \in [Chunks \cup {Foreign} -> 1 .. MaxSize]
    /\ \E cut \in Chunks : doc = [c \in Chunks \cup {Foreign} |-> IF c <= cut THEN 1 ELSE 2]
    /\ query = [step |-> "search", vector |-> <<>>, words |-> <<>>, merged |-> <<>>]
    /\ expansion = [chosen |-> <<>>, used |-> {}, result |-> <<>>]

\* Rankings of at most RetrievalK chunks of S.
Rankings(S) ==
    {s \in UNION {[1 .. n -> S] : n \in 0 .. RetrievalK} : \A i, j \in DOMAIN s : s[i] = s[j] => i = j}

----------------------------------------------------------------------------
(* Reciprocal rank fusion *)

\* Position of c in a list; lists have no repeated chunk.
Place(list, c) == CHOOSE i \in DOMAIN list : list[i] = c

\* What a list adds to the score of chunk c: 1 / (k + rank), ranks counted from 0.
ScoreIn(list, c) ==
    IF c \in ToSet(list)
    THEN Denominator \div (RrfK + Place(list, c) - 1)
    ELSE 0

\* Mutant: the second list's score replaces the first one's.
Score_Overwritten(a, b, c) == IF c \in ToSet(b) THEN ScoreIn(b, c) ELSE ScoreIn(a, c)

Score(a, b, c) == ScoreIn(a, c) + ScoreIn(b, c)

\* When a key is first met: the first list is read before the second one.
FirstMet(a, b, c) == IF c \in ToSet(a) THEN Place(a, c) ELSE Len(a) + Place(b, c)

\* By falling score; ties keep the order in which the keys were first met.
Ahead(a, b, c, d) ==
    \/ Score(a, b, c) > Score(a, b, d)
    \/ Score(a, b, c) = Score(a, b, d) /\ FirstMet(a, b, c) < FirstMet(a, b, d)

\* _rrf_merge: what is p-th has p - 1 chunks ahead of it.
RrfMerge(a, b) ==
    LET met == ToSet(a) \cup ToSet(b)
    IN  [p \in 1 .. Cardinality(met) |->
            CHOOSE c \in met : Cardinality({d \in met : Ahead(a, b, d, c)}) = p - 1]

----------------------------------------------------------------------------
(* The query *)

\* _vector_search: an error is an empty ranking.
VectorSearch ==
    /\ query.step = "search"
    /\ \E ranking \in Rankings(Chunks \cup {Foreign}) :
          query' = [query EXCEPT !.step = "words", !.vector = ranking]
    /\ UNCHANGED <<size, doc, expansion>>

\* BM25 ranks the chunks with a positive score; the lists are fused unless it found none.
WordSearch ==
    /\ query.step = "words"
    /\ \E ranking \in Rankings(Chunks) :
          query' = [query EXCEPT !.step = "rerank", !.words = ranking,
                       !.merged = IF ranking = <<>> THEN query.vector
                                  ELSE RrfMerge(query.vector, ranking)]
    /\ UNCHANGED <<size, doc, expansion>>

TopK(list) == SubSeq(list, 1, IF Len(list) < RerankK THEN Len(list) ELSE RerankK)

\* The best of a list are kept and handed to _expand_parents; the rankings are not
\* looked at again.
Keep(list) ==
    /\ query' = [step |-> "expand", vector |-> <<>>, words |-> <<>>, merged |-> <<>>]
    /\ expansion' = [chosen |-> TopK(list), used |-> ToSet(TopK(list)), result |-> <<>>]
    /\ UNCHANGED <<size, doc>>

\* get_vector_documents: the path of simple questions ends with the vector ranking.
VectorOnly == query.step = "words" /\ Keep(query.vector)

\* The cross-encoder orders the list as it likes.
Rerank ==
    /\ query.step = "rerank" /\ query.merged # <<>>
    /\ \E order \in {o \in [DOMAIN query.merged -> DOMAIN query.merged] :
                        \A i, j \in DOMAIN o : o[i] = o[j] => i = j} :
          Keep([i \in DOMAIN order |-> query.merged[order[i]]])

\* Without a reranker, or when it fails, the fused order stands.
KeepOrder == query.step = "rerank" /\ Keep(query.merged)

\* Past the deadline of the request the reranker refuses and the query raises.
DeadlineRefuses ==
    /\ query.step = "rerank" /\ query.merged # <<>>
    /\ query' = [query EXCEPT !.step = "raised"]
    /\ UNCHANGED <<size, doc, expansion>>

----------------------------------------------------------------------------
(* Parent expansion: two loops, a step for each turn of either. *)

\* The positions tried around pos, nearest first, the one before ahead of the one after.
Tries == 2 * Window
Neighbour(pos, n) == IF n % 2 = 1 THEN pos - (n + 1) \div 2 ELSE pos + n \div 2

Opened == expansion.result[Len(expansion.result)]

Complete == expansion.result # <<>> => Opened.tried = Tries

\* The next of the chosen chunks, with what is left of the budget once it is in.  A
\* chunk that has no position is shown as it is.
ExpandNext ==
    /\ query.step = "expand" /\ Complete
    /\ Len(expansion.result) < Len(expansion.chosen)
    /\ LET c == expansion.chosen[Len(expansion.result) + 1] IN
       expansion' = [expansion EXCEPT !.result = Append(@,
           [core |-> c, parts |-> {}, tried |-> IF c \in Chunks THEN 0 ELSE Tries,
            room |-> IF size[c] <= MaxChars THEN MaxChars - size[c] ELSE 0])]
    /\ UNCHANGED <<size, doc, query>>

NextNeighbour == Neighbour(Opened.core, Opened.tried + 1)

\* A neighbour is joined if it is of the same document, not shown yet, and fits.
Joins(n) ==
    /\ n \in Chunks /\ doc[n] = doc[Opened.core]
    /\ n \notin expansion.used
    /\ size[n] <= Opened.room

SkipNeighbour ==
    /\ query.step = "expand" /\ ~Complete
    /\ ~Joins(NextNeighbour)
    /\ expansion' = [expansion EXCEPT !.result[Len(expansion.result)] =
                        [Opened EXCEPT !.tried = @ + 1]]
    /\ UNCHANGED <<size, doc, query>>

JoinNeighbour ==
    /\ query.step = "expand" /\ ~Complete
    /\ Joins(NextNeighbour)
    /\ expansion' = [expansion EXCEPT
                        !.used = @ \cup {NextNeighbour},
                        !.result[Len(expansion.result)] =
                            [Opened EXCEPT !.tried = @ + 1, !.parts = @ \cup {NextNeighbour},
                                           !.room = @ - size[NextNeighbour]]]
    /\ UNCHANGED <<size, doc, query>>

Expanded ==
    /\ query.step = "expand" /\ Complete
    /\ Len(expansion.result) = Len(expansion.chosen)
    /\ query' = [query EXCEPT !.step = "done"]
    /\ UNCHANGED <<size, doc, expansion>>

RetrievalNext ==
    \/ VectorSearch \/ VectorOnly \/ WordSearch \/ Rerank \/ KeepOrder \/ DeadlineRefuses
    \/ ExpandNext \/ SkipNeighbour \/ JoinNeighbour \/ Expanded

RetrievalSpec == RetrievalInit /\ [][RetrievalNext]_retrievalVars

----------------------------------------------------------------------------
(* Properties *)

RetrievalTypeOK ==
    /\ query.step \in {"search", "words", "rerank", "expand", "done", "raised"}
    /\ query.vector \in Rankings(Chunks \cup {Foreign}) /\ query.words \in Rankings(Chunks)
    /\ ToSet(query.merged) \subseteq Chunks \cup {Foreign}
    /\ expansion.chosen \in Seq(Chunks \cup {Foreign})
    /\ \A r \in ToSet(expansion.result) : r.parts \subseteq Chunks /\ r.room \in 0 .. MaxChars

\* Fusion respects agreement: a chunk that precedes another in every ranking the
\* other is in precedes it in the fused list, even when it is also far down another list.
FusionRespectsAgreement ==
    query.step = "rerank" =>
        \A a, b \in ToSet(query.merged) :
            (/\ a # b
             /\ \A list \in {query.vector, query.words} :
                   b \in ToSet(list) => a \in ToSet(list) /\ Place(list, a) < Place(list, b))
            => Place(query.merged, a) < Place(query.merged, b)

\* No chunk's text is given to the model twice: a neighbour is joined to one selected
\* chunk only, and never when it is itself selected.
NoTextTwice ==
    LET result == expansion.result IN
    \A i, j \in DOMAIN result :
        /\ result[j].core \notin result[i].parts
        /\ i # j => result[i].core # result[j].core /\ result[i].parts \cap result[j].parts = {}

\* The characters of a set of chunks of these sizes.
Text(sizes, parts) ==
    LET upTo[n \in 0 .. ChunkCount] ==
            IF n = 0 THEN 0 ELSE upTo[n - 1] + (IF n \in parts THEN sizes[n] ELSE 0)
    IN  upTo[ChunkCount]

\* The greedy choice forgets nobody: a neighbour within the window that is shown nowhere
\* would not fit in what is left of the budget, although it was tried before others; and the
\* budget is not overspent.
UnshownDidNotFit ==
    query.step = "done" =>
        \A r \in ToSet(expansion.result) :
            /\ r.parts # {} => size[r.core] + Text(size, r.parts) <= MaxChars
            /\ r.core \in Chunks =>
                 \A t \in 1 .. Tries : LET n == Neighbour(r.core, t) IN
                     \/ n \notin Chunks \/ doc[n] # doc[r.core]
                     \/ \E q \in ToSet(expansion.result) : n = q.core \/ n \in q.parts
                     \/ size[n] + size[r.core] + Text(size, r.parts) > MaxChars

\* What a query gives to the model is ranked by both searches, holds no text twice and
\* leaves out no neighbour that fits (_rrf_merge, _expand_parents).
RetrievalSafety ==
    /\ RetrievalTypeOK
    /\ FusionRespectsAgreement
    /\ NoTextTwice
    /\ UnshownDidNotFit
=============================================================================
