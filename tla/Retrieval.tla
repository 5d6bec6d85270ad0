------------------------------ MODULE Retrieval ------------------------------
(***************************************************************************)
(* RetrievalService.search(): a dense and a keyword ranking of the         *)
(* tenant's chunks, fused by reciprocal rank, optionally reranked by a     *)
(* model that scores the candidates again, and cut to the best top_n.      *)
(* Chunks are their ids; a ranking is a sequence of distinct ids.          *)
(***************************************************************************)
EXTENDS Integers, Sequences, FiniteSetsExt, SequencesExt

CONSTANTS
    Ids,
    K,          \* k_dense, k_keyword: the length of a ranking at most
    RrfK,       \* rrf_k
    TopN,
    MaxScore    \* bound: the reranker's scores

\* Of the constants.  The defaults are 30 and 60: agreement of the rankings then
\* outweighs any single rank.
RankAssumption ==
    Ids \subseteq Nat /\ K \in Nat /\ RrfK \in Nat /\ K < RrfK + 2 /\ TopN \in Nat /\ MaxScore \in Nat

VARIABLES
    pc,
    mode,      \* "hybrid", "dense", "keyword"
    reranker,  \* one is configured
    dense,     \* the ranking by similarity
    keyword,   \* the ranking by text match
    rerank,    \* the reranker's score of each candidate
    ordered,
    results

vars == <<pc, mode, reranker, dense, keyword, rerank, ordered, results>>

Rankings     == {s \in SeqOf(Ids, K) : IsInjective(s)}
In(x, list)  == x \in ToSet(list)
RankOf(x, list) == CHOOSE i \in DOMAIN list : list[i] = x
NoScores     == [x \in Ids |-> 0]

\* sorted(): by falling score, then by id.
Before(x, y, score) == score[x] > score[y] \/ (score[x] = score[y] /\ x < y)
SortBy(S, score) ==
    [i \in 1..Cardinality(S) |-> CHOOSE x \in S : Cardinality({y \in S : Before(y, x, score)}) = i - 1]

Init ==
    /\ pc = "dense"
    /\ mode \in {"hybrid", "dense", "keyword"}
    /\ reranker \in BOOLEAN
    /\ dense = <<>> /\ keyword = <<>>
    /\ rerank = NoScores
    /\ ordered = <<>> /\ results = <<>>

SearchDense ==
    /\ pc = "dense"
    /\ dense' \in IF mode \in {"hybrid", "dense"} THEN Rankings ELSE {<<>>}
    /\ pc' = "keyword"
    /\ UNCHANGED <<mode, reranker, keyword, rerank, ordered, results>>

SearchKeyword ==
    /\ pc = "keyword"
    /\ keyword' \in IF mode \in {"hybrid", "keyword"} THEN Rankings ELSE {<<>>}
    /\ pc' = "fuse"
    /\ UNCHANGED <<mode, reranker, dense, rerank, ordered, results>>

\* 1 / (rrf_k + rank) for ranks from 1, times the product of all denominators.
Scale ==
    LET product[n \in 0..K] == IF n = 0 THEN 1 ELSE product[n - 1] * (RrfK + n)
    IN  product[K]

\* Mutant: points that fall evenly with the rank.
PartByRank(x, list) == IF In(x, list) THEN K + 1 - RankOf(x, list) ELSE 0

\* What a ranking contributes to a chunk's fused score.
Part(x, list) == IF In(x, list) THEN Scale \div (RrfK + RankOf(x, list)) ELSE 0

Fused == [x \in ToSet(dense) \cup ToSet(keyword) |-> Part(x, dense) + Part(x, keyword)]

Fuse ==
    /\ pc = "fuse"
    /\ ordered' = CASE mode = "hybrid"  -> SortBy(DOMAIN Fused, Fused)
                    [] mode = "dense"   -> dense
                    [] mode = "keyword" -> keyword
    /\ pc' = IF reranker /\ ordered' # <<>> THEN "rerank" ELSE "cut"
    /\ UNCHANGED <<mode, reranker, dense, keyword, rerank, results>>

\* Mutant: only what would be returned anyway is reranked.
RerankBest ==
    /\ pc = "rerank"
    /\ \E scores \in [ToSet(ordered) -> 0..MaxScore] :
          /\ rerank'  = [x \in Ids |-> IF In(x, ordered) THEN scores[x] ELSE 0]
          /\ ordered' = SortBy(ToSet(SubSeq(ordered, 1, Min({TopN, Len(ordered)}))), scores)
    /\ pc' = "cut"
    /\ UNCHANGED <<mode, reranker, dense, keyword, results>>

\* Every candidate gets a score, and the scores alone decide.
Rerank ==
    /\ pc = "rerank"
    /\ \E scores \in [ToSet(ordered) -> 0..MaxScore] :
          /\ rerank'  = [x \in Ids |-> IF In(x, ordered) THEN scores[x] ELSE 0]
          /\ ordered' = SortBy(ToSet(ordered), scores)
    /\ pc' = "cut"
    /\ UNCHANGED <<mode, reranker, dense, keyword, results>>

Cut ==
    /\ pc = "cut"
    /\ results' = SubSeq(ordered, 1, Min({TopN, Len(ordered)}))
    /\ pc' = "done"
    /\ UNCHANGED <<mode, reranker, dense, keyword, rerank, ordered>>

Next == SearchDense \/ SearchKeyword \/ Fuse \/ Rerank \/ Cut

Spec == Init /\ [][Next]_vars

-----------------------------------------------------------------------------
(* Properties. *)

Found == ToSet(dense) \cup ToSet(keyword)

FusedOnly == pc = "done" /\ mode = "hybrid" /\ ~reranker

\* x is returned, and not after y.
Beats(x, y) == In(x, results) /\ (In(y, results) => RankOf(x, results) < RankOf(y, results))

Better(x, y, list) == In(x, list) /\ (In(y, list) => RankOf(x, list) < RankOf(y, list))

\* A chunk that is found by both searches is ranked above one that is found by one of
\* them, however high it stands there.
AgreementWins ==
    FusedOnly =>
        \A x \in ToSet(dense) \cap ToSet(keyword) : \A y \in Found \ {x} :
            ~(In(y, dense) /\ In(y, keyword)) => Beats(x, y) \/ ~In(y, results)

\* The fused order never contradicts both searches.
RespectsBoth ==
    FusedOnly =>
        \A x, y \in Found :
            Better(x, y, dense) /\ Better(x, y, keyword) => Beats(x, y) \/ ~In(y, results)

\* With a reranker no candidate is left out for a worse one: the cut comes after it, and
\* all candidates of both searches take part.
BestAreReturned ==
    pc = "done" /\ reranker =>
        /\ Len(results) = Min({TopN, Cardinality(Found)})
        /\ \A x \in ToSet(results) : \A y \in Found \ ToSet(results) : rerank[x] >= rerank[y]

=============================================================================
