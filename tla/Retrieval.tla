------------------------------ MODULE Retrieval ------------------------------
(***************************************************************************)
(* run_retrieval, one question: the searches of PostgreSQL and of Qdrant,  *)
(* their fusion, the hydration from PostgreSQL, the reranking and the      *)
(* selection, one step each, since the corpus changes between them.        *)
(*                                                                         *)
(* Chunks are numbered in the order of their UUIDs, which breaks ties.     *)
(***************************************************************************)
EXTENDS Naturals, SequencesExt

CONSTANTS
    ChunkCount,         \* bound: chunks
    PerSource,          \* CANDIDATES_PER_SOURCE (30)
    FusionKeep,         \* FUSION_KEEP (20)
    RrfK,               \* RRF_K (60)
    MaxTopK             \* bound: top_k of a request

ASSUME RetrievalAssumption ==
    /\ ChunkCount \in Nat /\ PerSource \in Nat /\ FusionKeep \in Nat
    /\ RrfK \in Nat /\ MaxTopK \in Nat

VARIABLES
    mode, topK, reranks,    \* the request; is there a reranker?
    lexical, dense,         \* the results of the searches, best first
    ordered,                \* the chunks kept, best first
    rows,                   \* the chunks the user may see when they are hydrated
    selected,               \* the evidence
    stage                   \* the step that is next

qvars == <<mode, topK, reranks, lexical, dense, ordered, rows, selected, stage>>

ChunkIds == 1 .. ChunkCount
Modes == {"lexical", "dense", "hybrid", "reranked_hybrid"}
HybridModes == {"hybrid", "reranked_hybrid"}

\* What a search may return: chunks without repetition, up to a limit.
Rankings(limit) == {s \in SetToAllKPermutations(ChunkIds) : Len(s) <= limit}

QInit ==
    /\ mode \in Modes /\ topK \in 1 .. MaxTopK /\ reranks \in BOOLEAN
    /\ lexical = <<>> /\ dense = <<>> /\ ordered = <<>> /\ selected = <<>>
    /\ rows = {}
    /\ stage = "lexical"

SearchLexical ==
    /\ stage = "lexical"
    /\ IF mode = "dense" THEN lexical' = <<>>
       ELSE lexical' \in Rankings(IF mode = "lexical" THEN topK ELSE PerSource)
    /\ stage' = "dense"
    /\ UNCHANGED <<mode, topK, reranks, dense, ordered, rows, selected>>

\* Qdrant may still hold points of chunks that are gone, or hidden by now.
SearchDense ==
    /\ stage = "dense"
    /\ IF mode = "lexical" THEN dense' = <<>>
       ELSE dense' \in Rankings(IF mode = "dense" THEN topK ELSE PerSource)
    /\ stage' = "fuse"
    /\ UNCHANGED <<mode, topK, reranks, lexical, ordered, rows, selected>>

-----------------------------------------------------------------------------
(* Reciprocal rank fusion, over fractions <<numerator, denominator>> *)

Found(list) == Range(list)
RankIn(list, c) == CHOOSE r \in DOMAIN list : list[r] = c

\* Variant: without the constant.
ShareUndamped(list, c) == IF c \in Found(list) THEN <<1, RankIn(list, c)>> ELSE <<0, 1>>

\* What a list adds to the score of a chunk.
Share(list, c) == IF c \in Found(list) THEN <<1, RrfK + RankIn(list, c)>> ELSE <<0, 1>>

Score(c) == LET l == Share(lexical, c)  d == Share(dense, c)
            IN  <<l[1] * d[2] + d[1] * l[2], l[2] * d[2]>>

Exceeds(f, g) == f[1] * g[2] > g[1] * f[2]

\* sorted(key=(-score, str(id)))
Precedes(c, d) == \/ Exceeds(Score(c), Score(d))
                  \/ ~Exceeds(Score(d), Score(c)) /\ c < d

\* The chunks found in that order, which is a total one: there is one such list.
Fused == {s \in SetToSeqs(Found(lexical) \cup Found(dense)) :
            \A q, r \in DOMAIN s : q < r => Precedes(s[q], s[r])}

\* list[:limit]
First(list, limit) == SubSeq(list, 1, IF limit < Len(list) THEN limit ELSE Len(list))

Fuse ==
    /\ stage = "fuse"
    /\ \/ mode = "lexical" /\ ordered' = lexical
       \/ mode = "dense" /\ ordered' = dense
       \/ mode \in HybridModes /\ \E s \in Fused : ordered' = First(s, FusionKeep)
    /\ stage' = "hydrate"
    /\ UNCHANGED <<mode, topK, reranks, lexical, dense, rows, selected>>

-----------------------------------------------------------------------------
(* Hydration, reranking, selection *)

\* Chunks that are gone, not indexed or not visible by now drop out; the others
\* keep their order.
Hydrate ==
    /\ stage = "hydrate"
    /\ rows' \in SUBSET ChunkIds
    /\ ordered' \in SetToSeqs(Range(ordered) \cap rows')
    /\ \A q, r \in DOMAIN ordered' :
         q < r => RankIn(ordered, ordered'[q]) < RankIn(ordered, ordered'[r])
    /\ stage' = "rerank"
    /\ UNCHANGED <<mode, topK, reranks, lexical, dense, selected>>

\* The scores of the model may give any order.
Rerank ==
    /\ stage = "rerank"
    /\ IF mode = "reranked_hybrid" /\ reranks
         THEN ordered' \in SetToSeqs(Range(ordered))
         ELSE ordered' = ordered
    /\ stage' = "select"
    /\ UNCHANGED <<mode, topK, reranks, lexical, dense, rows, selected>>

Select ==
    /\ stage = "select"
    /\ selected' = First(ordered, topK)
    /\ stage' = "answer"
    /\ UNCHANGED <<mode, topK, reranks, lexical, dense, ordered, rows>>

QNext == SearchLexical \/ SearchDense \/ Fuse \/ Hydrate \/ Rerank \/ Select

-----------------------------------------------------------------------------
(* Properties *)

Before(c, d) == \E q, r \in DOMAIN ordered : q < r /\ ordered[q] = c /\ ordered[r] = d

\* The position of a chunk in a list, past its end if it is not there.
Place(list, c) == IF c \in Found(list) THEN RankIn(list, c) ELSE PerSource + 1
NotBehind(c, d) == Place(lexical, c) <= Place(lexical, d) /\ Place(dense, c) <= Place(dense, d)

InBoth(c) == c \in Found(lexical) /\ c \in Found(dense)

\* Fusion respects what the lists agree on: a chunk that neither list puts
\* behind another is kept when the other is, and comes before it, unless the
\* reranker says otherwise; a chunk both lists found comes before one that only
\* one of them found.
FusionAgrees ==
    mode \in HybridModes /\ stage = "hydrate" =>
        \A c, d \in Found(lexical) \cup Found(dense) :
            c # d /\ d \in Range(ordered)
              /\ ((NotBehind(c, d) /\ ~NotBehind(d, c)) \/ (InBoth(c) /\ ~InBoth(d)))
            => Before(c, d)
=============================================================================
