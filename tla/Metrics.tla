------------------------------- MODULE Metrics -------------------------------
(***************************************************************************)
(* The metrics of one evaluated case (metrics.py) as execute_run calls     *)
(* them: the ranking is that of run_retrieval, without repetition; the     *)
(* judgments are those of the case.  Fractions are <<numerator,            *)
(* denominator>>; the discounts 1 / log2(rank + 1) are given in            *)
(* ten-thousandths.                                                        *)
(***************************************************************************)
EXTENDS Naturals, SequencesExt, Numbers

CONSTANTS
    Judgeable,      \* chunks
    MaxGrade,       \* bound: relevance, 0 to 3 in the code
    HitK,           \* the 5 of hit_at_5 and recall_at_5
    RankK           \* the 10 of mrr_at_10 and ndcg_at_10

ASSUME MetricsAssumption ==
    /\ IsFiniteSet(Judgeable) /\ MaxGrade \in Nat
    /\ HitK \in Nat \ {0} /\ RankK \in HitK .. 10

VARIABLES
    ranking,        \* ranked_ids
    judgments,      \* relevance of the judged chunks
    score           \* what EvalResult is given, "none" before

mvars == <<ranking, judgments, score>>

Discount == <<10000, 6309, 5000, 4307, 3869, 3562, 3333, 3155, 3010, 2891>>
Top(s, top) == SubSeq(s, 1, IF top < Len(s) THEN top ELSE Len(s))

RankedRel == [r \in DOMAIN ranking |->
                IF ranking[r] \in DOMAIN judgments THEN judgments[ranking[r]] ELSE 0]
JudgedRelevant == {c \in DOMAIN judgments : judgments[c] >= 1}

\* 2**rel - 1
Gain[g \in 0 .. MaxGrade] == IF g = 0 THEN 0 ELSE 2 * Gain[g - 1] + 1

\* sorted(ideal_relevances, reverse=True): at place r the grade that r judgments
\* reach and fewer exceed.
Reaching(g) == {c \in DOMAIN judgments : judgments[c] >= g}
Ideal == [r \in 1 .. Cardinality(DOMAIN judgments) |->
            CHOOSE g \in 0 .. MaxGrade :
                Cardinality(Reaching(g)) >= r /\ Cardinality(Reaching(g + 1)) < r]

hit_at_k(rels, top) == IF \E r \in DOMAIN Top(rels, top) : rels[r] >= 1 THEN 1 ELSE 0

RelevantIn(rels, top) == {r \in DOMAIN Top(rels, top) : rels[r] >= 1}

\* Variant: the total is that of chunks that answer fully.
recall_of_best(rels, total, top) ==
    IF total = 0 THEN <<0, 1>>
    ELSE <<Cardinality(RelevantIn(rels, top)), Cardinality({c \in DOMAIN judgments : judgments[c] >= 2})>>

recall_at_k(rels, total, top) ==
    IF total = 0 THEN <<0, 1>> ELSE <<Cardinality(RelevantIn(rels, top)), total>>

reciprocal_rank(rels, top) ==
    IF RelevantIn(rels, top) = {} THEN <<0, 1>>
    ELSE <<1, CHOOSE r \in RelevantIn(rels, top) : \A q \in RelevantIn(rels, top) : r <= q>>

dcg(rels, top) ==
    Total([r \in DOMAIN Top(rels, top) |-> Gain[rels[r]] * Discount[r]])

\* Variant: the ideal gain is that of all judgments, beyond the top.
ndcg_uncut(rels, ideal, top) ==
    IF dcg(ideal, Len(ideal)) = 0 THEN <<0, 1>> ELSE <<dcg(rels, top), dcg(ideal, Len(ideal))>>

ndcg_at_k(rels, ideal, top) ==
    IF dcg(ideal, top) = 0 THEN <<0, 1>> ELSE <<dcg(rels, top), dcg(ideal, top)>>

NoScore == [hit |-> 0, recall |-> <<0, 1>>, rr |-> <<0, 1>>, ndcg |-> <<0, 1>>,
            counted |-> FALSE, scored |-> FALSE]

MInit ==
    /\ ranking \in SetToAllKPermutations(Judgeable)
    /\ judgments \in UNION {[J -> 0 .. MaxGrade] : J \in SUBSET Judgeable}
    /\ score = NoScore

\* A case of execute_run; only answerable ones count for the averages.
ScoreCase ==
    LET total == Cardinality(JudgedRelevant) IN
    /\ ~score.scored
    /\ score' = [hit |-> hit_at_k(RankedRel, HitK),
                 recall |-> recall_at_k(RankedRel, total, HitK),
                 rr |-> reciprocal_rank(RankedRel, RankK),
                 ndcg |-> ndcg_at_k(RankedRel, Ideal, RankK),
                 counted |-> total > 0,
                 scored |-> TRUE]
    /\ UNCHANGED <<ranking, judgments>>

MetricsSpec == MInit /\ [][ScoreCase]_mvars

-----------------------------------------------------------------------------
(* Properties *)

Fraction(f) == f[2] > 0 /\ f[1] <= f[2]
TopChunks(top) == Range(Top(ranking, top))

\* The metrics that count agree with the judgments and with each other: they
\* lie in 0 .. 1, a case is hit when a relevant chunk is in the top, recall is
\* complete when none is outside, the reciprocal rank is 0 when there is none,
\* and a case is hit when it is no less than one over the size of the top.
CountsAgree ==
    score.scored =>
        /\ Fraction(score.recall) /\ Fraction(score.rr)
        /\ score.hit = 1 <=> TopChunks(HitK) \cap JudgedRelevant # {}
        /\ score.hit = 1 <=> score.recall[1] > 0
        /\ score.counted =>
             (score.recall[1] = score.recall[2] <=> JudgedRelevant \subseteq TopChunks(HitK))
        /\ score.rr[1] = 0 <=> TopChunks(RankK) \cap JudgedRelevant = {}
        /\ score.hit = 1 <=> score.rr[1] = 1 /\ score.rr[2] <= HitK

\* So does the gain: nDCG is 1 exactly for a ranking whose top no other ranking
\* of the judged chunks improves, and 0 for one without any.
GainsAgree ==
    score.scored =>
        /\ Fraction(score.ndcg)
        /\ score.ndcg[1] = 0 <=> TopChunks(RankK) \cap JudgedRelevant = {}
        /\ score.counted =>
             (score.ndcg[1] = score.ndcg[2] <=>
                \A r \in 1 .. RankK, c \in DOMAIN judgments :
                    \/ c \in TopChunks(r)
                    \/ judgments[c] = 0
                    \/ r <= Len(ranking) /\ RankedRel[r] >= judgments[c])
=============================================================================
