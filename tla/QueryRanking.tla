---------------------------- MODULE QueryRanking ----------------------------
(***************************************************************************)
(* query_ranking.py: what a ranking artifact must be to be measured, and   *)
(* the retrieval metrics of one query and of a set of them.                *)
(*                                                                         *)
(* A ranking is a sequence of [case, score].  Case ids order by CaseOrder, *)
(* the place of the id among the sorted ids.  1 / log2(rank + 1) is an     *)
(* integer of Discount, other fractions are multiplied by RankScale.       *)
(***************************************************************************)
EXTENDS VisualRegistry, FiniteSetsExt

CONSTANT CaseOrder   \* [case -> place of its id among the sorted ids]

Cutoff == 5            \* k, which the metric contract fixes
Discount == <<1000000, 630930, 500000, 430677, 386853>>
RankScale == 60        \* a multiple of the ranks 1..6

Judged(query) == Relevant(query) \cup query.hard
RankedCases(ranking) == {c.case : c \in ToSet(ranking)}
Distinct(ranking) == Cardinality(RankedCases(ranking)) = Len(ranking)

\* load_ranking_artifact: a pool is ranked by descending score, ties in any order,
\* and need not be ranked whole.
PoolRankingLoads(ranking, query) ==
    /\ RankedCases(ranking) \subseteq Judged(query)
    /\ Distinct(ranking)
    /\ \A i \in 1..(Len(ranking) - 1) : ranking[i].score >= ranking[i + 1].score

Exactly(rankings, queries) ==
    DOMAIN rankings = {q.id : q \in queries}

LoadRankingArtifact(rankings, queries) ==
    Exactly(rankings, queries) /\ \A q \in queries : PoolRankingLoads(rankings[q.id], q)

\* load_full_corpus_ranking_artifact: every case of the split, ties by case id.
Universe(registry, split) == CaseIds(Cut(registry, split))

Before(a, b) ==
    a.score > b.score \/ (a.score = b.score /\ CaseOrder[a.case] <= CaseOrder[b.case])

FullRankingLoads(ranking, universe) ==
    /\ RankedCases(ranking) = universe
    /\ Distinct(ranking)
    /\ \A i \in 1..(Len(ranking) - 1) : Before(ranking[i], ranking[i + 1])

LoadFullCorpusRankingArtifact(rankings, queries, registry, split) ==
    LET selected == {q \in queries : q.split = split}
    IN  /\ selected # {}
        /\ Exactly(rankings, selected)
        /\ \A id \in DOMAIN rankings : FullRankingLoads(rankings[id], Universe(registry, split))

----------------------------------------------------------------------------
(* _query_metrics *)

Grade(query, case) ==
    LET of == {j \in ToSet(query.judgments) : j.case = case}
    IN  IF of = {} THEN 0 ELSE (CHOOSE j \in of : TRUE).grade

Gain(grade) == 2 ^ grade - 1

\* The discounted gain of cases of these grades in this order, cut off at Cutoff.
Dcg(grades) ==
    SumFunction([r \in 1..Min({Cutoff, Len(grades)}) |-> Gain(grades[r]) * Discount[r]])

Grades(query, ranking) == [r \in DOMAIN ranking |-> Grade(query, ranking[r].case)]

\* The grades of the judgments, descending: those of 2 before those of 1.
IdealGrades(query) ==
    LET best == Cardinality({case \in Relevant(query) : Grade(query, case) = 2})
    IN  [r \in 1..Cardinality(Relevant(query)) |-> IF r <= best THEN 2 ELSE 1]

\* Faulty: hard negatives count as relevant.
FaultyRelevantUpTo(query, ranking, r) ==
    Cardinality({i \in 1..r : ranking[i].case \in Judged(query)})

RelevantUpTo(query, ranking, r) ==
    Cardinality({i \in 1..r : ranking[i].case \in Relevant(query)})

JudgedUpTo(query, ranking, r) ==
    Cardinality({i \in 1..r : ranking[i].case \in Judged(query)})

RankOf(ranking, case) == CHOOSE r \in DOMAIN ranking : ranking[r].case = case

\* The precision at the rank of each relevant case that is ranked.
Precisions(query, ranking) ==
    [case \in Relevant(query) \cap RankedCases(ranking) |->
        (RankScale * RelevantUpTo(query, ranking, RankOf(ranking, case))) \div RankOf(ranking, case)]

QueryMetrics(query, ranking) ==
    LET ranks == {r \in DOMAIN ranking : ranking[r].case \in Relevant(query)}
        top == 1..Min({Cutoff, Len(ranking)})
    IN  [dcg        |-> Dcg(Grades(query, ranking)),
         idcg       |-> Dcg(IdealGrades(query)),
         relevant   |-> Cardinality(Relevant(query)),
         relevantAt |-> RelevantUpTo(query, ranking, Min({Cutoff, Len(ranking)})),
         precision  |-> SumFunction(Precisions(query, ranking)),
         reciprocal |-> IF ranks = {} THEN 0 ELSE RankScale \div Min(ranks),
         hardAt     |-> Cardinality({r \in top : ranking[r].case \in query.hard}),
         judgedAt   |-> JudgedUpTo(query, ranking, Min({Cutoff, Len(ranking)})),
         unjudgedAt |-> Cardinality({r \in top : ranking[r].case \notin Judged(query)}),
         abstained  |-> ranking = <<>>]

\* What the judged pool sees of a ranking of everything: its n-th judged case is n-th.
Pool(query, ranking) ==
    [n \in 1..JudgedUpTo(query, ranking, Len(ranking)) |->
        ranking[CHOOSE r \in DOMAIN ranking :
                   ranking[r].case \in Judged(query) /\ JudgedUpTo(query, ranking, r) = n]]
=============================================================================
