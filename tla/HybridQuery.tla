----------------------------- MODULE HybridQuery -----------------------------
(***************************************************************************)
(* A query over a retrieval pack: retrieval_pack.py, query_worker.py and   *)
(* hybrid_query.py.  Two rankings of the regions are fused by reciprocal   *)
(* rank, the best are rescored exactly, the best of those answered.        *)
(*                                                                         *)
(* A region's lexical, dense and exact scores are given as integers, its   *)
(* position stands for its id, its vectors for their lengths.  Digests are *)
(* values that match or do not.  Fused scores are fractions of     *)
(* FusedUnit, large enough to tell any two ranks up to MaxTopN apart.      *)
(***************************************************************************)
EXTENDS Naturals, Sequences, FiniteSets, SequencesExt, FiniteSetsExt

CONSTANTS AllowedRegionTypes, MaxRegions, MaxPatches, MaxVectorValues

----------------------------------------------------------------------------
(* load_retrieval_pack *)

RegionLoads(region, pack) ==
    /\ region.type \in AllowedRegionTypes
    /\ region.denseDim = pack.denseDim
    /\ Len(region.multiDims) \in 1..MaxPatches
    /\ ToSet(region.multiDims) \subseteq {pack.multiDim}

VectorValues(pack) ==
    MapThenSumSet(LAMBDA i : pack.denseDim + Len(pack.regions[i].multiDims) * pack.multiDim,
                  DOMAIN pack.regions)

LoadRetrievalPack(pack, models) ==
    /\ pack.digest = pack.payload
    /\ pack.models = models
    /\ pack.denseDim > 0 /\ pack.multiDim > 0
    /\ Len(pack.regions) \in 1..MaxRegions
    /\ \A i, j \in DOMAIN pack.regions : i < j => pack.regions[i].id < pack.regions[j].id
    /\ \A region \in ToSet(pack.regions) : RegionLoads(region, pack)
    /\ VectorValues(pack) <= MaxVectorValues

----------------------------------------------------------------------------
(* hybrid_query *)

\* Faulty: the lower score first.
FaultyBest(S, score, n) ==
    LET Better(a, b) == score[a] < score[b] \/ (score[a] = score[b] /\ a < b)
        Ahead(x) == Cardinality({y \in S : Better(y, x)})
        order == [r \in 1..Cardinality(S) |-> CHOOSE x \in S : Ahead(x) = r - 1]
    IN  SubSeq(order, 1, Min({n, Cardinality(S)}))

\* The better score first, ties by id.
Better(score, a, b) == score[a] > score[b] \/ (score[a] = score[b] /\ a < b)
Ahead(S, score, x) == Cardinality({y \in S : Better(score, y, x)})

\* At each place the region with as many ahead of it.
Sorted(S, score) == [r \in 1..Cardinality(S) |-> CHOOSE x \in S : Ahead(S, score, x) = r - 1]

\* The n best of a set of regions.
Best(S, score, n) == SubSeq(Sorted(S, score), 1, Min({n, Cardinality(S)}))

\* Faulty: the lower score first.
FaultyRank(pack, score) == FaultyBest(DOMAIN pack.regions, score, Len(pack.regions))

\* _rank: a permutation of all regions.
Rank(pack, score) == Best(DOMAIN pack.regions, score, Len(pack.regions))

MaxTopN == 10000
MaxMaxsimK == 1000
RrfK == 60
FusedUnit == 2000000000
RoutedBonus == 2000000     \* 0.001

Place(order, region) == CHOOSE r \in DOMAIN order : order[r] = region

\* What one ranking adds to a region: nothing below its first topN.
Reciprocal(order, region, topN) ==
    IF Place(order, region) > topN THEN 0 ELSE FusedUnit \div (RrfK + Place(order, region))

Bounded(bounds, pack) ==
    /\ bounds.topN \in 1..Min({MaxTopN, Len(pack.regions)})
    /\ bounds.maxsimK \in 1..Min({MaxMaxsimK, bounds.topN})
    /\ bounds.limit \in 1..bounds.maxsimK

\* lexical, dense, exact: [region -> score]; routed: the two types of the query's words.
HybridQuery(pack, lexical, dense, exact, routed, bounds) ==
    LET orders == <<Rank(pack, lexical), Rank(pack, dense)>>
        fused == [r \in DOMAIN pack.regions |->
                     Reciprocal(orders[1], r, bounds.topN) + Reciprocal(orders[2], r, bounds.topN)]
        considered == {r \in DOMAIN pack.regions : fused[r] > 0}
        prior == [r \in considered |->
                     fused[r] + IF pack.regions[r].type \in routed THEN RoutedBonus ELSE 0]
        candidates == Best(considered, prior, bounds.maxsimK)
    IN  [considered  |-> considered,
         candidates  |-> ToSet(candidates),
         prefiltered |-> Best(considered, prior, Len(pack.regions)),
         hits        |-> Best(ToSet(candidates), exact, bounds.limit)]

----------------------------------------------------------------------------
(* execute_query *)

\* The bounds a request leaves out; those it has are taken as they are.
WithDefaults(asked, pack) ==
    LET n == Len(pack.regions)
        Default(bound, value) == IF bound \in DOMAIN asked THEN asked[bound] ELSE Min({value, n})
    IN  [topN    |-> Default("topN", 100),
         maxsimK |-> Default("maxsimK", 32),
         limit   |-> Default("limit", 5)]

\* The pack is named by its address, which its payload must have.
Answers(request, stored) ==
    /\ request.pack \in DOMAIN stored
    /\ LoadRetrievalPack(stored[request.pack], request.models)
    /\ stored[request.pack].digest = request.pack
    /\ request.denseDim = stored[request.pack].denseDim
    /\ request.multiDims # <<>>
    /\ ToSet(request.multiDims) = {stored[request.pack].multiDim}
    /\ Bounded(WithDefaults(request.bounds, stored[request.pack]), stored[request.pack])
=============================================================================
