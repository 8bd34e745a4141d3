-------------------------------- MODULE Gates --------------------------------
(***************************************************************************)
(* What the algorithms and the data contracts of the evaluation and of     *)
(* queries promise, for any inputs: a state is one input of one subject,   *)
(* and there is nothing to do after it.                                    *)
(***************************************************************************)
EXTENDS Integers, Sequences, FiniteSets, SequencesExt, FiniteSetsExt

CONSTANTS Subjects,    \* what is judged
          Inputs,      \* [subject -> set of its inputs]
          Unit,        \* the score of certainty
          CaseOrder,   \* [case -> place of its id among the sorted ids]
          AllowedRegionTypes, MaxRegions, MaxPatches, MaxVectorValues,  \* of retrieval packs
          Parts, Lettered, Digited, PackageWords, Lengthy,       \* of the text of datasheets
          Bytes, Begins

VARIABLES subject, input

gateVars == <<subject, input>>

Pol == INSTANCE VisualPolicy
Rnk == INSTANCE QueryRanking
Hyb == INSTANCE HybridQuery
Txt == INSTANCE DatasheetText

\* A list of any things.
IsList(s) == s \in Seq(ToSet(s))
InputsOf(name) == IF name \in Subjects THEN Inputs[name] ELSE {}

\* Predictions are finitely many, their scores within 0..1 (visual_metrics.py:60), and
\* rates are fractions.
ASSUME PolicyAssumption ==
    /\ Unit \in Nat
    /\ \A i \in InputsOf("policy") :
          /\ IsFiniteSet(i.predictions)
          /\ \A p \in i.predictions : p.score \in 0..Unit
          /\ i.rate.num \in Nat /\ i.rate.den \in Nat \ {0}

\* The JSON arrays and the scores the loaders have typed before the relations are checked.
ASSUME LedgerAssumption ==
    \A i \in InputsOf("ledger") :
        IsList(i.registry) /\ IsList(i.policy.strata) /\ IsFiniteSet(i.policy.splits)

ASSUME RankingAssumption ==
    \A i \in InputsOf("judgments") \cup InputsOf("ranking") :
        /\ IsList(i.query.judgments) /\ IsFiniteSet(i.query.hard)
        /\ IsList(i.ranking) /\ \A c \in ToSet(i.ranking) : c.score \in Int

ASSUME CascadeAssumption ==
    /\ \A i \in InputsOf("cascade") :
          /\ IsList(i.pack.regions)
          /\ {i.lexical, i.dense, i.exact} \subseteq [DOMAIN i.pack.regions -> Int]
    /\ \A i \in InputsOf("pack") : IsList(i.pack.regions)

\* A word is alphanumeric runs, of which it has one if it has a letter or a digit; names
\* of packages begin with letters.  The text of a page is lines of words.
IsText(document) ==
    \A page \in ToSet(document) : page.lines \in Seq(Seq(DOMAIN Parts))

ASSUME TextAssumption ==
    /\ \A w \in DOMAIN Parts :
          /\ IsList(Parts[w])
          /\ w \in Lettered \cup Digited \cup PackageWords => Parts[w] # <<>>
    /\ \A i \in InputsOf("datasheet") : IsText(i.document)
    /\ \A i \in InputsOf("benchmark") : \A id \in DOMAIN i.fetched : IsText(i.fetched[id])

GatesInit == \E s \in Subjects : subject = s /\ input \in Inputs[s]

GatesNext == UNCHANGED gateVars

GatesSpec == GatesInit /\ [][GatesNext]_gateVars

----------------------------------------------------------------------------
(* Registries.                                                               *)

Adapter == [model |-> "m", semantics |-> "calibrated_probability"]

\* visual_registry.py and visual_metrics.py: whatever an adapter scores, a registry
\* that loads can be calibrated and evaluated if it has documents of the split, every
\* held-out document of it is reviewed, and no content or family is in two splits.
LoadedRegistriesEvaluate ==
    subject = "registry" /\ Pol!LoadVisualRegistry(input, FALSE) =>
        LET documents == ToSet(input)
            scores == [id \in Pol!CaseIds(documents) |-> Unit]
            predictions == Pol!BindPredictionScores(documents, scores)
            Has(split) == \E d \in documents : d.split = split
        IN  /\ Has("calibration") => Pol!Freezes(predictions)
            /\ Has("evaluation") => Pol!Evaluates(predictions)
            /\ \A d \in documents : d.split \in Pol!HeldOut => d.review.status = "reviewed"
            /\ \A d, e \in documents :
                  d.digest = e.digest \/ d.group = e.group => d.split = e.split

\* corpus_coverage.py: however strata and splits are laid out, the ledger of a registry
\* it accepts counts every document in one stratum and under one kind of review, and
\* none in two splits.
TheLedgerAddsUp ==
    subject = "ledger" /\ Pol!LoadVisualRegistry(input.registry, FALSE)
    /\ Pol!LoadCoveragePolicy(input.policy) /\ Pol!AuditAccepts(input.registry, input.policy) =>
        LET ledger == Pol!AuditCorpusCoverage(input.registry, input.policy, <<>>)
        IN  /\ SumFunction(ledger.strata) = ledger.documents
            /\ SumFunction(ledger.review) = ledger.documents
            /\ SumFunction(ledger.splits) <= ledger.documents

\* What a registry that loads is good for: calibration, evaluation and a ledger.
RegistriesServe == LoadedRegistriesEvaluate /\ TheLedgerAddsUp

\* evaluate_visual.py and evaluate_visual_policy.py: a policy is never evaluated on a
\* case it was calibrated on, although registries are edited between the two runs;
\* while they are the same, not on its family or its content either.
EvaluationIsHeldOut ==
    subject = "artifacts" =>
        LET a == input.calibration
            b == input.evaluation
            Artifact(registry, plan, split) ==
                Pol!Benchmark(registry, plan, split, Adapter,
                              [id \in Pol!CaseIds(Pol!Cut(registry, split)) |-> Unit])
            frozen == [adapter |-> Adapter, dataset |-> input.plan]
            calibrated == Pol!Cut(a, "calibration")
            evaluated == Pol!Cut(b, "evaluation")
        IN  /\ Pol!Benchmarks(a, input.plan, "calibration")
            /\ Pol!Benchmarks(b, input.later, "evaluation")
            /\ Pol!ArtifactFits(Artifact(b, input.later, "evaluation"), frozen)
            => /\ Pol!CaseIds(calibrated) \cap Pol!CaseIds(evaluated) = {}
               /\ a = b => \A d \in calibrated, e \in evaluated :
                               d.digest # e.digest /\ d.group # e.group

----------------------------------------------------------------------------
(* Policies.                                                                 *)

\* visual_metrics.py: the frozen threshold accepts no wrong part of the calibration
\* set, and no threshold from the lowest score up, observed or not, would do so and
\* accept more positives, or as many and fewer other cases.
FreezeIsOptimal ==
    subject = "policy" /\ Pol!Calibrates(input.predictions, TRUE) =>
        LET calibration == Pol!Of(input.predictions, "calibration")
            policy == Pol!FreezePolicy(input.predictions, Adapter, "plan", input.rate,
                                       [num |-> 1, den |-> 2])
            Counts(t) == Pol!SelectiveCounts(calibration, t)
            frozen == Counts(policy.threshold)
        IN  /\ Pol!Harmless(frozen, input.rate)
            /\ \A p \in calibration : p.label \in Pol!WrongIdentity =>
                  Pol!Decide(p.score, policy) # "accepted"
            /\ \A t \in Pol!Min({p.score : p \in calibration})..Unit :
                  Pol!Harmless(Counts(t), input.rate) =>
                     \/ Counts(t).acceptedPositives < frozen.acceptedPositives
                     \/ /\ Counts(t).acceptedPositives = frozen.acceptedPositives
                        /\ Counts(t).accepted >= frozen.accepted

\* egvv_campaign.py and visual_metrics.py: the gate passes if and only if the decisions
\* taken under the frozen policy accept no wrong part, wrong views up to the rate and
\* enough positives: it is about the decisions, not about a second reading of the scores.
TheGateJudgesDecisions ==
    subject = "policy" /\ Pol!Calibrates(Pol!Of(input.predictions, "calibration"), TRUE) =>
        LET policy == Pol!FreezePolicy(Pol!Of(input.predictions, "calibration"), Adapter, "plan",
                                       input.rate, [num |-> 1, den |-> 2])
            evaluation == Pol!Of(input.predictions, "evaluation")
            accepted == {p \in evaluation : Pol!Decide(p.score, policy) = "accepted"}
            Labelled(S, labels) == Cardinality({p \in S : p.label \in labels})
        IN  Pol!EvaluatesOnce(evaluation, policy, policy, TRUE) =>
                (Pol!GatePassed(evaluation, policy) <=>
                    /\ Labelled(accepted, Pol!WrongIdentity) = 0
                    /\ Labelled(accepted, Pol!WrongVisual) * input.rate.den
                         <= input.rate.num * Cardinality(accepted)
                    /\ Labelled(evaluation, {"positive"}) > 0
                    /\ 2 * Labelled(accepted, {"positive"}) >= Labelled(evaluation, {"positive"}))

\* What is frozen is the best harmless policy, and what is judged are its decisions.
PoliciesJudgeTheirDecisions == FreezeIsOptimal /\ TheGateJudgesDecisions

----------------------------------------------------------------------------
(* Rankings.                                                                 *)

\* corpus_coverage.py and query_ranking.py: a ranking of its whole split holds every
\* judged case of a query that loads, all of its own family, so that its recall means
\* something, and what the judged pool sees of it loads as a pool ranking.
JudgedCasesAreRanked ==
    LET query == input.query
        registry == input.registry
        ranking == input.ranking
        pool == Rnk!Pool(query, ranking)
    IN  /\ subject = "judgments"
        /\ Rnk!LoadVisualRegistry(registry, FALSE)
        /\ Rnk!LoadQueryRegistry(<<query>>, registry)
        /\ Rnk!FullRankingLoads(ranking, Rnk!Universe(registry, query.split))
        => /\ Rnk!LoadFullCorpusRankingArtifact([id \in {query.id} |-> ranking], {query}, registry, query.split)
           /\ Rnk!LoadRankingArtifact([id \in {query.id} |-> pool], {query})
           /\ Rnk!RankedCases(pool) = Rnk!Judged(query)
           /\ \A id \in Rnk!Judged(query) :
                 Rnk!CaseOf(ToSet(registry), id)[1].group = query.group

\* query_ranking.py: seen through the judged pool, a full ranking is a pool ranking
\* whose every metric is at least as good, and no metric exceeds 1.
ClosedPoolFlatters ==
    /\ subject = "ranking"
    /\ Rnk!JudgmentsParse(input.query)
    /\ Rnk!FullRankingLoads(input.ranking, Rnk!RankedCases(input.ranking))
    => LET pool == Rnk!Pool(input.query, input.ranking)
            full == Rnk!QueryMetrics(input.query, input.ranking)
            seen == Rnk!QueryMetrics(input.query, pool)
        IN  /\ Rnk!PoolRankingLoads(pool, input.query)
            /\ full.dcg <= seen.dcg /\ seen.dcg <= seen.idcg
            /\ full.relevantAt <= seen.relevantAt /\ seen.relevantAt <= seen.relevant
            /\ full.precision <= seen.precision
            /\ seen.precision <= Rnk!RankScale * seen.relevant
            /\ full.reciprocal <= seen.reciprocal
            /\ full.judgedAt + full.unjudgedAt = Min({Rnk!Cutoff, Len(input.ranking)})
            /\ full.judgedAt = full.relevantAt + full.hardAt

----------------------------------------------------------------------------
(* Packs.                                                                    *)

\* hybrid_query.py: no region is rescored instead of one that both rankings put before
\* it and whose type is routed if its own is; if nothing is cut off before, the answer
\* is what exact scores alone would give.
TheBestAreRescored ==
    subject = "cascade" /\ Hyb!Bounded(input.bounds, input.pack) =>
        LET regions == input.pack.regions
            exact == input.exact
            result == Hyb!HybridQuery(input.pack, input.lexical, input.dense, exact,
                                      input.routed, input.bounds)
            Routed(r) == regions[r].type \in input.routed
            Precedes(r, s) == /\ input.lexical[r] > input.lexical[s]
                              /\ input.dense[r] > input.dense[s]
                              /\ Routed(s) => Routed(r)
        IN  /\ \A s \in result.candidates, r \in DOMAIN regions :
                  Precedes(r, s) => r \in result.candidates
            /\ Cardinality(result.considered) <= 2 * input.bounds.topN
            /\ input.bounds.maxsimK = Len(regions) =>
                  \A i \in 1..Len(result.hits), r \in DOMAIN regions :
                      exact[r] > exact[result.hits[i]] =>
                          \E j \in 1..(i - 1) : result.hits[j] = r

\* query_worker.py: a pack that can be loaded can be queried without bounds, from one
\* region up.
DefaultsAreServed ==
    subject = "pack" =>
        LET pack == input.pack
            request == [pack |-> pack.digest, models |-> pack.models, denseDim |-> pack.denseDim,
                        multiDims |-> <<pack.multiDim, pack.multiDim>>, bounds |-> input.bounds]
        IN  /\ Hyb!LoadRetrievalPack(pack, pack.models)
            /\ DOMAIN input.bounds = {}
            => Hyb!Answers(request, [digest \in {pack.digest} |-> pack])

\* hybrid_query.py and query_worker.py: a query that needs no bounds is served, and one
\* with bounds gets the best that they let through.
TheBestAreServed == TheBestAreRescored /\ DefaultsAreServed

----------------------------------------------------------------------------
(* Datasheets.                                                               *)

\* pipeline.py: of a document with regions that hold pins, an identity it offers itself,
\* alone or for the caller to pick from, is one that it proves, although the two are found
\* by different readings of the text; and the one refusal that is left is of names that
\* are too long for a request, which discovery does not look at.
OfferedIdentitiesProve ==
    subject = "datasheet"
    /\ Txt!BestCandidates(input.document) # {} /\ ~ Txt!Complete(input.hint) =>
        \A identity \in Txt!ResolveIdentity(input.document, input.hint).candidates :
            Txt!Retrieve(input.document, identity)
                = IF Txt!Valid(identity) THEN "proved" ELSE "invalid"

\* evaluation.py and pipeline.py: a document that passes the identity benchmark offers
\* none of the wrong parts it was tried with, if they can be requested at all, and no
\* content is in both splits.
GatedPartsAreNotOffered ==
    subject = "benchmark" =>
        LET registry == input.registry
            fetched == input.fetched
            digests == [id \in DOMAIN fetched |-> input.digestOf[fetched[id]]]
        IN  /\ {registry[i].id : i \in DOMAIN registry} \subseteq DOMAIN fetched
            /\ Txt!LoadRegistry(registry)
            /\ Txt!GatePassed(registry, fetched, digests)
            => /\ \A i \in DOMAIN registry : \A n \in DOMAIN registry[i].negatives :
                     Txt!Valid(registry[i].negatives[n].identity) =>
                         registry[i].negatives[n].identity
                           \notin Txt!Discover(fetched[registry[i].id], Txt!NoHint)
               /\ \A i, j \in DOMAIN registry :
                     fetched[registry[i].id] = fetched[registry[j].id] =>
                         registry[i].split = registry[j].split

\* What a document offers and a caller can request, it proves, and what it was tried with
\* in vain, it does not offer.
OffersAreProved == OfferedIdentitiesProve /\ GatedPartsAreNotOffered

=============================================================================
