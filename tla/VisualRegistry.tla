--------------------------- MODULE VisualRegistry ---------------------------
(***************************************************************************)
(* The data contracts of the evaluation: the registry of annotated         *)
(* documents (visual_registry.py), the frozen split plan                   *)
(* (visual_split_plan.py), the queries over the registry and its coverage  *)
(* ledger (corpus_coverage.py).                                            *)
(*                                                                         *)
(* A registry is a sequence of documents.  Only relations between fields   *)
(* are kept: that every field is present, non-empty and of its format is   *)
(* taken as given.  A case is named by its document and its own id, which  *)
(* the code joins with a slash.                                            *)
(***************************************************************************)
EXTENDS Naturals, Sequences, FiniteSets, SequencesExt

Splits == {"development", "calibration", "evaluation"}
HeldOut == {"calibration", "evaluation"}
Positive == "positive"
WrongVisual == {"wrong_figure", "wrong_view"}
WrongIdentity == {"wrong_package", "wrong_variant"}
Labels == {Positive} \cup WrongVisual \cup WrongIdentity
RegionTypes == {"pinout", "table", "package"}
Sides == {"top", "bottom"}

----------------------------------------------------------------------------
(* load_visual_registry_data *)

\* Review.parse: a review that happened has reviewers and a time, one that did not
\* claims neither.
ReviewParses(review) ==
    /\ IsInjective(review.reviewers)
    /\ CASE review.status = "reviewed" -> review.reviewers # <<>> /\ review.at # "none"
         [] review.status = "unreviewed" -> review.reviewers = <<>> /\ review.at = "none"

\* An area of the page, in some unit fraction of it.
BoxParses(box) == box.x0 < box.x1 /\ box.y0 < box.y1

\* _validate_identity_relationship: how the identity a case claims relates to the
\* document's.
IdentityRelates(case, identity) ==
    LET claimed == case.claimed
    IN  /\ case.label \in {Positive} \cup WrongVisual => claimed = identity
        /\ case.label \in WrongIdentity =>
             /\ case.region = "package"
             /\ claimed.manufacturer = identity.manufacturer
             /\ (claimed.mpn = identity.mpn) <=> (case.label = "wrong_package")
             /\ (claimed.package = identity.package) <=> (case.label = "wrong_variant")

CaseParses(case, identity) ==
    /\ case.label \in Labels
    /\ case.region \in RegionTypes
    /\ BoxParses(case.box)
    /\ IdentityRelates(case, identity)

CaseSet(document) == ToSet(document.cases)
Positives(document) == {c \in CaseSet(document) : c.label = Positive}

\* A wrong view shows the side opposite to one a positive case of its region shows.
OpposesAView(case, document) ==
    /\ case.view \in Sides
    /\ \E p \in Positives(document) :
          p.region = case.region /\ p.view \in Sides /\ p.view # case.view

DocumentParses(document) ==
    /\ document.split \in Splits
    /\ ReviewParses(document.review)
    /\ document.cases # <<>>
    /\ \A i, j \in DOMAIN document.cases :
          document.cases[i].id = document.cases[j].id => i = j
    /\ \A c \in CaseSet(document) : CaseParses(c, document.identity)
    /\ {p.region : p \in Positives(document)} = RegionTypes
    /\ CaseSet(document) # Positives(document)
    /\ \A c \in CaseSet(document) : c.label = "wrong_view" => OpposesAView(c, document)

\* Held-out annotations must be reviewed, except on the way to their review.
Admits(document, allowDraft) ==
    document.split \in HeldOut => document.review.status = "reviewed" \/ allowDraft

\* Faulty: the contents are not compared.
FaultyIsolated(a, b) == a.group = b.group => a.split = b.split

\* No family has documents in two splits, no content in two families or splits.
Isolated(a, b) ==
    /\ a.group = b.group => a.split = b.split
    /\ a.digest = b.digest => a.group = b.group /\ a.split = b.split

LoadVisualRegistry(registry, allowDraft) ==
    /\ registry # <<>>
    /\ \A i, j \in DOMAIN registry :
          /\ registry[i].id = registry[j].id => i = j
          /\ Isolated(registry[i], registry[j])
    /\ \A d \in ToSet(registry) : DocumentParses(d) /\ Admits(d, allowDraft)

\* The documents of one split, and the cases of a set of documents with their names.
Cut(registry, split) == {d \in ToSet(registry) : d.split = split}
Cases(documents) == UNION {{<<d, c>> : c \in CaseSet(d)} : d \in documents}
CaseIds(documents) == {<<e[1].id, e[2].id>> : e \in Cases(documents)}
CaseOf(documents, id) == CHOOSE e \in Cases(documents) : <<e[1].id, e[2].id>> = id

----------------------------------------------------------------------------
(* Scores and split plan. *)

\* bind_prediction_scores: exactly one score per case (the domain of scores); label,
\* split and group are the registry's own.
BindPredictionScores(documents, scores) ==
    {[case |-> <<e[1].id, e[2].id>>, group |-> e[1].group, split |-> e[1].split,
      label |-> e[2].label, score |-> scores[<<e[1].id, e[2].id>>]] : e \in Cases(documents)}

\* load_visual_split_plan_data: there are families, and none is planned twice.
LoadVisualSplitPlan(plan) == plan # {} /\ \A f, g \in plan : f.id = g.id => f = g

\* bind_registry_to_split_plan: the documents are exactly the families the frozen
\* plan has for the split, with their content and category (of which the url of the
\* source, compared like it, is taken as a part).
BindsSplitPlan(documents, plan, split) ==
    LET planned == {f \in plan : f.split = split}
    IN  {[id |-> d.id, digest |-> d.digest, category |-> d.category] : d \in documents}
          = {[id |-> f.id, digest |-> f.digest, category |-> f.category] : f \in planned}

----------------------------------------------------------------------------
(* load_query_registry *)

Relevant(query) == {query.judgments[i].case : i \in DOMAIN query.judgments}

\* No case judged twice, grades of 1 and 2, no hard negative that is relevant.
JudgmentsParse(query) ==
    /\ query.judgments # <<>>
    /\ \A i, j \in DOMAIN query.judgments :
          query.judgments[i].case = query.judgments[j].case => i = j
    /\ \A i \in DOMAIN query.judgments : query.judgments[i].grade \in {1, 2}
    /\ query.hard # {}
    /\ Relevant(query) \cap query.hard = {}

QueryParses(query, registry) ==
    LET own == {d \in ToSet(registry) : d.group = query.group}
    IN  /\ own # {}
        /\ \E d \in own : d.split = query.split
        /\ JudgmentsParse(query)
        /\ query.split # "development" => query.reviewed

\* Faulty: the family of a judged case is not compared.
FaultyJudgmentsAreOwn(query, registry) ==
    /\ Relevant(query) \cup query.hard \subseteq CaseIds(ToSet(registry))
    /\ \A id \in Relevant(query) :
          LET case == CaseOf(ToSet(registry), id)[2] IN case.label = Positive /\ case.region = query.type

\* Relevant cases are positive cases of the query's type and family, hard negatives
\* any other cases of the family.
JudgmentsAreOwn(query, registry) ==
    /\ Relevant(query) \cup query.hard \subseteq CaseIds(ToSet(registry))
    /\ \A id \in Relevant(query) \cup query.hard :
          LET e == CaseOf(ToSet(registry), id)
              answers == e[2].label = Positive /\ e[2].region = query.type
          IN  e[1].group = query.group /\ (id \in Relevant(query) <=> answers)

LoadQueryRegistry(queries, registry) ==
    /\ \A i, j \in DOMAIN queries : queries[i].id = queries[j].id => i = j
    /\ \A q \in ToSet(queries) : QueryParses(q, registry) /\ JudgmentsAreOwn(q, registry)

----------------------------------------------------------------------------
(* audit_corpus_coverage *)

\* The policy names strata of categories, no category in two of them.
LoadCoveragePolicy(policy) ==
    /\ policy.strata # <<>>
    /\ \A i, j \in DOMAIN policy.strata : i # j => policy.strata[i] \cap policy.strata[j] = {}

\* What the ledger counts; it is refused for a registry the policy does not cover.
AuditAccepts(registry, policy) ==
    LET documents == ToSet(registry)
    IN  /\ {d.category : d \in documents} \subseteq UNION Range(policy.strata)
        /\ policy.splits \subseteq {d.split : d \in documents}
        /\ {e[2].label : e \in Cases(documents)} \subseteq policy.labels
        /\ {e[2].region : e \in Cases(documents)} \subseteq policy.regions

ReviewKind(document) ==
    CASE document.review.status # "reviewed" -> "unreviewed"
      [] ToSet(document.review.reviewers) \subseteq {"agent"} -> "agent"
      [] OTHER -> "human"

AuditCorpusCoverage(registry, policy, queries) ==
    LET Count(P(_)) == Cardinality({i \in DOMAIN registry : P(registry[i])})
    IN  [documents |-> Len(registry),
         targetMet |-> Len(registry) >= policy.documents /\ Len(queries) >= policy.queries,
         splits    |-> [s \in policy.splits |-> Count(LAMBDA d : d.split = s)],
         strata    |-> [i \in DOMAIN policy.strata |->
                          Count(LAMBDA d : d.category \in policy.strata[i])],
         review    |-> [k \in {"human", "agent", "unreviewed"} |->
                          Count(LAMBDA d : ReviewKind(d) = k)]]
=============================================================================
