---------------------------- MODULE VisualPolicy ----------------------------
(***************************************************************************)
(* The acceptance policy of the visual verifier: frozen on calibration     *)
(* scores, applied unchanged to held-out ones (visual_metrics.py,          *)
(* egvv_campaign.py, visual_policy_artifact.py, evaluate_visual_policy.py, *)
(* visual_benchmark.py).                                                   *)
(*                                                                         *)
(* Scores are integers 0..Unit for the code's 0..1; rates are kept as      *)
(* fractions and compared by cross multiplication.  An adapter's identity  *)
(* and a digest are values that are equal or not.                          *)
(***************************************************************************)
EXTENDS VisualRegistry, FiniteSetsExt

CONSTANT Unit

Of(predictions, split) == {p \in predictions : p.split = split}

\* _validated_predictions: of a set of predictions, no case scored twice and no
\* family in two splits.
Validated(predictions) ==
    /\ predictions # {}
    /\ \A p, q \in predictions :
          /\ p.case = q.case => p = q
          /\ p.group = q.group => p.split = q.split

\* Strictly above: a threshold of Unit accepts nothing.
Accepted(prediction, threshold) == prediction.score > threshold

SelectiveCounts(predictions, threshold) ==
    LET accepted == {p \in predictions : Accepted(p, threshold)}
        Count(S, labels) == Cardinality({p \in S : p.label \in labels})
    IN  [accepted          |-> Cardinality(accepted),
         positives         |-> Count(predictions, {Positive}),
         acceptedPositives |-> Count(accepted, {Positive}),
         wrongVisual       |-> Count(accepted, WrongVisual),
         wrongIdentity     |-> Count(accepted, WrongIdentity)]

\* No wrong part at all, and wrong views of the right part up to a rate.
Harmless(counts, rate) ==
    /\ counts.wrongIdentity = 0
    /\ counts.wrongVisual * rate.den <= rate.num * counts.accepted

\* freeze_policy: among the observed scores and Unit, the harmless threshold that
\* accepts most positives, the strictest of several.
Candidates(calibration) == {Unit} \cup {p.score : p \in calibration}

\* Faulty: the strictest harmless threshold, whatever it accepts.
FaultyThreshold(calibration, rate) ==
    Max({t \in Candidates(calibration) : Harmless(SelectiveCounts(calibration, t), rate)})

Threshold(calibration, rate) ==
    LET feasible == {t \in Candidates(calibration) :
                        Harmless(SelectiveCounts(calibration, t), rate)}
        Gain(t) == SelectiveCounts(calibration, t).acceptedPositives
        best == Max({Gain(t) : t \in feasible})
    IN  Max({t \in feasible : Gain(t) = best})

Freezes(predictions) ==
    LET calibration == Of(predictions, "calibration")
    IN  Validated(predictions) /\ \E p \in calibration : p.label = Positive

FreezePolicy(predictions, adapter, dataset, rate, coverage) ==
    [adapter |-> adapter, dataset |-> dataset, rate |-> rate, coverage |-> coverage,
     threshold |-> Threshold(Of(predictions, "calibration"), rate)]

\* evaluate_policy: the gate of the held-out split.
Evaluates(predictions) == Validated(predictions) /\ Of(predictions, "evaluation") # {}

GatePassed(predictions, policy) ==
    LET counts == SelectiveCounts(Of(predictions, "evaluation"), policy.threshold)
        covered == IF counts.positives = 0
                   THEN policy.coverage.num = 0
                   ELSE counts.acceptedPositives * policy.coverage.den
                          >= policy.coverage.num * counts.positives
    IN  Harmless(counts, policy.rate) /\ covered

\* egvv_campaign.decide, for calibrated probabilities only.
Decide(score, policy) ==
    IF policy.adapter.semantics # "calibrated_probability" THEN "refused"
    ELSE CASE score > policy.threshold -> "accepted"
           [] score <= policy.threshold /\ score = 0 -> "rejected"
           [] OTHER -> "abstained"

\* calibrate and evaluate_once: the predictions of one side never meet the other's.
Calibrates(predictions, authorized) ==
    authorized /\ Of(predictions, "evaluation") = {} /\ Freezes(predictions)

EvaluatesOnce(predictions, policy, frozen, authorized) ==
    /\ authorized
    /\ policy = frozen
    /\ predictions = Of(predictions, "evaluation")
    /\ Evaluates(predictions)

----------------------------------------------------------------------------
(* Benchmark artifacts: evaluate_visual.py writes one per split, from a      *)
(* registry it loads whole and then cuts down to the split.                  *)

Benchmarks(registry, plan, split) ==
    /\ LoadVisualRegistry(registry, FALSE)
    /\ Cut(registry, split) # {}
    /\ LoadVisualSplitPlan(plan)
    /\ BindsSplitPlan(Cut(registry, split), plan, split)

\* benchmark_registry, then predictions() of the artifact it writes.
Benchmark(registry, plan, split, adapter, scores) ==
    [adapter |-> adapter, dataset |-> plan,
     predictions |-> BindPredictionScores(Cut(registry, split), scores)]

\* Faulty: the dataset is not compared.
FaultyArtifactFits(artifact, policy) == artifact.adapter = policy.adapter

\* evaluate_visual_policy.py: only the adapter and the data the policy was frozen for.
ArtifactFits(artifact, policy) ==
    artifact.adapter = policy.adapter /\ artifact.dataset = policy.dataset
=============================================================================
