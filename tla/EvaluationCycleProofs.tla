----------------------- MODULE EvaluationCycleProofs -----------------------
(***************************************************************************)
(* Proofs about the evaluation cycle and about the gates.                  *)
(*                                                                         *)
(* The cycle, for any number of people, contents, renderers and runs, and   *)
(* without the bounds: reviews are never taken back, so what was attested  *)
(* once stays attested.  A seal carries that to the registry that is       *)
(* exported under it, and each command of a run hands it on to the file it *)
(* writes.                                                                 *)
(*                                                                         *)
(* The gates, for inputs of any size: lemmas on the operators the          *)
(* algorithms are made of (least and largest elements, sums, sorted sets,  *)
(* places in lists), then what each algorithm promises of its result.      *)
(***************************************************************************)
EXTENDS EvaluationCycle, Gates, FiniteSetTheorems, WellFoundedInduction, TLAPS

\* The strengthening: the seal itself was written over attested work, a command works
\* on an attested registry, and the contents that were scored of a split are those of the
\* dataset that the scores name.
SealIsAttested == Sealed(seal)
MemoryIsAttested == \A r \in Runs : Sealed(inMemory[r])
Matches(scores, split) ==
    scores # None => scores.of.sources[split] = scores.dataset.sources[split]
ScoresMatch == Matches(policy, "calibration") /\ \A split \in Splits : Matches(bench[split], split)
FilesAreTables ==
    /\ bench = [split \in Splits |-> bench[split]]
    /\ inMemory = [r \in Runs |-> inMemory[r]]

IInv ==
    /\ FilesAreTables
    /\ SealIsAttested
    /\ MemoryIsAttested
    /\ ScoresRestOnAttestedWork
    /\ ScoresMatch
    /\ VerdictIsOfOneDataset

-----------------------------------------------------------------------------

\* No command removes a review.
LEMMA ReviewsStay == [Next]_vars => reviews \subseteq reviews'
<1> SUFFICES ASSUME [Next]_vars PROVE reviews \subseteq reviews'
  OBVIOUS
<1> USE DEF sealing, results, running, world
<1>1. CASE UNCHANGED vars
  BY <1>1 DEF vars
<1>2. CASE Publish \/ Acquire \/ Prepare
  BY <1>2 DEF Publish, Acquire, Prepare
<1>3. ASSUME NEW h \in Humans, NEW t \in Texts, FinalizeSubmission(h, t)
      PROVE  reviews \subseteq reviews'
  BY <1>3 DEF FinalizeSubmission
<1>4. ASSUME NEW h \in Humans, Review(h) PROVE reviews \subseteq reviews'
  BY <1>4 DEF Review
<1>5. ASSUME NEW h \in Humans, SealSubmission(h) PROVE reviews \subseteq reviews'
  BY <1>5 DEF SealSubmission
<1>6. ASSUME NEW r \in Runs, Score(r) PROVE reviews \subseteq reviews'
  BY <1>6 DEF Score, Authorize, Materialize, Export, Exported, ExportSplitPlan, LoadCases,
              Benchmark, Scored, Freeze, Evaluate, Abort
<1>7. QED
  BY <1>1, <1>2, <1>3, <1>4, <1>5, <1>6 DEF Next

\* What was attested once stays attested.
LEMMA SealedStays ==
    ASSUME reviews \subseteq reviews', NEW CONSTANT relied, Sealed(relied)
    PROVE  Sealed(relied)'
<1>1. \A s, h, as : Approvals(s, h, as) \subseteq Approvals(s, h, as)'
  BY DEF Approvals
<1>2. QED
  BY <1>1 DEF Sealed, Attested, Reviewing

LEMMA SealedScoresStay ==
    ASSUME reviews \subseteq reviews', NEW CONSTANT scores, SealedScores(scores)
    PROVE  SealedScores(scores)'
BY SealedStays DEF SealedScores

-----------------------------------------------------------------------------

LEMMA InitIInv == Init => IInv
<1> SUFFICES ASSUME Init PROVE IInv
  OBVIOUS
<1>1. FilesAreTables /\ (\A split \in Splits : bench[split] = None)
      /\ (\A r \in Runs : inMemory[r] = None)
  BY DEF Init, FilesAreTables
<1>2. SealIsAttested /\ MemoryIsAttested
  BY <1>1 DEF Init, SealIsAttested, MemoryIsAttested, Sealed
<1>3. ScoresRestOnAttestedWork
  BY <1>1 DEF Init, ScoresRestOnAttestedWork, SealedScores, Sealed
<1>4. ScoresMatch /\ VerdictIsOfOneDataset
  BY <1>1 DEF Init, ScoresMatch, Matches, VerdictIsOfOneDataset
<1>5. QED
  BY <1>1, <1>2, <1>3, <1>4 DEF IInv

\* The steps of people and manufacturers leave every result as it is.
AuthoringStep ==
    \/ Publish \/ Acquire \/ Prepare
    \/ \E h \in Humans : (\E t \in Texts : FinalizeSubmission(h, t)) \/ Review(h)

\* Each file that a step does not write keeps what the invariant says of it.
LEMMA KeptFilesStaySound ==
    ASSUME IInv, reviews \subseteq reviews'
    PROVE  /\ UNCHANGED seal => SealIsAttested'
           /\ UNCHANGED registry => Sealed(registry)'
           /\ UNCHANGED inMemory => MemoryIsAttested'
           /\ UNCHANGED bench =>
                  \A split \in Splits : SealedScores(bench[split])' /\ Matches(bench[split], split)'
           /\ UNCHANGED policy => SealedScores(policy)' /\ Matches(policy, "calibration")'
           /\ UNCHANGED verdict =>
                  /\ verdict' # None =>
                         SealedScores(verdict.policy)' /\ SealedScores(verdict.scores)'
                  /\ VerdictIsOfOneDataset'
           /\ UNCHANGED <<bench, inMemory>> => FilesAreTables'
<1> USE DEF IInv
<1>1. ASSUME UNCHANGED seal PROVE SealIsAttested'
  <2>1. Sealed(seal)
    BY DEF SealIsAttested
  <2>2. QED
    BY <1>1, <2>1, SealedStays DEF SealIsAttested
<1>2. ASSUME UNCHANGED registry PROVE Sealed(registry)'
  BY <1>2, SealedStays DEF ScoresRestOnAttestedWork
<1>3. ASSUME UNCHANGED inMemory PROVE MemoryIsAttested'
  BY <1>3, SealedStays DEF MemoryIsAttested
<1>4. ASSUME UNCHANGED bench, NEW split \in Splits
      PROVE  SealedScores(bench[split])' /\ Matches(bench[split], split)'
  BY <1>4, SealedScoresStay DEF ScoresRestOnAttestedWork, ScoresMatch, Matches
<1>5. ASSUME UNCHANGED policy PROVE SealedScores(policy)' /\ Matches(policy, "calibration")'
  BY <1>5, SealedScoresStay DEF ScoresRestOnAttestedWork, ScoresMatch, Matches
<1>6. ASSUME UNCHANGED verdict
      PROVE  /\ verdict' # None =>
                    SealedScores(verdict.policy)' /\ SealedScores(verdict.scores)'
             /\ VerdictIsOfOneDataset'
  BY <1>6, SealedScoresStay DEF ScoresRestOnAttestedWork, VerdictIsOfOneDataset
<1>7. ASSUME UNCHANGED <<bench, inMemory>> PROVE FilesAreTables'
  BY <1>7 DEF FilesAreTables
<1>8. QED
  BY <1>1, <1>2, <1>3, <1>4, <1>5, <1>6, <1>7

\* One step per command that writes a seal, a registry or a result.
LEMMA NextIInv == IInv /\ [Next]_vars => IInv'
<1> SUFFICES ASSUME IInv, [Next]_vars PROVE IInv'
  OBVIOUS
<1>0. reviews \subseteq reviews'
  BY ReviewsStay
<1> DEFINE Goal == IInv'
<1>a. ASSUME UNCHANGED <<results, inMemory>>, SealIsAttested' PROVE Goal
  BY <1>0, <1>a, KeptFilesStaySound
     DEF IInv, results, ScoresRestOnAttestedWork, ScoresMatch
<1>b. ASSUME UNCHANGED <<results, seal>>, FilesAreTables', MemoryIsAttested' PROVE Goal
  BY <1>0, <1>b, KeptFilesStaySound
     DEF IInv, results, ScoresRestOnAttestedWork, ScoresMatch
<1>1. CASE UNCHANGED vars \/ AuthoringStep
  <2>1. UNCHANGED <<seal, results, inMemory>>
    BY <1>1 DEF vars, sealing, results, running, AuthoringStep, Publish, Acquire, Prepare,
                FinalizeSubmission, Review
  <2>2. QED
    BY <1>0, <1>a, <2>1, KeptFilesStaySound
<1>2. ASSUME NEW h \in Humans, SealSubmission(h) PROVE Goal
  <2>1. UNCHANGED <<results, inMemory>> /\ UNCHANGED reviews
    BY <1>2 DEF SealSubmission, running
  <2>2. Attested(submission, h) /\ seal'.submission = submission /\ seal'.reviewer = h
    BY <1>2 DEF SealSubmission
  <2>3. SealIsAttested'
    BY <2>1, <2>2 DEF SealIsAttested, Sealed, Attested, Reviewing, Approvals
  <2>4. QED
    BY <1>a, <2>1, <2>3
<1>3. ASSUME NEW r \in Runs, Authorize(r) \/ Materialize(r) PROVE Goal
  <2>1. UNCHANGED <<seal, results, inMemory>>
    BY <1>3 DEF Authorize, Materialize, sealing, results
  <2>2. QED
    BY <1>0, <1>a, <2>1, KeptFilesStaySound
<1>4. ASSUME NEW r \in Runs, Abort(r) PROVE Goal
  <2>1. UNCHANGED <<seal, results>> /\ inMemory' = [inMemory EXCEPT ![r] = None]
    BY <1>4 DEF Abort, sealing, results
  <2>2. FilesAreTables'
    BY <2>1 DEF IInv, FilesAreTables, results
  <2>3. ASSUME NEW q \in Runs PROVE Sealed(inMemory[q])'
    <3>1. inMemory'[q] = None \/ inMemory'[q] = inMemory[q]
      BY <2>1 DEF IInv, FilesAreTables
    <3>2. Sealed(inMemory[q])
      BY DEF IInv, MemoryIsAttested
    <3>3. QED
      BY <1>0, <3>1, <3>2, SealedStays DEF Sealed
  <2>4. QED
    BY <1>b, <2>1, <2>2, <2>3 DEF MemoryIsAttested
<1>5. ASSUME NEW r \in Runs, LoadCases(r) PROVE Goal
  <2>1. UNCHANGED <<seal, results>> /\ inMemory' = [inMemory EXCEPT ![r] = registry]
    BY <1>5 DEF LoadCases, sealing, results
  <2>2. FilesAreTables'
    BY <2>1 DEF IInv, FilesAreTables, results
  <2>3. ASSUME NEW q \in Runs PROVE Sealed(inMemory[q])'
    <3>1. inMemory'[q] = registry \/ inMemory'[q] = inMemory[q]
      BY <2>1 DEF IInv, FilesAreTables
    <3>2. Sealed(inMemory[q]) /\ Sealed(registry)
      BY DEF IInv, MemoryIsAttested, ScoresRestOnAttestedWork
    <3>3. QED
      BY <1>0, <3>1, <3>2, SealedStays
  <2>4. QED
    BY <1>b, <2>1, <2>2, <2>3 DEF MemoryIsAttested
<1>6. ASSUME NEW r \in Runs, Export(r) PROVE Goal
  <2>1. /\ UNCHANGED <<seal, bench, policy, verdict, reviews>>
        /\ inMemory' = [inMemory EXCEPT ![r] = registry']
    BY <1>6 DEF Export, Exported, sealing
  <2>2. /\ Binds(seal, packet, submission)
        /\ registry'.submission = submission /\ registry'.reviewer = seal.reviewer
    BY <1>6 DEF Export, Exported
  <2>3. Attested(submission, seal.reviewer)
    BY <2>2 DEF Binds, IInv, SealIsAttested, Sealed
  <2>4. Sealed(registry)'
    BY <2>1, <2>2, <2>3 DEF Sealed, Attested, Reviewing, Approvals
  <2>5. FilesAreTables'
    BY <2>1 DEF IInv, FilesAreTables
  <2>6. ASSUME NEW q \in Runs PROVE Sealed(inMemory[q])'
    <3>1. inMemory'[q] = registry' \/ inMemory'[q] = inMemory[q]
      BY <2>1 DEF IInv, FilesAreTables
    <3>2. Sealed(inMemory[q])
      BY DEF IInv, MemoryIsAttested
    <3>3. CASE inMemory'[q] = registry'
      BY <2>4, <3>3 DEF Sealed, Attested, Reviewing, Approvals
    <3>4. CASE inMemory'[q] = inMemory[q]
      BY <1>0, <3>2, <3>4, SealedStays
    <3>5. QED
      BY <3>1, <3>3, <3>4
  <2>7. QED
    BY <1>0, <2>1, <2>4, <2>5, <2>6, KeptFilesStaySound
    DEF IInv, ScoresRestOnAttestedWork, ScoresMatch, MemoryIsAttested
<1>7. ASSUME NEW r \in Runs, ExportSplitPlan(r) PROVE Goal
  <2>1. /\ UNCHANGED <<seal, registry, bench, policy, verdict>>
        /\ inMemory' = [inMemory EXCEPT ![r] = None]
    BY <1>7 DEF ExportSplitPlan, sealing
  <2>2. FilesAreTables'
    BY <2>1 DEF IInv, FilesAreTables
  <2>3. ASSUME NEW q \in Runs PROVE Sealed(inMemory[q])'
    <3>1. inMemory'[q] = None \/ inMemory'[q] = inMemory[q]
      BY <2>1 DEF IInv, FilesAreTables
    <3>2. Sealed(inMemory[q])
      BY DEF IInv, MemoryIsAttested
    <3>3. QED
      BY <1>0, <3>1, <3>2, SealedStays DEF Sealed
  <2>4. QED
    BY <1>0, <2>1, <2>2, <2>3, KeptFilesStaySound
    DEF IInv, ScoresRestOnAttestedWork, ScoresMatch, MemoryIsAttested
<1>8. ASSUME NEW r \in Runs, Benchmark(r) PROVE Goal
  <2> DEFINE scores == [of |-> inMemory[r], dataset |-> splitPlan]
  <2>1. /\ UNCHANGED <<seal, registry, policy, verdict>>
        /\ inMemory' = [inMemory EXCEPT ![r] = None]
        /\ bench' = [bench EXCEPT ![pc[r]] = scores]
        /\ inMemory[r].sources[pc[r]] = splitPlan.sources[pc[r]]
    BY <1>8 DEF Benchmark, Scored, sealing
  <2>2. FilesAreTables'
    BY <2>1 DEF IInv, FilesAreTables
  <2>3. ASSUME NEW q \in Runs PROVE Sealed(inMemory[q])'
    <3>1. inMemory'[q] = None \/ inMemory'[q] = inMemory[q]
      BY <2>1 DEF IInv, FilesAreTables
    <3>2. Sealed(inMemory[q])
      BY DEF IInv, MemoryIsAttested
    <3>3. QED
      BY <1>0, <3>1, <3>2, SealedStays DEF Sealed
  <2>4. Matches(scores, pc[r]) /\ SealedScores(scores)
    <3>1. scores.of = inMemory[r] /\ scores.dataset = splitPlan
      OBVIOUS
    <3>2. Sealed(inMemory[r])
      BY DEF IInv, MemoryIsAttested
    <3>3. QED
      BY <2>1, <3>1, <3>2 DEF Matches, SealedScores
  <2>5. ASSUME NEW split \in Splits PROVE SealedScores(bench[split])' /\ Matches(bench[split], split)'
    <3>1. (bench'[split] = scores /\ split = pc[r]) \/ bench'[split] = bench[split]
      BY <2>1 DEF IInv, FilesAreTables
    <3>2. SealedScores(bench[split]) /\ Matches(bench[split], split)
      BY DEF IInv, ScoresRestOnAttestedWork, ScoresMatch
    <3>3. PICK s : /\ s = bench'[split] /\ SealedScores(s) /\ Matches(s, split)
      BY <2>4, <3>1, <3>2
    <3>4. SealedScores(s)' /\ Matches(s, split)
      BY <1>0, <3>3, SealedScoresStay
    <3>5. QED
      BY <3>3, <3>4 DEF SealedScores, Matches, Sealed, Attested, Reviewing, Approvals
  <2>6. QED
    BY <1>0, <2>1, <2>2, <2>3, <2>5, KeptFilesStaySound
    DEF IInv, ScoresRestOnAttestedWork, ScoresMatch, MemoryIsAttested
<1>9. ASSUME NEW r \in Runs, Freeze(r) PROVE Goal
  <2>1. UNCHANGED <<seal, registry, bench, verdict, inMemory>> /\ policy' = bench["calibration"]
    BY <1>9 DEF Freeze, sealing
  <2>2. \A split \in Splits : SealedScores(bench[split])' /\ Matches(bench[split], split)'
    BY <1>0, <2>1, KeptFilesStaySound
  <2>3. bench'["calibration"] = policy' /\ "calibration" \in Splits
    BY <2>1 DEF Splits
  <2>4. SealedScores(policy)' /\ Matches(policy, "calibration")'
    BY <2>2, <2>3 DEF SealedScores, Matches, Sealed, Attested, Reviewing, Approvals
  <2>5. QED
    BY <1>0, <2>1, <2>2, <2>4, KeptFilesStaySound
    DEF IInv, ScoresRestOnAttestedWork, ScoresMatch
<1>10. ASSUME NEW r \in Runs, Evaluate(r) PROVE Goal
  <2>1. /\ UNCHANGED <<seal, registry, bench, policy, inMemory, reviews>>
        /\ verdict' = [policy |-> policy, scores |-> bench["evaluation"]]
        /\ bench["evaluation"] # None /\ policy # None
        /\ bench["evaluation"].dataset = policy.dataset
    BY <1>10 DEF Evaluate, sealing
  <2>2. /\ SealedScores(policy) /\ SealedScores(bench["evaluation"])
        /\ Matches(policy, "calibration") /\ Matches(bench["evaluation"], "evaluation")
    BY DEF IInv, ScoresRestOnAttestedWork, ScoresMatch, Splits
  <2>3. verdict'.policy = policy /\ verdict'.scores = bench["evaluation"]
    BY <2>1
  <2>4. SealedScores(verdict.policy)' /\ SealedScores(verdict.scores)'
    BY <2>1, <2>2, <2>3 DEF SealedScores, Sealed, Attested, Reviewing, Approvals
  <2>5. LET plan == policy.dataset.sources
        IN  /\ policy.of.sources["calibration"] = plan["calibration"]
            /\ bench["evaluation"].of.sources["evaluation"] = plan["evaluation"]
    BY <2>1, <2>2 DEF Matches
  <2>6. VerdictIsOfOneDataset'
    BY <2>3, <2>5 DEF VerdictIsOfOneDataset
  <2>7. QED
    BY <1>0, <2>1, <2>4, <2>6, KeptFilesStaySound
    DEF IInv, ScoresRestOnAttestedWork, ScoresMatch
<1>11. QED
  BY <1>1, <1>2, <1>3, <1>4, <1>5, <1>6, <1>7, <1>8, <1>9, <1>10 DEF Next, Score, AuthoringStep

\* The strengthened invariant holds in every reachable state.
THEOREM Invariance == Spec => []IInv
BY InitIInv, NextIInv, PTL DEF Spec

\* Only attested and approved work is scored, calibrated on or evaluated
\* (export_sealed_cycle_eval_artifacts and seal_submission).
THEOREM OnlyAttestedWorkIsScored == Spec => []ScoresRestOnAttestedWork
<1>1. IInv => ScoresRestOnAttestedWork
  BY DEF IInv
<1>2. QED
  BY <1>1, Invariance, PTL

\* A policy and the scores that judge it were computed from the two parts of one split
\* plan: the scores of a split are bound to the plan whose digest they carry, whatever
\* else of the registry has been replaced by then, and the digests of the two plans are
\* equal (bind_registry_to_split_plan, evaluate_visual_policy.py).
THEOREM VerdictsAreOfOneDataset == Spec => []VerdictIsOfOneDataset
<1>1. IInv => VerdictIsOfOneDataset
  BY DEF IInv
<1>2. QED
  BY <1>1, Invariance, PTL

-----------------------------------------------------------------------------
(* Policies. *)

\* A non-empty set of naturals has a least element.
LEMMA Smallest ==
    ASSUME NEW S \in SUBSET Nat, S # {}
    PROVE  \E n \in S : \A m \in S : n <= m
<1> DEFINE R == {p \in Nat \X Nat : p[1] < p[2]}
<1>1. IsWellFoundedOn(R, Nat)
  BY NatLessThanWellFounded DEF OpToRel
<1> HIDE DEF R
<1>2. PICK n \in S : \A m \in S : ~ (<<m, n>> \in R)
  BY <1>1, WFMin
<1>3. \A m \in S : ~ (m < n)
  <2> SUFFICES ASSUME NEW m \in S, m < n PROVE FALSE
    OBVIOUS
  <2>1. <<m, n>> \in Nat \X Nat /\ <<m, n>>[1] = m /\ <<m, n>>[2] = n
    OBVIOUS
  <2>2. <<m, n>> \in R
    BY <2>1 DEF R
  <2>3. QED
    BY <1>2, <2>2
<1>4. QED
  BY <1>3

\* A non-empty set of naturals with an upper bound has a largest element.
LEMMA Largest ==
    ASSUME NEW U \in Nat, NEW S \in SUBSET (0..U), S # {}
    PROVE  Max(S) \in S /\ \A x \in S : x <= Max(S)
<1> DEFINE D == {U - x : x \in S}
<1>b. \A x \in S : x \in 0..U /\ U - x \in Nat
  OBVIOUS
<1>0. D \in SUBSET Nat /\ D # {}
  BY <1>b
<1>a. \A S0 \in SUBSET Nat : S0 # {} => \E n \in S0 : \A m \in S0 : n <= m
  BY Smallest
<1>1. PICK d \in D : \A e \in D : d <= e
  <2> HIDE DEF D
  <2> QED BY <1>0, <1>a
<1>2. PICK x \in S : d = U - x
  OBVIOUS
<1>3. \A y \in S : x >= y
  BY <1>1, <1>2
<1>4. \E z \in S : \A y \in S : z >= y
  BY <1>3
<1>5. QED
  BY <1>4 DEF Max

\* Such as Min is of it.
LEMMA Least ==
    ASSUME NEW S \in SUBSET Nat, S # {}
    PROVE  Min(S) \in S /\ \A x \in S : Min(S) <= x
<1>1. \E n \in S : \A m \in S : n <= m
  BY Smallest
<1>2. QED
  BY <1>1 DEF Min

\* Each instance has its own copies of these.
LEMMA PolCardinality == \A S : Pol!Cardinality(S) = Cardinality(S) /\ Pol!IsFiniteSet(S) = IsFiniteSet(S)
BY DEF Pol!Cardinality, Cardinality, Pol!IsFiniteSet, IsFiniteSet
LEMMA PolMax == \A S : Pol!Max(S) = Max(S) /\ Pol!Min(S) = Min(S)
BY DEF Pol!Max, Max, Pol!Min, Min

-----------------------------------------------------------------------------
AcceptedOf(C, t) == {p \in C : p.score > t}
LabelledAs(S, labels) == Cardinality({p \in S : p.label \in labels})

\* The counts of a set of predictions are of finite sets.
LEMMA CountsAreNaturals ==
    ASSUME NEW C, IsFiniteSet(C), NEW t
    PROVE  LET counts == Pol!SelectiveCounts(C, t)
           IN  /\ counts.accepted = Cardinality(AcceptedOf(C, t))
               /\ counts.positives = LabelledAs(C, {"positive"})
               /\ counts.acceptedPositives = LabelledAs(AcceptedOf(C, t), {"positive"})
               /\ counts.wrongVisual = LabelledAs(AcceptedOf(C, t), Pol!WrongVisual)
               /\ counts.wrongIdentity = LabelledAs(AcceptedOf(C, t), Pol!WrongIdentity)
               /\ counts.accepted \in Nat /\ counts.wrongVisual \in Nat
               /\ counts.wrongIdentity \in Nat /\ counts.positives \in Nat
               /\ counts.acceptedPositives \in 0..Cardinality(C)
<1> DEFINE A == AcceptedOf(C, t)
<1>1. IsFiniteSet(A) /\ A \in SUBSET C
  BY FS_Subset DEF AcceptedOf
<1>2. \A labels : LabelledAs(A, labels) \in 0..Cardinality(C)
  <2> SUFFICES ASSUME NEW labels PROVE LabelledAs(A, labels) \in 0..Cardinality(C)
    OBVIOUS
  <2> DEFINE L == {p \in A : p.label \in labels}
  <2>1. L \in SUBSET C
    BY <1>1
  <2>2. IsFiniteSet(L) /\ Cardinality(L) <= Cardinality(C)
    BY <2>1, FS_Subset
  <2>3. QED
    BY <2>2, FS_CardinalityType DEF LabelledAs
<1>3. Cardinality(A) \in Nat /\ LabelledAs(C, {"positive"}) \in Nat
  <2> DEFINE L == {p \in C : p.label \in {"positive"}}
  <2>1. IsFiniteSet(L)
    BY FS_Subset
  <2>2. QED
    BY <2>1, <1>1, FS_CardinalityType DEF LabelledAs
<1>4. /\ {p \in C : Pol!Accepted(p, t)} = A
      /\ Pol!Positive = "positive"
  BY DEF Pol!Accepted, AcceptedOf, Pol!Positive
<1>5. Pol!SelectiveCounts(C, t) =
        [accepted |-> Cardinality(A), positives |-> LabelledAs(C, {"positive"}),
         acceptedPositives |-> LabelledAs(A, {"positive"}),
         wrongVisual |-> LabelledAs(A, Pol!WrongVisual),
         wrongIdentity |-> LabelledAs(A, Pol!WrongIdentity)]
  BY <1>4, PolCardinality DEF Pol!SelectiveCounts, LabelledAs
<1>6. QED
  BY <1>2, <1>3, <1>5

\* What accepts more counts more.
LEMMA MoreAcceptedMoreCounted ==
    ASSUME NEW C, IsFiniteSet(C), NEW s, NEW t, AcceptedOf(C, s) \subseteq AcceptedOf(C, t)
    PROVE  Cardinality(AcceptedOf(C, s)) <= Cardinality(AcceptedOf(C, t))
<1>1. IsFiniteSet(AcceptedOf(C, t))
  BY FS_Subset DEF AcceptedOf
<1>2. QED
  BY <1>1, FS_Subset

\* A threshold accepts what the largest candidate up to it accepts.
LEMMA CandidatesSuffice ==
    ASSUME NEW C, IsFiniteSet(C), C # {}, Unit \in Nat, \A p \in C : p.score \in 0..Unit,
           NEW t \in Nat, \E p \in C : p.score <= t
    PROVE  \E u \in Pol!Candidates(C) : u <= t /\ AcceptedOf(C, u) = AcceptedOf(C, t)
<1> DEFINE below == {c \in Pol!Candidates(C) : c <= t}
<1>1. Pol!Candidates(C) \in SUBSET (0..Unit) /\ \A p \in C : p.score \in Pol!Candidates(C)
  BY DEF Pol!Candidates
<1>2. below \in SUBSET (0..Unit) /\ below # {}
  BY <1>1
<1>3. Max(below) \in below /\ \A c \in below : c <= Max(below)
  <2> HIDE DEF below
  <2> QED BY <1>2, Largest
<1>4. \A p \in C : p.score > t <=> p.score > Max(below)
  <2> SUFFICES ASSUME NEW p \in C PROVE p.score > t <=> p.score > Max(below)
    OBVIOUS
  <2>1. p.score \in Nat /\ Max(below) \in Nat /\ Max(below) <= t
    BY <1>1, <1>3
  <2>2. p.score <= t => p.score <= Max(below)
    BY <1>1, <1>3
  <2>3. QED
    BY <2>1, <2>2
<1>5. QED
  BY <1>3, <1>4 DEF AcceptedOf

\* The threshold is harmless, accepts as many positives as any harmless candidate, and
\* is the strictest of those.
LEMMA ThresholdIsBest ==
    ASSUME NEW C, IsFiniteSet(C), Unit \in Nat, \A p \in C : p.score \in 0..Unit,
           NEW rate, rate.num \in Nat, rate.den \in Nat \ {0}
    PROVE  LET T == Pol!Threshold(C, rate)
               Gain(t) == Pol!SelectiveCounts(C, t).acceptedPositives
           IN  /\ T \in Pol!Candidates(C) /\ T \in Nat
               /\ Pol!Harmless(Pol!SelectiveCounts(C, T), rate)
               /\ \A t \in Pol!Candidates(C) : Pol!Harmless(Pol!SelectiveCounts(C, t), rate) =>
                     /\ Gain(t) <= Gain(T)
                     /\ Gain(t) = Gain(T) => t <= T
<1> DEFINE feasible == {t \in Pol!Candidates(C) : Pol!Harmless(Pol!SelectiveCounts(C, t), rate)}
           Gain(t) == Pol!SelectiveCounts(C, t).acceptedPositives
           gains == {Gain(t) : t \in feasible}
           best == Max(gains)
           winners == {t \in feasible : Gain(t) = best}
<1>1. Pol!Candidates(C) \in SUBSET (0..Unit) /\ Unit \in Pol!Candidates(C)
  BY DEF Pol!Candidates
<1>2. Unit \in feasible
  <2>1. AcceptedOf(C, Unit) = {}
    BY DEF AcceptedOf
  <2>2. \A labels : LabelledAs({}, labels) = 0
    BY FS_EmptySet DEF LabelledAs
  <2> DEFINE c == Pol!SelectiveCounts(C, Unit)
  <2>a. /\ c.accepted = Cardinality(AcceptedOf(C, Unit))
        /\ c.wrongVisual = LabelledAs(AcceptedOf(C, Unit), Pol!WrongVisual)
        /\ c.wrongIdentity = LabelledAs(AcceptedOf(C, Unit), Pol!WrongIdentity)
    BY CountsAreNaturals
  <2>3. c.wrongIdentity = 0 /\ c.wrongVisual = 0 /\ c.accepted = 0
    BY <2>a, <2>1, <2>2, FS_EmptySet
  <2>4. Pol!Harmless(Pol!SelectiveCounts(C, Unit), rate)
    BY <2>3 DEF Pol!Harmless
  <2>5. QED
    BY <2>4, <1>1
<1>3. Cardinality(C) \in Nat /\ \A t : Gain(t) \in 0..Cardinality(C)
  BY FS_CardinalityType, CountsAreNaturals
<1>4. gains \in SUBSET (0..Cardinality(C)) /\ gains # {}
  BY <1>2, <1>3
<1>5. best \in gains /\ \A g \in gains : g <= best
  <2> HIDE DEF gains
  <2> QED BY <1>3, <1>4, Largest
<1>6. winners \in SUBSET (0..Unit) /\ winners # {}
  BY <1>1, <1>5
<1>7. Max(winners) \in winners /\ \A t \in winners : t <= Max(winners)
  <2> HIDE DEF winners
  <2> QED BY <1>6, Largest
<1>8. Pol!Threshold(C, rate) = Max(winners)
  BY PolMax DEF Pol!Threshold
<1>9. Max(winners) \in feasible /\ Gain(Max(winners)) = best
  BY <1>7
<1>10. \A t \in feasible : Gain(t) <= best /\ (Gain(t) = best => t <= Max(winners))
  BY <1>5, <1>7
<1> DEFINE T == Pol!Threshold(C, rate)
<1>11. T \in Pol!Candidates(C) /\ T \in Nat /\ Pol!Harmless(Pol!SelectiveCounts(C, T), rate)
  BY <1>1, <1>8, <1>9
<1>12. ASSUME NEW t \in Pol!Candidates(C), Pol!Harmless(Pol!SelectiveCounts(C, t), rate)
       PROVE  Gain(t) <= Gain(T) /\ (Gain(t) = Gain(T) => t <= T)
  <2>1. t \in feasible
    BY <1>12
  <2>2. Gain(T) = best /\ T = Max(winners)
    BY <1>8, <1>9
  <2> HIDE DEF feasible, best, winners, gains, T, Gain
  <2>3. QED
    BY <2>1, <2>2, <1>10
<1>13. QED
  BY <1>11, <1>12

\* The decisions under a policy accept what its threshold does.
LEMMA DecisionsAccept ==
    ASSUME NEW rate, NEW coverage, NEW C, NEW dataset, NEW s \in Nat,
           Pol!Threshold(Pol!Of(C, "calibration"), rate) \in Nat
    PROVE  LET frozen == Pol!FreezePolicy(C, Adapter, dataset, rate, coverage)
           IN  Pol!Decide(s, frozen) = "accepted" <=> s > frozen.threshold
<1> DEFINE T == Pol!Threshold(Pol!Of(C, "calibration"), rate)
           frozen == Pol!FreezePolicy(C, Adapter, dataset, rate, coverage)
<1>1. frozen.threshold = T /\ frozen.adapter.semantics = "calibrated_probability"
  BY DEF Pol!FreezePolicy, Adapter
<1>2. Pol!Decide(s, frozen) = CASE s > T -> "accepted"
                                [] s <= T /\ s = 0 -> "rejected"
                                [] OTHER -> "abstained"
  <2> HIDE DEF frozen, T
  <2> QED BY <1>1 DEF Pol!Decide
<1>3. T \in Nat
  OBVIOUS
<1>4. CASE s > T
  BY <1>1, <1>2, <1>3, <1>4
<1>5. CASE ~ (s > T)
  <2>1. CASE s = 0
    BY <1>1, <1>2, <1>3, <1>5, <2>1
  <2>2. CASE s # 0
    BY <1>1, <1>2, <1>3, <1>5, <2>2
  <2>3. QED
    BY <2>1, <2>2
<1>6. QED
  BY <1>4, <1>5

\* visual_metrics.py (freeze_policy): no harmless threshold covers more.
LEMMA FreezingIsOptimal == GatesInit => FreezeIsOptimal
<1> SUFFICES ASSUME GatesInit, subject = "policy", Pol!Calibrates(input.predictions, TRUE)
             PROVE  FreezeIsOptimal
  BY DEF FreezeIsOptimal
<1> DEFINE C == Pol!Of(input.predictions, "calibration")
           coverage == [num |-> 1, den |-> 2]
           frozen == Pol!FreezePolicy(input.predictions, Adapter, "plan", input.rate, coverage)
           T == Pol!Threshold(C, input.rate)
           Counts(t) == Pol!SelectiveCounts(C, t)
<1>1. /\ IsFiniteSet(input.predictions) /\ \A p \in input.predictions : p.score \in 0..Unit
      /\ input.rate.num \in Nat /\ input.rate.den \in Nat \ {0} /\ Unit \in Nat
  BY PolicyAssumption DEF GatesInit, InputsOf
<1>2. IsFiniteSet(C) /\ (\A p \in C : p.score \in 0..Unit) /\ C # {}
  <2>1. C \subseteq input.predictions
    BY DEF Pol!Of
  <2>2. C # {}
    BY DEF Pol!Calibrates, Pol!Freezes
  <2>3. QED
    BY <2>1, <2>2, <1>1, FS_Subset
<1>3. /\ T \in Pol!Candidates(C) /\ T \in Nat /\ Pol!Harmless(Counts(T), input.rate)
      /\ \A t \in Pol!Candidates(C) : Pol!Harmless(Counts(t), input.rate) =>
            /\ Counts(t).acceptedPositives <= Counts(T).acceptedPositives
            /\ Counts(t).acceptedPositives = Counts(T).acceptedPositives => t <= T
  <2> HIDE DEF C
  <2> QED BY <1>1, <1>2, ThresholdIsBest
<1>4. frozen.threshold = T
  BY DEF Pol!FreezePolicy
<1>5. ASSUME NEW p \in C, p.label \in Pol!WrongIdentity
      PROVE  Pol!Decide(p.score, frozen) # "accepted"
  <2> DEFINE wrong == {q \in AcceptedOf(C, T) : q.label \in Pol!WrongIdentity}
  <2>1. LabelledAs(AcceptedOf(C, T), Pol!WrongIdentity) = 0
    <3> HIDE DEF C, T
    <3>1. Counts(T).wrongIdentity = LabelledAs(AcceptedOf(C, T), Pol!WrongIdentity)
      BY <1>2, CountsAreNaturals
    <3>2. QED
      BY <3>1, <1>3 DEF Pol!Harmless
  <2>2. IsFiniteSet(wrong)
    <3>1. wrong \in SUBSET C
      BY DEF AcceptedOf
    <3>2. QED
      BY <3>1, <1>2, FS_Subset
  <2>3. wrong = {}
    BY <2>1, <2>2, FS_EmptySet DEF LabelledAs
  <2>4. ~ (p.score > T)
    BY <2>3, <1>5 DEF AcceptedOf
  <2>5. p.score \in Nat
    BY <1>2
  <2>6. QED
    BY <2>4, <2>5, <1>3, <1>4, DecisionsAccept
<1>6. ASSUME NEW t \in Pol!Min({p.score : p \in C})..Unit, Pol!Harmless(Counts(t), input.rate)
      PROVE  \/ Counts(t).acceptedPositives < Counts(T).acceptedPositives
             \/ /\ Counts(t).acceptedPositives = Counts(T).acceptedPositives
                /\ Counts(t).accepted >= Counts(T).accepted
  <2> HIDE DEF C, T
  <2>1. t \in Nat /\ \E p \in C : p.score <= t
    <3> DEFINE scores == {p.score : p \in C}
    <3>1. scores \in SUBSET Nat /\ scores # {}
      BY <1>2
    <3>2. Min(scores) \in scores
      <4> HIDE DEF scores
      <4> QED BY <3>1, Least
    <3>3. Pol!Min(scores) = Min(scores)
      BY PolMax
    <3>4. QED
      BY <3>1, <3>2, <3>3, <1>1
  <2>2. PICK u \in Pol!Candidates(C) : u <= t /\ AcceptedOf(C, u) = AcceptedOf(C, t)
    BY <2>1, <1>1, <1>2, CandidatesSuffice
  <2>3. Counts(u) = Counts(t)
    BY <2>2 DEF Pol!SelectiveCounts, Pol!Accepted, AcceptedOf
  <2>4. /\ Counts(u).acceptedPositives <= Counts(T).acceptedPositives
        /\ Counts(u).acceptedPositives = Counts(T).acceptedPositives => u <= T
    BY <2>3, <1>3, <1>6
  <2>5. Counts(u).acceptedPositives \in Nat /\ Counts(T).acceptedPositives \in Nat
    BY <1>2, CountsAreNaturals, FS_CardinalityType
  <2>6. u <= T => Counts(u).accepted >= Counts(T).accepted
    <3>1. u \in Nat
      BY <1>1, <1>2 DEF Pol!Candidates
    <3>2. u <= T => AcceptedOf(C, T) \subseteq AcceptedOf(C, u)
      BY <3>1, <1>2, <1>3 DEF AcceptedOf
    <3>3. /\ Counts(u).accepted = Cardinality(AcceptedOf(C, u)) /\ Counts(u).accepted \in Nat
          /\ Counts(T).accepted = Cardinality(AcceptedOf(C, T)) /\ Counts(T).accepted \in Nat
      BY <1>2, CountsAreNaturals
    <3>4. QED
      BY <3>2, <3>3, <1>2, MoreAcceptedMoreCounted
  <2>7. QED
    BY <2>3, <2>4, <2>5, <2>6
<1>7. QED
  BY <1>3, <1>4, <1>5, <1>6 DEF FreezeIsOptimal

\* visual_metrics.py (evaluate_policy): the gate judges the decisions that are made.
LEMMA GatesJudgeDecisions == GatesInit => TheGateJudgesDecisions
<1> DEFINE C == Pol!Of(input.predictions, "calibration")
           E == Pol!Of(input.predictions, "evaluation")
           coverage == [num |-> 1, den |-> 2]
           frozen == Pol!FreezePolicy(C, Adapter, "plan", input.rate, coverage)
           T == Pol!Threshold(Pol!Of(C, "calibration"), input.rate)
           accepted == {p \in E : Pol!Decide(p.score, frozen) = "accepted"}
<1> SUFFICES ASSUME GatesInit, subject = "policy", Pol!Calibrates(C, TRUE)
             PROVE  Pol!GatePassed(E, frozen) <=>
                       /\ LabelledAs(accepted, Pol!WrongIdentity) = 0
                       /\ LabelledAs(accepted, Pol!WrongVisual) * input.rate.den
                            <= input.rate.num * Cardinality(accepted)
                       /\ LabelledAs(E, {"positive"}) > 0
                       /\ 2 * LabelledAs(accepted, {"positive"}) >= LabelledAs(E, {"positive"})
  BY DEF TheGateJudgesDecisions, LabelledAs
<1>1. /\ IsFiniteSet(input.predictions) /\ \A p \in input.predictions : p.score \in 0..Unit
      /\ input.rate.num \in Nat /\ input.rate.den \in Nat \ {0} /\ Unit \in Nat
  BY PolicyAssumption DEF GatesInit, InputsOf
<1>2. /\ Pol!Of(E, "evaluation") = E /\ Pol!Of(C, "calibration") = C
      /\ IsFiniteSet(C) /\ IsFiniteSet(E) /\ \A p \in C \cup E : p.score \in 0..Unit
  <2>1. C \in SUBSET input.predictions /\ E \in SUBSET input.predictions
    BY DEF Pol!Of
  <2>2. Pol!Of(E, "evaluation") = E /\ Pol!Of(C, "calibration") = C
    BY DEF Pol!Of
  <2>3. QED
    BY <2>1, <2>2, <1>1, FS_Subset
<1>3. T \in Nat
  <2> HIDE DEF C
  <2> QED BY <1>1, <1>2, ThresholdIsBest
<1>4. frozen.threshold = T /\ frozen.rate = input.rate /\ frozen.coverage = coverage
  BY DEF Pol!FreezePolicy
<1>5. accepted = AcceptedOf(E, T)
  <2>1. \A p \in E : Pol!Decide(p.score, frozen) = "accepted" <=> p.score > T
    BY <1>1, <1>2, <1>3, <1>4, DecisionsAccept
  <2>2. QED
    BY <2>1 DEF AcceptedOf
<1> DEFINE counts == Pol!SelectiveCounts(E, T)
<1>6. /\ counts.accepted = Cardinality(accepted)
      /\ counts.positives = LabelledAs(E, {"positive"}) /\ counts.positives \in Nat
      /\ counts.acceptedPositives = LabelledAs(accepted, {"positive"}) /\ counts.acceptedPositives \in Nat
      /\ counts.wrongVisual = LabelledAs(accepted, Pol!WrongVisual)
      /\ counts.wrongIdentity = LabelledAs(accepted, Pol!WrongIdentity)
  <2> HIDE DEF E, T, accepted
  <2> QED BY <1>2, <1>5, CountsAreNaturals, FS_CardinalityType
<1>7. Pol!GatePassed(E, frozen) <=>
         /\ Pol!Harmless(counts, input.rate)
         /\ IF counts.positives = 0 THEN FALSE ELSE counts.acceptedPositives * 2 >= 1 * counts.positives
  <2> HIDE DEF C, E
  <2> QED BY <1>2, <1>4 DEF Pol!GatePassed
<1> HIDE DEF C, E, frozen, T, accepted, counts
<1>8. QED
  BY <1>6, <1>7 DEF Pol!Harmless

\* The inputs are only looked at, so what holds of every input always holds.
LEMMA InputsStay == GatesSpec => []GatesInit
<1>1. GatesInit /\ [GatesNext]_gateVars => GatesInit'
  BY DEF GatesInit, GatesNext, gateVars
<1>2. QED
  BY <1>1, PTL DEF GatesSpec

\* visual_metrics.py: a frozen policy is optimal, and the gate that admits it judges the
\* decisions that calls under it get.
THEOREM JudgedPolicies == GatesSpec => []PoliciesJudgeTheirDecisions
<1>1. GatesInit => PoliciesJudgeTheirDecisions
  BY FreezingIsOptimal, GatesJudgeDecisions DEF PoliciesJudgeTheirDecisions
<1>2. QED
  BY <1>1, InputsStay, PTL

-----------------------------------------------------------------------------
(* Held-out evaluation. *)

\* The document of a case name, and where it is planned.
LEMMA CasesArePlanned ==
    ASSUME NEW documents, NEW plan, NEW split, Pol!BindsSplitPlan(documents, plan, split),
           NEW id \in Pol!CaseIds(documents)
    PROVE  \E f \in plan : f.split = split /\ id[1] = f.id
<1>1. PICK d \in documents : id[1] = d.id
  BY DEF Pol!CaseIds, Pol!Cases
<1> DEFINE Line(x) == [id |-> x.id, digest |-> x.digest, category |-> x.category]
<1>2. {Line(e) : e \in documents} = {Line(f) : f \in {g \in plan : g.split = split}}
  BY DEF Pol!BindsSplitPlan
<1>3. PICK f \in {g \in plan : g.split = split} : Line(f) = Line(d)
  BY <1>2
<1>4. Line(f).id = f.id /\ Line(d).id = d.id
  OBVIOUS
<1>5. QED
  BY <1>1, <1>3, <1>4

\* A policy is never evaluated on a case it was calibrated on (evaluate_visual.py,
\* evaluate_visual_policy.py).
LEMMA HeldOutEvaluation == GatesInit => EvaluationIsHeldOut
<1> DEFINE a == input.calibration
           b == input.evaluation
           calibrated == Pol!Cut(a, "calibration")
           evaluated == Pol!Cut(b, "evaluation")
           artifact == Pol!Benchmark(b, input.later, "evaluation", Adapter,
                                     [id \in Pol!CaseIds(evaluated) |-> Unit])
           frozen == [adapter |-> Adapter, dataset |-> input.plan]
<1> SUFFICES ASSUME Pol!Benchmarks(a, input.plan, "calibration"),
                    Pol!Benchmarks(b, input.later, "evaluation"),
                    Pol!ArtifactFits(artifact, frozen)
             PROVE  /\ Pol!CaseIds(calibrated) \cap Pol!CaseIds(evaluated) = {}
                    /\ a = b => \A d \in calibrated, e \in evaluated :
                                    d.digest # e.digest /\ d.group # e.group
  BY DEF EvaluationIsHeldOut
<1>1. input.later = input.plan
  <2>1. artifact.dataset = input.later /\ frozen.dataset = input.plan
    BY DEF Pol!Benchmark
  <2> HIDE DEF artifact, frozen
  <2>2. QED
    BY <2>1 DEF Pol!ArtifactFits
<1>2. ASSUME NEW id \in Pol!CaseIds(calibrated) \cap Pol!CaseIds(evaluated) PROVE FALSE
  <2>1. PICK f \in input.plan : f.split = "calibration" /\ id[1] = f.id
    BY <1>2, CasesArePlanned DEF Pol!Benchmarks
  <2>2. PICK g \in input.plan : g.split = "evaluation" /\ id[1] = g.id
    BY <1>1, <1>2, CasesArePlanned DEF Pol!Benchmarks
  <2>3. f = g
    BY <2>1, <2>2 DEF Pol!Benchmarks, Pol!LoadVisualSplitPlan
  <2>4. QED
    BY <2>1, <2>2, <2>3
<1>3. ASSUME a = b, NEW d \in calibrated, NEW e \in evaluated
      PROVE  d.digest # e.digest /\ d.group # e.group
  <2>1. d.split = "calibration" /\ e.split = "evaluation"
    BY DEF Pol!Cut
  <2>2. \E i, j \in DOMAIN a : d = a[i] /\ e = a[j]
    BY <1>3 DEF Pol!Cut, Pol!ToSet
  <2>3. Pol!Isolated(d, e)
    BY <2>2 DEF Pol!Benchmarks, Pol!LoadVisualRegistry
  <2>4. QED
    BY <2>1, <2>3 DEF Pol!Isolated
<1>4. QED
  BY <1>2, <1>3

\* evaluate_visual.py and evaluate_visual_policy.py: no policy is evaluated on a case it was
\* calibrated on, whatever happens to the registries between the two runs.
THEOREM HeldOut == GatesSpec => []EvaluationIsHeldOut
BY HeldOutEvaluation, InputsStay, PTL

-----------------------------------------------------------------------------
(* Induction, by the least counterexample. *)

\* What holds of no element and of one more element holds of all natural numbers.
LEMMA CountingUp ==
    ASSUME NEW Good \in SUBSET Nat, 0 \in Good, \A n \in Good : n + 1 \in Good
    PROVE  Good = Nat
<1> DEFINE Bad == Nat \ Good
<1>1. SUFFICES ASSUME Bad # {} PROVE FALSE
  OBVIOUS
<1>2. Bad \in SUBSET Nat
  OBVIOUS
<1>3. PICK n \in Bad : \A m \in Bad : n <= m
  <2> HIDE DEF Bad
  <2> QED BY <1>1, <1>2, Smallest
<1>4. n \in Nat /\ n # 0
  OBVIOUS
<1>5. n - 1 \in Nat /\ n - 1 \notin Bad
  BY <1>3, <1>4
<1>6. n \in Good
  <2>1. (n - 1) + 1 = n
    BY <1>4
  <2>2. QED
    BY <1>5, <2>1
<1>7. QED
  BY <1>6

\* What holds of the empty set and of one element more holds of a finite set.
LEMMA AddingElements ==
    ASSUME NEW S, IsFiniteSet(S), NEW Good, {} \in Good,
           \A T \in SUBSET S : \A x \in S \ T : T \in Good => T \cup {x} \in Good
    PROVE  S \in Good
<1> DEFINE Fine == {n \in Nat : \A T \in SUBSET S : Cardinality(T) = n => T \in Good}
<1>1. \A T \in SUBSET S : IsFiniteSet(T) /\ Cardinality(T) \in Nat
  BY FS_Subset, FS_CardinalityType
<1>2. 0 \in Fine
  BY <1>1, FS_EmptySet
<1>3. ASSUME NEW n \in Fine PROVE n + 1 \in Fine
  <2> SUFFICES ASSUME NEW T \in SUBSET S, Cardinality(T) = n + 1 PROVE T \in Good
    BY <1>3
  <2>1. T # {}
    <3>1. n \in Nat /\ Cardinality({}) = 0
      BY FS_EmptySet
    <3>2. QED
      BY <3>1
  <2>2. PICK x \in T : TRUE
    BY <2>1
  <2>3. Cardinality(T \ {x}) = n
    BY <1>1, <1>3, FS_RemoveElement
  <2>4. T \ {x} \in Good
    BY <2>3, <1>3
  <2>5. (T \ {x}) \cup {x} = T /\ x \in S \ (T \ {x}) /\ T \ {x} \in SUBSET S
    OBVIOUS
  <2>6. QED
    BY <2>4, <2>5
<1>4. Fine = Nat
  <2>1. Fine \in SUBSET Nat
    OBVIOUS
  <2> HIDE DEF Fine
  <2> QED BY <1>2, <1>3, <2>1, CountingUp
<1>5. Cardinality(S) \in Fine
  BY <1>1, <1>4
<1>6. QED
  BY <1>5

-----------------------------------------------------------------------------
(* Sums. *)

Sum(f, S) == SumFunctionOnSet(f, S)
OneOf(s) == CHOOSE x \in s : TRUE

\* g is the fold of f over some subsets of S.
Folds(g, f, Subsets) ==
    g = [s \in Subsets |-> IF s = {} THEN 0 ELSE f[OneOf(s)] + g[s \ {OneOf(s)}]]

\* A sum is a fold over the subsets of its index set.
LEMMA SumIsAFold ==
    ASSUME NEW S, NEW f, NEW g, Folds(g, f, SUBSET S)
    PROVE  \E h : Folds(h, f, SUBSET S) /\ Sum(f, S) = h[S]
<1> DEFINE h == CHOOSE i : i = [s \in SUBSET S |-> IF s = {} THEN 0
                      ELSE f[CHOOSE x \in s : TRUE] + i[s \ {CHOOSE x \in s : TRUE}]]
<1>1. h = [s \in SUBSET S |-> IF s = {} THEN 0
                      ELSE f[CHOOSE x \in s : TRUE] + h[s \ {CHOOSE x \in s : TRUE}]]
  BY DEF Folds, OneOf
<1>2. Sum(f, S) = h[S]
  BY DEF Sum, SumFunctionOnSet, FoldFunctionOnSet, MapThenFoldSet
<1>3. QED
  BY <1>1, <1>2 DEF Folds, OneOf

\* The recursion has a solution,
LEMMA FoldExists ==
    ASSUME NEW S, IsFiniteSet(S), NEW f
    PROVE  \E g : Folds(g, f, SUBSET S)
<1> DEFINE UpTo(n) == {s \in SUBSET S : Cardinality(s) <= n}
           Good == {n \in Nat : \E g : Folds(g, f, UpTo(n))}
<1>0. \A T \in SUBSET S : IsFiniteSet(T) /\ Cardinality(T) \in Nat
  BY FS_Subset, FS_CardinalityType
<1>1. \A n \in Nat : \A s \in UpTo(n) : s # {} =>
          s \ {OneOf(s)} \in UpTo(n) /\ (n > 0 => s \ {OneOf(s)} \in UpTo(n - 1)) /\ n > 0
  <2> SUFFICES ASSUME NEW n \in Nat, NEW s \in UpTo(n), s # {}
               PROVE  s \ {OneOf(s)} \in UpTo(n) /\ (n > 0 => s \ {OneOf(s)} \in UpTo(n - 1)) /\ n > 0
    OBVIOUS
  <2>1. OneOf(s) \in s
    BY DEF OneOf
  <2>2. Cardinality(s \ {OneOf(s)}) = Cardinality(s) - 1 /\ Cardinality(s \ {OneOf(s)}) \in Nat
    BY <1>0, <2>1, FS_RemoveElement
  <2>3. Cardinality(s) \in Nat
    BY <1>0
  <2>4. QED
    BY <2>2, <2>3
<1>2. 0 \in Good
  <2> DEFINE h == [s \in UpTo(0) |-> 0]
  <2>1. \A s \in UpTo(0) : s = {}
    <3> HIDE DEF UpTo
    <3>1. \A s \in UpTo(0) : s # {} => 0 > 0
      BY <1>1
    <3>2. QED
      BY <3>1
  <2>2. h = [s \in UpTo(0) |-> IF s = {} THEN 0 ELSE f[OneOf(s)] + h[s \ {OneOf(s)}]]
    BY <2>1
  <2>3. Folds(h, f, UpTo(0))
    BY <2>2 DEF Folds
  <2> HIDE DEF h, UpTo
  <2>4. QED
    BY <2>3
<1>3. ASSUME NEW n \in Good PROVE n + 1 \in Good
  <2>0. n \in Nat
    OBVIOUS
  <2>1. PICK g : Folds(g, f, UpTo(n))
    OBVIOUS
  <2> DEFINE h == [s \in UpTo(n + 1) |-> IF s = {} THEN 0 ELSE f[OneOf(s)] + g[s \ {OneOf(s)}]]
  <2>2. UpTo(n) \subseteq UpTo(n + 1)
    BY <1>0, <2>0
  <2>3. \A s \in UpTo(n) : h[s] = g[s]
    <3> SUFFICES ASSUME NEW s \in UpTo(n) PROVE h[s] = g[s]
      OBVIOUS
    <3>1. g[s] = IF s = {} THEN 0 ELSE f[OneOf(s)] + g[s \ {OneOf(s)}]
      BY <2>1 DEF Folds
    <3>2. h[s] = IF s = {} THEN 0 ELSE f[OneOf(s)] + g[s \ {OneOf(s)}]
      BY <2>2
    <3>3. QED
      BY <3>1, <3>2
  <2>4. \A s \in UpTo(n + 1) : s # {} => s \ {OneOf(s)} \in UpTo(n)
    <3>1. n + 1 \in Nat /\ n + 1 > 0 /\ (n + 1) - 1 = n
      BY <2>0
    <3> HIDE DEF UpTo
    <3>2. QED
      BY <1>1, <3>1
  <2>5. Folds(h, f, UpTo(n + 1))
    <3> HIDE DEF UpTo
    <3>1. \A s \in UpTo(n + 1) : h[s] = IF s = {} THEN 0 ELSE f[OneOf(s)] + h[s \ {OneOf(s)}]
      BY <2>3, <2>4
    <3>2. h = [s \in UpTo(n + 1) |-> h[s]]
      OBVIOUS
    <3> HIDE DEF h
    <3>3. QED
      BY <3>1, <3>2 DEF Folds
  <2> HIDE DEF h, UpTo
  <2>6. QED
    BY <2>0, <2>5
<1>4. Good = Nat
  <2>1. Good \in SUBSET Nat
    OBVIOUS
  <2> HIDE DEF Good
  <2> QED BY <1>2, <1>3, <2>1, CountingUp
<1>5. PICK g : Folds(g, f, UpTo(Cardinality(S)))
  BY <1>0, <1>4
<1>6. UpTo(Cardinality(S)) = SUBSET S
  BY FS_Subset
<1>7. QED
  BY <1>5, <1>6

\* and only one, whatever the larger set it is about.
LEMMA FoldIsUnique ==
    ASSUME NEW S, IsFiniteSet(S), NEW R, S \subseteq R, NEW f, NEW g, NEW h,
           Folds(g, f, SUBSET R), Folds(h, f, SUBSET S)
    PROVE  g[S] = h[S]
<1> DEFINE Good == {n \in Nat : \A s \in SUBSET S : Cardinality(s) = n => g[s] = h[s]}
<1>0. \A T \in SUBSET S : IsFiniteSet(T) /\ Cardinality(T) \in Nat
  BY FS_Subset, FS_CardinalityType
<1>1. \A s \in SUBSET S : /\ g[s] = IF s = {} THEN 0 ELSE f[OneOf(s)] + g[s \ {OneOf(s)}]
                         /\ h[s] = IF s = {} THEN 0 ELSE f[OneOf(s)] + h[s \ {OneOf(s)}]
  <2>1. SUBSET S \subseteq SUBSET R
    OBVIOUS
  <2>2. QED
    BY <2>1 DEF Folds
<1>2. 0 \in Good
  <2>1. \A s \in SUBSET S : Cardinality(s) = 0 => s = {}
    BY <1>0, FS_EmptySet
  <2>2. QED
    BY <1>1, <2>1
<1>3. ASSUME NEW n \in Good PROVE n + 1 \in Good
  <2>0. n \in Nat
    OBVIOUS
  <2> SUFFICES ASSUME NEW s \in SUBSET S, Cardinality(s) = n + 1 PROVE g[s] = h[s]
    BY <2>0
  <2>1. CASE s = {}
    BY <1>1, <2>1
  <2>2. CASE s # {}
    <3>1. OneOf(s) \in s
      BY <2>2 DEF OneOf
    <3>a. IsFiniteSet(s)
      BY <1>0
    <3>b. Cardinality(s \ {OneOf(s)}) = Cardinality(s) - 1
      BY <3>a, <3>1, FS_RemoveElement
    <3>2. Cardinality(s \ {OneOf(s)}) = n
      BY <3>b, <2>0
    <3>3. s \ {OneOf(s)} \in SUBSET S
      OBVIOUS
    <3>4. g[s \ {OneOf(s)}] = h[s \ {OneOf(s)}]
      BY <3>2, <3>3
    <3>5. QED
      BY <1>1, <2>2, <3>4
  <2>3. QED
    BY <2>1, <2>2
<1>4. Good = Nat
  <2>1. Good \in SUBSET Nat
    OBVIOUS
  <2> HIDE DEF Good
  <2> QED BY <1>2, <1>3, <2>1, CountingUp
<1>5. Cardinality(S) \in Good
  BY <1>0, <1>4
<1>6. QED
  BY <1>5

\* So the sum satisfies its own equation.
LEMMA SumEquation ==
    ASSUME NEW S, IsFiniteSet(S), NEW f
    PROVE  Sum(f, S) = IF S = {} THEN 0 ELSE f[OneOf(S)] + Sum(f, S \ {OneOf(S)})
<1>1. PICK g : Folds(g, f, SUBSET S) /\ Sum(f, S) = g[S]
  BY FoldExists, SumIsAFold
<1>2. g[S] = IF S = {} THEN 0 ELSE f[OneOf(S)] + g[S \ {OneOf(S)}]
  <2>1. S \in SUBSET S
    OBVIOUS
  <2>2. QED
    BY <1>1, <2>1 DEF Folds
<1> DEFINE T == S \ {OneOf(S)}
<1>3. IsFiniteSet(T)
  BY FS_RemoveElement
<1>4. PICK h : Folds(h, f, SUBSET T) /\ Sum(f, T) = h[T]
  <2> HIDE DEF T
  <2> QED BY <1>3, FoldExists, SumIsAFold
<1>5. g[T] = h[T]
  <2>1. T \subseteq S
    OBVIOUS
  <2> HIDE DEF T
  <2> QED BY <1>1, <1>3, <1>4, <2>1, FoldIsUnique
<1>6. QED
  BY <1>1, <1>2, <1>4, <1>5

\* A sum of integers is one, a sum of naturals a natural.
LEMMA SumType ==
    ASSUME NEW S, IsFiniteSet(S), NEW f, \A x \in S : f[x] \in Int
    PROVE  /\ Sum(f, S) \in Int
           /\ (\A x \in S : f[x] >= 0) => Sum(f, S) >= 0
<1> DEFINE Good == {n \in Nat : \A T \in SUBSET S : Cardinality(T) = n =>
                      /\ Sum(f, T) \in Int
                      /\ (\A x \in S : f[x] >= 0) => Sum(f, T) >= 0}
<1>0. \A T \in SUBSET S : IsFiniteSet(T) /\ Cardinality(T) \in Nat
  BY FS_Subset, FS_CardinalityType
<1>a. \A T \in SUBSET S : Sum(f, T) = IF T = {} THEN 0 ELSE f[OneOf(T)] + Sum(f, T \ {OneOf(T)})
  BY <1>0, SumEquation
<1>2. 0 \in Good
  <2>1. \A T \in SUBSET S : Cardinality(T) = 0 => T = {}
    BY <1>0, FS_EmptySet
  <2>2. \A T \in SUBSET S : Cardinality(T) = 0 => Sum(f, T) = 0
    BY <1>a, <2>1
  <2>3. QED
    BY <2>2
<1>3. ASSUME NEW n \in Good PROVE n + 1 \in Good
  <2>0. n \in Nat /\ n + 1 \in Nat
    OBVIOUS
  <2> SUFFICES ASSUME NEW T \in SUBSET S, Cardinality(T) = n + 1
               PROVE  /\ Sum(f, T) \in Int
                      /\ (\A x \in S : f[x] >= 0) => Sum(f, T) >= 0
    BY <2>0
  <2>1. T # {}
    <3>1. Cardinality({}) = 0
      BY FS_EmptySet
    <3>2. QED
      BY <2>0, <3>1
  <2>2. OneOf(T) \in T
    BY <2>1 DEF OneOf
  <2>3. IsFiniteSet(T)
    BY <1>0
  <2>4. Cardinality(T \ {OneOf(T)}) = Cardinality(T) - 1
    BY <2>2, <2>3, FS_RemoveElement
  <2>5. Cardinality(T \ {OneOf(T)}) = n /\ T \ {OneOf(T)} \in SUBSET S
    BY <2>0, <2>4
  <2>6. /\ Sum(f, T \ {OneOf(T)}) \in Int
        /\ (\A x \in S : f[x] >= 0) => Sum(f, T \ {OneOf(T)}) >= 0
    BY <2>5
  <2> HIDE DEF Good
  <2>7. Sum(f, T) = f[OneOf(T)] + Sum(f, T \ {OneOf(T)})
    BY <1>a, <2>1
  <2>8. f[OneOf(T)] \in Int /\ ((\A x \in S : f[x] >= 0) => f[OneOf(T)] >= 0)
    BY <2>2
  <2>9. QED
    BY <2>6, <2>7, <2>8
<1>4. Good = Nat
  <2>1. Good \in SUBSET Nat
    OBVIOUS
  <2> HIDE DEF Good
  <2> QED BY <1>2, <1>3, <2>1, CountingUp
<1>5. Cardinality(S) \in Good
  BY <1>0, <1>4
<1>6. QED
  BY <1>5

\* The order of a sum does not matter.
LEMMA SumRemove ==
    ASSUME NEW S, IsFiniteSet(S), NEW f, \A x \in S : f[x] \in Int
    PROVE  \A x \in S : Sum(f, S) = f[x] + Sum(f, S \ {x})
<1> DEFINE Good == {n \in Nat : \A T \in SUBSET S : Cardinality(T) = n =>
                      \A x \in T : Sum(f, T) = f[x] + Sum(f, T \ {x})}
<1>0. \A T \in SUBSET S : IsFiniteSet(T) /\ Cardinality(T) \in Nat
  BY FS_Subset, FS_CardinalityType
<1>a. \A T \in SUBSET S : Sum(f, T) = IF T = {} THEN 0 ELSE f[OneOf(T)] + Sum(f, T \ {OneOf(T)})
  BY <1>0, SumEquation
<1>b. \A T \in SUBSET S : \A x \in T :
          Cardinality(T \ {x}) = Cardinality(T) - 1 /\ T \ {x} \in SUBSET S
  <2> SUFFICES ASSUME NEW T \in SUBSET S, NEW x \in T
               PROVE  Cardinality(T \ {x}) = Cardinality(T) - 1
    OBVIOUS
  <2>1. IsFiniteSet(T)
    BY <1>0
  <2>2. QED
    BY <2>1, FS_RemoveElement
<1>c. \A T \in SUBSET S : Sum(f, T) \in Int
  <2> SUFFICES ASSUME NEW T \in SUBSET S PROVE Sum(f, T) \in Int
    OBVIOUS
  <2>1. IsFiniteSet(T)
    BY <1>0
  <2>2. QED
    BY <2>1, SumType
<1>2. 0 \in Good
  <2>1. \A T \in SUBSET S : Cardinality(T) = 0 => T = {}
    BY <1>0, FS_EmptySet
  <2>2. QED
    BY <2>1
<1>3. ASSUME NEW n \in Good PROVE n + 1 \in Good
  <2>0. n \in Nat /\ n + 1 \in Nat
    OBVIOUS
  <2> SUFFICES ASSUME NEW T \in SUBSET S, Cardinality(T) = n + 1
               PROVE  \A x \in T : Sum(f, T) = f[x] + Sum(f, T \ {x})
    BY <2>0
  <2>a. \A U \in SUBSET S : Cardinality(U) = n => \A x \in U : Sum(f, U) = f[x] + Sum(f, U \ {x})
    OBVIOUS
  <2> DEFINE c == OneOf(T)
  <2>1. T # {}
    <3>1. Cardinality({}) = 0
      BY FS_EmptySet
    <3>2. QED
      BY <2>0, <3>1
  <2>2. c \in T
    BY <2>1 DEF OneOf
  <2>3. Sum(f, T) = f[c] + Sum(f, T \ {c})
    BY <1>a, <2>1
  <2> HIDE DEF Good, c
  <2>4. \A x \in T : Cardinality(T \ {x}) = n
    BY <1>b, <2>0
  <2>6. ASSUME NEW x \in T, x # c PROVE Sum(f, T) = f[x] + Sum(f, T \ {x})
    <3>1. Sum(f, T \ {c}) = f[x] + Sum(f, (T \ {c}) \ {x})
      BY <2>2, <2>4, <2>6, <2>a, <1>b
    <3>2. Sum(f, T \ {x}) = f[c] + Sum(f, (T \ {x}) \ {c})
      BY <2>2, <2>4, <2>6, <2>a, <1>b
    <3>3. (T \ {c}) \ {x} = (T \ {x}) \ {c}
      OBVIOUS
    <3> DEFINE rest == Sum(f, (T \ {x}) \ {c})
    <3>4. rest \in Int
      BY <1>c
    <3> HIDE DEF rest
    <3>5. Sum(f, T) = f[c] + (f[x] + rest) /\ Sum(f, T \ {x}) = f[c] + rest
      BY <2>3, <3>1, <3>2, <3>3 DEF rest
    <3>6. f[c] \in Int /\ f[x] \in Int
      BY <2>2
    <3>7. QED
      BY <3>4, <3>5, <3>6
  <2>7. QED
    BY <2>3, <2>6
<1>4. Good = Nat
  <2>1. Good \in SUBSET Nat
    OBVIOUS
  <2> HIDE DEF Good
  <2> QED BY <1>2, <1>3, <2>1, CountingUp
<1>5. Cardinality(S) \in Good
  BY <1>0, <1>4
<1>6. QED
  BY <1>5

\* One more term.
LEMMA SumAdd ==
    ASSUME NEW S, IsFiniteSet(S), NEW f, \A x \in S : f[x] \in Int,
           NEW T \in SUBSET S, NEW x \in S \ T
    PROVE  Sum(f, T \cup {x}) = f[x] + Sum(f, T)
<1>1. IsFiniteSet(T \cup {x}) /\ \A y \in T \cup {x} : f[y] \in Int
  BY FS_Subset
<1>2. x \in T \cup {x} /\ (T \cup {x}) \ {x} = T
  OBVIOUS
<1>3. Sum(f, T \cup {x}) = f[x] + Sum(f, (T \cup {x}) \ {x})
  BY <1>1, <1>2, SumRemove
<1>4. QED
  BY <1>2, <1>3

\* No term.
LEMMA SumEmpty == ASSUME NEW f PROVE Sum(f, {}) = 0
BY SumEquation, FS_EmptySet

\* A sum of smaller terms is smaller.
LEMMA SumMonotone ==
    ASSUME NEW S, IsFiniteSet(S), NEW f, NEW g,
           \A x \in S : f[x] \in Int /\ g[x] \in Int /\ f[x] <= g[x]
    PROVE  Sum(f, S) <= Sum(g, S)
<1> DEFINE Good == {T \in SUBSET S : Sum(f, T) <= Sum(g, T)}
<1>1. {} \in Good
  BY SumEmpty
<1>2. ASSUME NEW T \in SUBSET S, NEW x \in S \ T, T \in Good PROVE T \cup {x} \in Good
  <2>1. Sum(f, T \cup {x}) = f[x] + Sum(f, T) /\ Sum(g, T \cup {x}) = g[x] + Sum(g, T)
    BY SumAdd
  <2>2. IsFiniteSet(T)
    BY FS_Subset
  <2>3. Sum(f, T) \in Int /\ Sum(g, T) \in Int
    BY <2>2, SumType
  <2>4. Sum(f, T \cup {x}) <= Sum(g, T \cup {x})
    BY <2>1, <2>3, <1>2
  <2>5. QED
    BY <2>4
<1>3. S \in Good
  <2> HIDE DEF Good
  <2> QED BY <1>1, <1>2, AddingElements
<1>4. QED
  BY <1>3

\* Equal terms have equal sums.
LEMMA SumEqual ==
    ASSUME NEW S, IsFiniteSet(S), NEW f, NEW g,
           \A x \in S : f[x] \in Int /\ f[x] = g[x]
    PROVE  Sum(f, S) = Sum(g, S)
<1>1. Sum(f, S) <= Sum(g, S) /\ Sum(g, S) <= Sum(f, S)
  BY SumMonotone
<1>2. Sum(f, S) \in Int /\ Sum(g, S) \in Int
  BY SumType
<1>3. QED
  BY <1>1, <1>2

\* A sum of terms of at most b.
LEMMA SumBound ==
    ASSUME NEW S, IsFiniteSet(S), NEW f, NEW b \in Int, \A x \in S : f[x] \in Int /\ f[x] <= b
    PROVE  Sum(f, S) <= b * Cardinality(S)
<1> DEFINE Good == {T \in SUBSET S : Sum(f, T) <= b * Cardinality(T)}
<1>0. \A T \in SUBSET S : IsFiniteSet(T) /\ Cardinality(T) \in Nat
  BY FS_Subset, FS_CardinalityType
<1>1. {} \in Good
  BY SumEmpty, FS_EmptySet
<1>2. ASSUME NEW T \in SUBSET S, NEW x \in S \ T, T \in Good PROVE T \cup {x} \in Good
  <2>1. Sum(f, T \cup {x}) = f[x] + Sum(f, T)
    BY SumAdd
  <2>2. IsFiniteSet(T) /\ Cardinality(T) \in Nat
    BY <1>0
  <2>3. Sum(f, T) \in Int
    BY <2>2, SumType
  <2>4. Cardinality(T \cup {x}) = Cardinality(T) + 1
    BY <2>2, FS_AddElement
  <2>5. b * (Cardinality(T) + 1) = b * Cardinality(T) + b /\ b * Cardinality(T) \in Int
    BY <2>2
  <2>6. Sum(f, T) <= b * Cardinality(T) /\ f[x] \in Int /\ f[x] <= b
    BY <1>2
  <2> HIDE DEF Good
  <2>7. f[x] + Sum(f, T) <= b * Cardinality(T) + b
    BY <2>3, <2>5, <2>6
  <2>8. QED
    BY <2>1, <2>4, <2>5, <2>7 DEF Good
<1>3. S \in Good
  <2> HIDE DEF Good
  <2> QED BY <1>1, <1>2, AddingElements
<1>4. QED
  BY <1>3

-----------------------------------------------------------------------------
(* Registries and ledgers. *)

\* What a registry that loads says of two documents and of one.
LEMMA DocumentsAreIsolated ==
    ASSUME NEW loaded, Pol!LoadVisualRegistry(loaded, FALSE),
           NEW d \in Pol!ToSet(loaded), NEW e \in Pol!ToSet(loaded)
    PROVE  /\ d.id = e.id => d = e
           /\ d.group = e.group => d.split = e.split
           /\ d.digest = e.digest => d.split = e.split
<1>1. PICK i \in DOMAIN loaded : d = loaded[i]
  BY DEF Pol!ToSet
<1>2. PICK j \in DOMAIN loaded : e = loaded[j]
  BY DEF Pol!ToSet
<1>3. (loaded[i].id = loaded[j].id => i = j) /\ Pol!Isolated(loaded[i], loaded[j])
  BY DEF Pol!LoadVisualRegistry
<1>4. QED
  BY <1>1, <1>2, <1>3 DEF Pol!Isolated

\* Each of them parses, and held-out ones are reviewed.
LEMMA DocumentsParse ==
    ASSUME NEW loaded, Pol!LoadVisualRegistry(loaded, FALSE), NEW d \in Pol!ToSet(loaded)
    PROVE  /\ d.split \in Pol!HeldOut => d.review.status = "reviewed"
           /\ \E c \in Pol!CaseSet(d) : c.label = Pol!Positive
           /\ \A c, k \in Pol!CaseSet(d) : c.id = k.id => c = k
<1>1. Pol!DocumentParses(d) /\ Pol!Admits(d, FALSE)
  BY DEF Pol!LoadVisualRegistry
<1>2. \E c \in Pol!CaseSet(d) : c.label = Pol!Positive
  <2>1. {p.region : p \in Pol!Positives(d)} = Pol!RegionTypes /\ "table" \in Pol!RegionTypes
    BY <1>1 DEF Pol!DocumentParses, Pol!RegionTypes
  <2>2. QED
    BY <2>1 DEF Pol!Positives
<1>3. \A c, k \in Pol!CaseSet(d) : c.id = k.id => c = k
  BY <1>1 DEF Pol!DocumentParses, Pol!CaseSet, Pol!ToSet
<1>4. QED
  BY <1>1, <1>2, <1>3 DEF Pol!Admits

\* visual_registry.py and visual_metrics.py: a registry that loads can be evaluated.
LEMMA LoadedRegistries == ASSUME GatesInit PROVE LoadedRegistriesEvaluate
<1> SUFFICES ASSUME subject = "registry", Pol!LoadVisualRegistry(input, FALSE)
             PROVE  LET documents == ToSet(input)
                        scores == [id \in Pol!CaseIds(documents) |-> Unit]
                        predictions == Pol!BindPredictionScores(documents, scores)
                        Has(split) == \E d \in documents : d.split = split
                    IN  /\ Has("calibration") => Pol!Freezes(predictions)
                        /\ Has("evaluation") => Pol!Evaluates(predictions)
                        /\ \A d \in documents : d.split \in Pol!HeldOut => d.review.status = "reviewed"
                        /\ \A d, e \in documents :
                              d.digest = e.digest \/ d.group = e.group => d.split = e.split
  BY DEF LoadedRegistriesEvaluate
<1> DEFINE documents == ToSet(input)
           scores == [id \in Pol!CaseIds(documents) |-> Unit]
           predictions == Pol!BindPredictionScores(documents, scores)
           Line(d, c) == [case |-> <<d.id, c.id>>, group |-> d.group, split |-> d.split,
                          label |-> c.label, score |-> scores[<<d.id, c.id>>]]
<1>1. documents = Pol!ToSet(input)
  BY DEF ToSet, Pol!ToSet
<1>2. /\ \A d, e \in documents :
            /\ d.id = e.id => d = e
            /\ d.group = e.group => d.split = e.split
            /\ d.digest = e.digest => d.split = e.split
      /\ \A d \in documents :
            /\ d.split \in Pol!HeldOut => d.review.status = "reviewed"
            /\ \E c \in Pol!CaseSet(d) : c.label = Pol!Positive
            /\ \A c, k \in Pol!CaseSet(d) : c.id = k.id => c = k
  <2> HIDE DEF documents
  <2>1. \A d, e \in documents :
            /\ d.id = e.id => d = e
            /\ d.group = e.group => d.split = e.split
            /\ d.digest = e.digest => d.split = e.split
    <3> SUFFICES ASSUME NEW d \in documents, NEW e \in documents
                 PROVE  /\ d.id = e.id => d = e
                        /\ d.group = e.group => d.split = e.split
                        /\ d.digest = e.digest => d.split = e.split
      OBVIOUS
    <3>1. d \in Pol!ToSet(input) /\ e \in Pol!ToSet(input)
      BY <1>1
    <3>2. QED
      BY <3>1, DocumentsAreIsolated
  <2>2. \A d \in documents :
            /\ d.split \in Pol!HeldOut => d.review.status = "reviewed"
            /\ \E c \in Pol!CaseSet(d) : c.label = Pol!Positive
            /\ \A c, k \in Pol!CaseSet(d) : c.id = k.id => c = k
    BY <1>1, DocumentsParse
  <2>3. QED
    BY <2>1, <2>2
<1> HIDE DEF documents, scores
<1>3. \A p \in predictions : \E d \in documents : \E c \in Pol!CaseSet(d) : p = Line(d, c)
  <2> SUFFICES ASSUME NEW p \in predictions
               PROVE  \E d \in documents : \E c \in Pol!CaseSet(d) : p = Line(d, c)
    OBVIOUS
  <2>1. PICK e \in Pol!Cases(documents) :
           p = [case |-> <<e[1].id, e[2].id>>, group |-> e[1].group, split |-> e[1].split,
                label |-> e[2].label, score |-> scores[<<e[1].id, e[2].id>>]]
    BY DEF Pol!BindPredictionScores
  <2>2. PICK d \in documents : \E c \in Pol!CaseSet(d) : e = <<d, c>>
    BY DEF Pol!Cases
  <2>3. PICK c \in Pol!CaseSet(d) : e = <<d, c>>
    BY <2>2
  <2>4. p = Line(d, c)
    BY <2>1, <2>3
  <2>5. QED
    BY <2>4
<1>4. \A d \in documents : \A c \in Pol!CaseSet(d) : Line(d, c) \in predictions
  <2> SUFFICES ASSUME NEW d \in documents, NEW c \in Pol!CaseSet(d)
               PROVE  Line(d, c) \in predictions
    OBVIOUS
  <2>1. <<d, c>> \in Pol!Cases(documents)
    BY DEF Pol!Cases
  <2>2. <<d, c>>[1] = d /\ <<d, c>>[2] = c
    OBVIOUS
  <2>3. predictions = {[case |-> <<e[1].id, e[2].id>>, group |-> e[1].group, split |-> e[1].split,
                        label |-> e[2].label, score |-> scores[<<e[1].id, e[2].id>>]] :
                          e \in Pol!Cases(documents)}
    BY DEF Pol!BindPredictionScores
  <2>4. QED
    BY <2>1, <2>2, <2>3
<1> HIDE DEF predictions
<1>5. ASSUME predictions # {} PROVE Pol!Validated(predictions)
  <2>1. ASSUME NEW p \in predictions, NEW q \in predictions
        PROVE  (p.case = q.case => p = q) /\ (p.group = q.group => p.split = q.split)
    <3>1. PICK d \in documents : \E c \in Pol!CaseSet(d) : p = Line(d, c)
      BY <1>3
    <3>2. PICK c \in Pol!CaseSet(d) : p = Line(d, c)
      BY <3>1
    <3>3. PICK e \in documents : \E c2 \in Pol!CaseSet(e) : q = Line(e, c2)
      BY <1>3
    <3>4. PICK k \in Pol!CaseSet(e) : q = Line(e, k)
      BY <3>3
    <3>5. /\ p.case = <<d.id, c.id>> /\ p.group = d.group /\ p.split = d.split
          /\ q.case = <<e.id, k.id>> /\ q.group = e.group /\ q.split = e.split
      BY <3>2, <3>4
    <3>6. p.case = q.case => p = q
      <4>1. p.case = q.case => d.id = e.id /\ c.id = k.id
        BY <3>5
      <4>2. QED
        BY <4>1, <1>2, <3>2, <3>4
    <3>7. QED
      BY <3>5, <3>6, <1>2
  <2>2. QED
    BY <1>5, <2>1 DEF Pol!Validated
<1>6. ASSUME NEW d \in documents
      PROVE  \E p \in predictions : p.split = d.split /\ p.label = Pol!Positive
  <2>1. PICK c \in Pol!CaseSet(d) : c.label = Pol!Positive
    BY <1>2
  <2>2. Line(d, c).split = d.split /\ Line(d, c).label = c.label
    OBVIOUS
  <2>3. QED
    BY <1>4, <2>1, <2>2
<1>7. ASSUME NEW d \in documents, d.split = "calibration" PROVE Pol!Freezes(predictions)
  <2>1. PICK p \in predictions : p.split = "calibration" /\ p.label = Pol!Positive
    BY <1>6, <1>7
  <2>2. QED
    BY <1>5, <2>1 DEF Pol!Freezes, Pol!Of
<1>8. ASSUME NEW d \in documents, d.split = "evaluation" PROVE Pol!Evaluates(predictions)
  <2>1. PICK p \in predictions : p.split = "evaluation"
    BY <1>6, <1>8
  <2>2. QED
    BY <1>5, <2>1 DEF Pol!Evaluates, Pol!Of
<1>9. QED
  BY <1>2, <1>7, <1>8 DEF documents, scores, predictions

\* Disjoint parts are counted one by one.
LEMMA DisjointParts ==
    ASSUME NEW S, IsFiniteSet(S), NEW K, IsFiniteSet(K), NEW Part \in [K -> SUBSET S],
           \A k, m \in K : k # m => Part[k] \cap Part[m] = {},
           NEW f, \A k \in K : f[k] = Cardinality(Part[k])
    PROVE  Sum(f, K) = Cardinality(UNION {Part[k] : k \in K})
<1> DEFINE Whole(T) == UNION {Part[k] : k \in T}
           Good == {T \in SUBSET K : Sum(f, T) = Cardinality(Whole(T))}
<1>0. \A T \in SUBSET K : IsFiniteSet(Whole(T)) /\ Cardinality(Whole(T)) \in Nat
  <2> SUFFICES ASSUME NEW T \in SUBSET K PROVE IsFiniteSet(Whole(T)) /\ Cardinality(Whole(T)) \in Nat
    OBVIOUS
  <2>1. Whole(T) \in SUBSET S
    OBVIOUS
  <2> HIDE DEF Whole
  <2>2. QED
    BY <2>1, FS_Subset, FS_CardinalityType
<1>1. \A k \in K : IsFiniteSet(Part[k]) /\ f[k] \in Int
  <2> SUFFICES ASSUME NEW k \in K PROVE IsFiniteSet(Part[k]) /\ f[k] \in Int
    OBVIOUS
  <2>1. IsFiniteSet(Part[k])
    BY FS_Subset
  <2>2. QED
    BY <2>1, FS_CardinalityType
<1>2. {} \in Good
  <2>1. Whole({}) = {}
    OBVIOUS
  <2> HIDE DEF Whole
  <2>2. QED
    BY <2>1, SumEmpty, FS_EmptySet
<1>3. ASSUME NEW T \in SUBSET K, NEW k \in K \ T, T \in Good PROVE T \cup {k} \in Good
  <2>1. Sum(f, T \cup {k}) = f[k] + Sum(f, T)
    BY <1>1, SumAdd
  <2>2. Whole(T \cup {k}) = Whole(T) \cup Part[k]
    OBVIOUS
  <2>3. Whole(T) \cap Part[k] = {}
    OBVIOUS
  <2>4. Sum(f, T) = Cardinality(Whole(T))
    BY <1>3
  <2> HIDE DEF Whole
  <2>5. Cardinality(Whole(T) \cup Part[k]) = Cardinality(Whole(T)) + Cardinality(Part[k]) - Cardinality({})
    BY <1>0, <1>1, <2>3, FS_Union
  <2>6. Cardinality({}) = 0
    BY FS_EmptySet
  <2>7. Cardinality(Whole(T \cup {k})) = f[k] + Sum(f, T)
    <3>1. Cardinality(Whole(T)) \in Nat /\ Cardinality(Part[k]) \in Int /\ f[k] = Cardinality(Part[k])
      BY <1>0, <1>1
    <3>2. QED
      <4> DEFINE w == Cardinality(Whole(T))
                 p == Cardinality(Part[k])
      <4>1. Cardinality(Whole(T \cup {k})) = w + p - 0
        BY <2>2, <2>5, <2>6
      <4>2. w \in Nat /\ p \in Int /\ f[k] = p /\ Sum(f, T) = w
        BY <3>1, <2>4
      <4> HIDE DEF w, p
      <4>3. QED
        BY <4>1, <4>2
  <2>8. QED
    BY <2>1, <2>7
<1>4. K \in Good
  <2> HIDE DEF Good
  <2> QED BY <1>2, <1>3, AddingElements
<1>5. QED
  BY <1>4

\* A list has as many places as it is long.
LEMMA ListPlaces ==
    ASSUME NEW s, IsList(s)
    PROVE  /\ Len(s) \in Nat /\ DOMAIN s = 1..Len(s)
           /\ IsFiniteSet(DOMAIN s) /\ Cardinality(DOMAIN s) = Len(s)
<1>1. Len(s) \in Nat /\ DOMAIN s = 1..Len(s)
  BY DEF IsList
<1>2. 1 \in Int /\ Len(s) \in Int /\ (1 > Len(s) <=> Len(s) = 0) /\ Len(s) - 1 + 1 = Len(s)
  BY <1>1
<1>3. IsFiniteSet(1..Len(s)) /\ Cardinality(1..Len(s)) = IF 1 > Len(s) THEN 0 ELSE Len(s) - 1 + 1
  BY <1>2, FS_Interval
<1>4. QED
  BY <1>1, <1>2, <1>3

\* corpus_coverage.py: the ledger counts each document once.
LEMMA LedgersAddUp == ASSUME GatesInit PROVE TheLedgerAddsUp
<1> SUFFICES ASSUME subject = "ledger", Pol!LoadVisualRegistry(input.registry, FALSE),
                    Pol!LoadCoveragePolicy(input.policy),
                    Pol!AuditAccepts(input.registry, input.policy)
             PROVE  LET ledger == Pol!AuditCorpusCoverage(input.registry, input.policy, <<>>)
                    IN  /\ SumFunction(ledger.strata) = ledger.documents
                        /\ SumFunction(ledger.review) = ledger.documents
                        /\ SumFunction(ledger.splits) <= ledger.documents
  BY DEF TheLedgerAddsUp
<1> DEFINE docs == input.registry
           plan == input.policy
           n == Len(docs)
           S == DOMAIN docs
           Kinds == {"human", "agent", "unreviewed"}
           Strata == [i \in DOMAIN plan.strata |-> {j \in S : docs[j].category \in plan.strata[i]}]
           Reviewed == [k \in Kinds |-> {j \in S : Pol!ReviewKind(docs[j]) = k}]
           InSplit == [s \in plan.splits |-> {j \in S : docs[j].split = s}]
           strata == [i \in DOMAIN plan.strata |-> Cardinality(Strata[i])]
           review == [k \in Kinds |-> Cardinality(Reviewed[k])]
           splits == [s \in plan.splits |-> Cardinality(InSplit[s])]
           ledger == Pol!AuditCorpusCoverage(docs, plan, <<>>)
<1>1. ledger.documents = n /\ ledger.strata = strata /\ ledger.review = review /\ ledger.splits = splits
  BY PolCardinality DEF Pol!AuditCorpusCoverage
<1>2. IsList(docs) /\ IsList(plan.strata) /\ IsFiniteSet(plan.splits)
  BY LedgerAssumption DEF GatesInit, InputsOf
<1> HIDE DEF docs, plan
<1>3. n \in Nat /\ IsFiniteSet(S) /\ Cardinality(S) = n /\ IsFiniteSet(DOMAIN plan.strata)
  BY <1>2, ListPlaces
<1>4. Sum(strata, DOMAIN plan.strata) = n
  <2>1. UNION {Strata[i] : i \in DOMAIN plan.strata} = S
    <3>1. ASSUME NEW j \in S PROVE \E i \in DOMAIN plan.strata : j \in Strata[i]
      <4>1. docs[j] \in Pol!ToSet(docs)
        BY DEF Pol!ToSet
      <4>2. docs[j].category \in UNION Pol!Range(plan.strata)
        BY <4>1 DEF Pol!AuditAccepts, docs, plan
      <4>3. QED
        BY <4>2 DEF Pol!Range
    <3>2. \A i \in DOMAIN plan.strata : Strata[i] \subseteq S
      OBVIOUS
    <3> HIDE DEF Strata, S
    <3>3. QED
      BY <3>1, <3>2
  <2>2. Strata \in [DOMAIN plan.strata -> SUBSET S]
    OBVIOUS
  <2>3. \A i, m \in DOMAIN plan.strata : i # m => Strata[i] \cap Strata[m] = {}
    BY DEF Pol!LoadCoveragePolicy, plan
  <2>4. \A i \in DOMAIN plan.strata : strata[i] = Cardinality(Strata[i])
    OBVIOUS
  <2> HIDE DEF Strata, strata, S
  <2>5. QED
    BY <1>3, <2>1, <2>2, <2>3, <2>4, DisjointParts
<1>5. Sum(review, Kinds) = n
  <2>0. \A d : Pol!ReviewKind(d) \in Kinds
    BY DEF Pol!ReviewKind
  <2>1. UNION {Reviewed[k] : k \in Kinds} = S
    BY <2>0
  <2>2. Reviewed \in [Kinds -> SUBSET S]
    OBVIOUS
  <2>3. \A k, m \in Kinds : k # m => Reviewed[k] \cap Reviewed[m] = {}
    OBVIOUS
  <2>4. \A k \in Kinds : review[k] = Cardinality(Reviewed[k])
    OBVIOUS
  <2>5. IsFiniteSet(Kinds)
    <3>1. IsFiniteSet({"human"})
      BY FS_Singleton
    <3>2. IsFiniteSet({"human"} \cup {"agent"})
      BY <3>1, FS_AddElement
    <3>3. IsFiniteSet(({"human"} \cup {"agent"}) \cup {"unreviewed"})
      BY <3>2, FS_AddElement
    <3>4. ({"human"} \cup {"agent"}) \cup {"unreviewed"} = Kinds
      OBVIOUS
    <3>5. QED
      BY <3>3, <3>4
  <2> HIDE DEF Reviewed, review, S, Kinds
  <2>6. QED
    BY <1>3, <2>1, <2>2, <2>3, <2>4, <2>5, DisjointParts
<1>6. Sum(splits, plan.splits) <= n
  <2>1. UNION {InSplit[s] : s \in plan.splits} \in SUBSET S
    OBVIOUS
  <2>2. InSplit \in [plan.splits -> SUBSET S]
    OBVIOUS
  <2>3. \A k, m \in plan.splits : k # m => InSplit[k] \cap InSplit[m] = {}
    OBVIOUS
  <2>4. \A k \in plan.splits : splits[k] = Cardinality(InSplit[k])
    OBVIOUS
  <2> HIDE DEF InSplit, splits, S
  <2>5. Sum(splits, plan.splits) = Cardinality(UNION {InSplit[s] : s \in plan.splits})
    BY <1>2, <1>3, <2>2, <2>3, <2>4, DisjointParts
  <2>6. QED
    BY <1>3, <2>1, <2>5, FS_Subset
<1>7. /\ SumFunction(strata) = Sum(strata, DOMAIN plan.strata)
      /\ SumFunction(review) = Sum(review, Kinds)
      /\ SumFunction(splits) = Sum(splits, plan.splits)
  BY DEF SumFunction, Sum
<1>8. QED
  BY <1>1, <1>4, <1>5, <1>6, <1>7 DEF docs, plan

\* What a registry that loads is good for (visual_registry.py, corpus_coverage.py).
THEOREM ServedRegistries == GatesSpec => []RegistriesServe
<1>1. GatesInit => RegistriesServe
  BY LoadedRegistries, LedgersAddUp DEF RegistriesServe
<1>2. QED
  BY <1>1, InputsStay, PTL

-----------------------------------------------------------------------------
(* The best of a set, and what a query rescores. *)

\* As for the policy, each instance has its own copies.
LEMMA HybCopies ==
    \A S : Hyb!Cardinality(S) = Cardinality(S) /\ Hyb!Min(S) = Min(S) /\ Hyb!ToSet(S) = ToSet(S)
BY DEF Hyb!Cardinality, Cardinality, Hyb!IsFiniteSet, IsFiniteSet, Hyb!Min, Min, Hyb!ToSet, ToSet

\* The lesser of two numbers.
LEMMA LesserOf ==
    ASSUME NEW a \in Int, NEW b \in Int
    PROVE  Min({a, b}) = IF a <= b THEN a ELSE b
BY DEF Min

\* The places of a sorted set.
LEMMA AheadIsStrict ==
    ASSUME NEW S, IsFiniteSet(S), S \subseteq Int, NEW score, \A x \in S : score[x] \in Int
    PROVE  /\ \A x \in S : Hyb!Ahead(S, score, x) \in 0..(Cardinality(S) - 1)
           /\ \A x, y \in S : Hyb!Better(score, x, y) =>
                 Hyb!Ahead(S, score, x) < Hyb!Ahead(S, score, y)
           /\ \A x, y \in S : x # y => Hyb!Better(score, x, y) \/ Hyb!Better(score, y, x)
<1> DEFINE Above(x) == {y \in S : Hyb!Better(score, y, x)}
<1>1. \A x \in S : /\ IsFiniteSet(Above(x)) /\ Above(x) \in SUBSET S /\ x \notin Above(x)
                  /\ Hyb!Ahead(S, score, x) = Cardinality(Above(x))
  <2> SUFFICES ASSUME NEW x \in S
               PROVE  /\ IsFiniteSet(Above(x)) /\ Above(x) \in SUBSET S /\ x \notin Above(x)
                      /\ Hyb!Ahead(S, score, x) = Cardinality(Above(x))
    OBVIOUS
  <2>1. Above(x) \in SUBSET S /\ x \notin Above(x)
    BY DEF Hyb!Better
  <2>2. IsFiniteSet(Above(x))
    <3> HIDE DEF Above
    <3> QED BY <2>1, FS_Subset
  <2>3. QED
    BY <2>1, <2>2, HybCopies DEF Hyb!Ahead
<1>2. ASSUME NEW x \in S PROVE Hyb!Ahead(S, score, x) \in 0..(Cardinality(S) - 1)
  <2>1. IsFiniteSet(S \ {x}) /\ Cardinality(S \ {x}) = Cardinality(S) - 1 /\ Cardinality(S \ {x}) \in Nat
    BY FS_RemoveElement, FS_CardinalityType
  <2>2. Above(x) \in SUBSET (S \ {x}) /\ IsFiniteSet(Above(x))
    BY <1>1
  <2>3. Hyb!Ahead(S, score, x) = Cardinality(Above(x))
    BY <1>1
  <2> HIDE DEF Above
  <2>4. Cardinality(Above(x)) <= Cardinality(S \ {x}) /\ Cardinality(Above(x)) \in Nat
    BY <2>1, <2>2, FS_Subset, FS_CardinalityType
  <2>5. QED
    BY <2>1, <2>3, <2>4
<1>3. ASSUME NEW x \in S, NEW y \in S, Hyb!Better(score, x, y)
      PROVE  Hyb!Ahead(S, score, x) < Hyb!Ahead(S, score, y)
  <2>1. Above(x) \cup {x} \in SUBSET Above(y)
    <3>1. score[x] \in Int /\ score[y] \in Int /\ x \in Int /\ y \in Int
      OBVIOUS
    <3>2. ASSUME NEW z \in Above(x) PROVE z \in Above(y)
      <4>1. z \in S /\ score[z] \in Int /\ z \in Int
        OBVIOUS
      <4>2. QED
        BY <1>3, <3>1, <4>1 DEF Hyb!Better
    <3>3. x \in Above(y)
      BY <1>3
    <3>4. QED
      BY <3>2, <3>3
  <2>2. /\ IsFiniteSet(Above(x)) /\ IsFiniteSet(Above(y)) /\ x \notin Above(x)
        /\ Hyb!Ahead(S, score, x) = Cardinality(Above(x))
        /\ Hyb!Ahead(S, score, y) = Cardinality(Above(y))
    BY <1>1
  <2> HIDE DEF Above
  <2>3. Cardinality(Above(x) \cup {x}) = Cardinality(Above(x)) + 1
    BY <2>2, FS_AddElement
  <2>4. Cardinality(Above(x) \cup {x}) <= Cardinality(Above(y))
    BY <2>1, <2>2, FS_Subset
  <2>5. Cardinality(Above(x)) \in Nat /\ Cardinality(Above(y)) \in Nat
    BY <2>2, FS_CardinalityType
  <2>6. QED
    BY <2>2, <2>3, <2>4, <2>5
<1>4. \A x, y \in S : x # y => Hyb!Better(score, x, y) \/ Hyb!Better(score, y, x)
  BY DEF Hyb!Better
<1>5. QED
  BY <1>2, <1>3, <1>4

\* The r-th of the sorted set has r - 1 ahead of it.
LEMMA SortedPlaces ==
    ASSUME NEW S, IsFiniteSet(S), S \subseteq Int, NEW score, \A x \in S : score[x] \in Int,
           NEW r \in 1..Cardinality(S)
    PROVE  Hyb!Sorted(S, score)[r] \in S /\ Hyb!Ahead(S, score, Hyb!Sorted(S, score)[r]) = r - 1
<1> DEFINE places == 0..(Cardinality(S) - 1)
           ahead == [x \in S |-> Hyb!Ahead(S, score, x)]
<1>0. Cardinality(S) \in Nat
  BY FS_CardinalityType
<1>1. IsFiniteSet(places) /\ Cardinality(places) = Cardinality(S)
  <2>1. Cardinality(S) - 1 \in Int /\ 0 \in Int
    BY <1>0
  <2>2. IsFiniteSet(places) /\ Cardinality(places) = IF 0 > Cardinality(S) - 1 THEN 0 ELSE (Cardinality(S) - 1) - 0 + 1
    BY <2>1, FS_Interval
  <2>3. QED
    BY <1>0, <2>2
<1>2. ahead \in Injection(S, places)
  <2>1. ahead \in [S -> places]
    BY AheadIsStrict
  <2>2. \A x, y \in S : ahead[x] = ahead[y] => x = y
    <3>1. \A x, y \in S : x # y => ahead[x] < ahead[y] \/ ahead[y] < ahead[x]
      BY AheadIsStrict
    <3>2. \A x \in S : ahead[x] \in Int
      BY <2>1, <1>0
    <3> HIDE DEF ahead
    <3>3. QED
      BY <3>1, <3>2
  <2> HIDE DEF ahead, places
  <2>3. QED
    BY <2>1, <2>2 DEF Injection, IsInjective
<1>3. ahead \in Surjection(S, places)
  <2> HIDE DEF ahead, places
  <2>1. QED
    BY <1>1, <1>2, FS_Injection
<1>4. r - 1 \in places
  BY <1>0
<1>5. \E x \in S : Hyb!Ahead(S, score, x) = r - 1
  <2> HIDE DEF places
  <2>1. QED
    BY <1>3, <1>4 DEF Surjection
<1>6. Hyb!Sorted(S, score)[r] = CHOOSE x \in S : Hyb!Ahead(S, score, x) = r - 1
  BY HybCopies DEF Hyb!Sorted
<1>7. QED
  BY <1>5, <1>6

\* The n best are those with fewer than n ahead, each at its place.
LEMMA BestIsCut ==
    ASSUME NEW S, IsFiniteSet(S), S \subseteq Int, NEW score, \A x \in S : score[x] \in Int,
           NEW n \in Nat
    PROVE  LET best == Hyb!Best(S, score, n)
           IN  /\ Cardinality(S) \in Nat
               /\ Len(best) = IF n <= Cardinality(S) THEN n ELSE Cardinality(S)
               /\ DOMAIN best = 1..Len(best)
               /\ \A i \in 1..Len(best) : best[i] = Hyb!Sorted(S, score)[i]
<1> DEFINE sorted == Hyb!Sorted(S, score)
           best == Hyb!Best(S, score, n)
           m == IF n <= Cardinality(S) THEN n ELSE Cardinality(S)
<1>0. Cardinality(S) \in Nat
  BY FS_CardinalityType
<1>1. \A i \in 1..Cardinality(S) : sorted[i] \in S
  BY SortedPlaces
<1>2. sorted \in Seq(S) /\ Len(sorted) = Cardinality(S)
  <2>1. sorted = [i \in 1..Cardinality(S) |-> sorted[i]]
    BY HybCopies DEF Hyb!Sorted
  <2> HIDE DEF sorted
  <2>2. sorted \in [1..Cardinality(S) -> S]
    BY <2>1, <1>1
  <2>3. QED
    BY <2>2, <1>0
<1>3. best = SubSeq(sorted, 1, m)
  BY <1>0, LesserOf, HybCopies DEF Hyb!Best
<1>4. m \in Nat /\ m <= Len(sorted)
  BY <1>0, <1>2
<1> HIDE DEF sorted, best, m
<1>5. Len(best) = m /\ DOMAIN best = 1..m /\ \A i \in 1..m : best[i] = sorted[i]
  BY <1>2, <1>3, <1>4
<1>6. QED
  BY <1>0, <1>5 DEF best, m, sorted

\* Of the n best, the i-th has i - 1 ahead of it,
LEMMA BestAreSorted ==
    ASSUME NEW S, IsFiniteSet(S), S \subseteq Int, NEW score, \A x \in S : score[x] \in Int,
           NEW n \in Nat, NEW i \in 1..Len(Hyb!Best(S, score, n))
    PROVE  /\ Hyb!Best(S, score, n)[i] \in S
           /\ Hyb!Ahead(S, score, Hyb!Best(S, score, n)[i]) = i - 1
<1> DEFINE m == Len(Hyb!Best(S, score, n))
<1>1. m = (IF n <= Cardinality(S) THEN n ELSE Cardinality(S)) /\ Cardinality(S) \in Nat
  BY BestIsCut
<1>2. Hyb!Best(S, score, n)[i] = Hyb!Sorted(S, score)[i]
  BY BestIsCut
<1>3. i \in 1..m
  OBVIOUS
<1> HIDE DEF m
<1>4. i \in 1..Cardinality(S)
  BY <1>1, <1>3
<1>5. Hyb!Sorted(S, score)[i] \in S /\ Hyb!Ahead(S, score, Hyb!Sorted(S, score)[i]) = i - 1
  BY <1>4, SortedPlaces
<1>6. QED
  BY <1>2, <1>5

\* and whatever has fewer than n ahead is among them.
LEMMA BestAreIn ==
    ASSUME NEW S, IsFiniteSet(S), S \subseteq Int, NEW score, \A x \in S : score[x] \in Int,
           NEW n \in Nat, NEW x \in S, Hyb!Ahead(S, score, x) < n
    PROVE  /\ Hyb!Ahead(S, score, x) + 1 \in 1..Len(Hyb!Best(S, score, n))
           /\ Hyb!Best(S, score, n)[Hyb!Ahead(S, score, x) + 1] = x
<1> DEFINE best == Hyb!Best(S, score, n)
           Ahead(y) == Hyb!Ahead(S, score, y)
           b == best[Ahead(x) + 1]
<1>1. Len(best) = (IF n <= Cardinality(S) THEN n ELSE Cardinality(S)) /\ Cardinality(S) \in Nat
  BY BestIsCut
<1>2. Ahead(x) \in 0..(Cardinality(S) - 1)
  BY AheadIsStrict
<1> HIDE DEF Ahead, best
<1>3. Ahead(x) + 1 \in 1..Len(best) /\ Ahead(x) \in Int
  BY <1>1, <1>2 DEF Ahead
<1>4. b \in S /\ Ahead(b) = (Ahead(x) + 1) - 1
  BY <1>3, BestAreSorted DEF best, Ahead
<1>5. \A y \in S : y # x => Ahead(y) < Ahead(x) \/ Ahead(x) < Ahead(y)
  BY AheadIsStrict DEF Ahead
<1> HIDE DEF b
<1>6. b = x
  <2>1. Ahead(b) = Ahead(x)
    BY <1>3, <1>4
  <2>2. b # x => Ahead(b) < Ahead(x) \/ Ahead(x) < Ahead(b)
    BY <1>4, <1>5
  <2>3. QED
    BY <1>3, <2>1, <2>2
<1>7. QED
  BY <1>3, <1>6 DEF b, best, Ahead

\* A ranking holds every region at one place, the better one before.
LEMMA RankPlaces ==
    ASSUME NEW pack, IsList(pack.regions), NEW score, \A r \in DOMAIN pack.regions : score[r] \in Int
    PROVE  LET order == Hyb!Rank(pack, score)
           IN  /\ \A r \in DOMAIN pack.regions :
                     /\ Hyb!Place(order, r) \in 1..Len(pack.regions)
                     /\ order[Hyb!Place(order, r)] = r
               /\ \A r, s \in DOMAIN pack.regions :
                     score[r] > score[s] => Hyb!Place(order, r) < Hyb!Place(order, s)
<1> DEFINE S == DOMAIN pack.regions
           n == Len(pack.regions)
           order == Hyb!Rank(pack, score)
           Ahead(x) == Hyb!Ahead(S, score, x)
<1>1. n \in Nat /\ S = 1..n /\ IsFiniteSet(S) /\ Cardinality(S) = n
  BY ListPlaces
<1>2. S \subseteq Int /\ \A r \in S : score[r] \in Int
  BY <1>1
<1>3. order = Hyb!Best(S, score, n)
  BY DEF Hyb!Rank
<1> HIDE DEF S, n, order
<1>4. /\ DOMAIN order = 1..n
      /\ \A i \in 1..n : order[i] \in S /\ Ahead(order[i]) = i - 1
      /\ \A x \in S : Ahead(x) < n => Ahead(x) + 1 \in 1..n /\ order[Ahead(x) + 1] = x
  <2>1. Len(order) = n /\ DOMAIN order = 1..n
    <3>1. Len(order) = (IF n <= Cardinality(S) THEN n ELSE Cardinality(S))
      BY <1>1, <1>2, <1>3, BestIsCut
    <3>2. DOMAIN order = 1..Len(order)
      BY <1>1, <1>2, <1>3, BestIsCut
    <3>3. QED
      BY <1>1, <3>1, <3>2
  <2>2. \A i \in 1..n : order[i] \in S /\ Ahead(order[i]) = i - 1
    BY <1>1, <1>2, <1>3, <2>1, BestAreSorted
  <2>3. \A x \in S : Ahead(x) < n => Ahead(x) + 1 \in 1..n /\ order[Ahead(x) + 1] = x
    BY <1>1, <1>2, <1>3, <2>1, BestAreIn
  <2>4. QED
    BY <2>1, <2>2, <2>3
<1>5. \A x \in S : Ahead(x) \in 0..(n - 1)
  BY <1>1, <1>2, AheadIsStrict
<1>6. ASSUME NEW r \in S
      PROVE  Hyb!Place(order, r) = Ahead(r) + 1 /\ order[Hyb!Place(order, r)] = r
  <2>1. Ahead(r) \in 0..(n - 1) /\ Ahead(r) + 1 \in DOMAIN order /\ order[Ahead(r) + 1] = r
    <3>1. Ahead(r) \in 0..(n - 1)
      BY <1>5
    <3>2. Ahead(r) < n
      BY <1>1, <3>1
    <3>3. QED
      BY <1>4, <3>1, <3>2
  <2>2. Hyb!Place(order, r) \in DOMAIN order /\ order[Hyb!Place(order, r)] = r
    BY <2>1 DEF Hyb!Place
  <2>3. Ahead(r) = Hyb!Place(order, r) - 1
    BY <1>4, <2>2
  <2>4. Hyb!Place(order, r) \in Int
    BY <1>1, <1>4, <2>2
  <2>5. QED
    BY <2>1, <2>2, <2>3, <2>4
<1>7. ASSUME NEW r \in S, NEW s \in S, score[r] > score[s]
      PROVE  Hyb!Place(order, r) < Hyb!Place(order, s)
  <2>1. Hyb!Better(score, r, s)
    BY <1>7 DEF Hyb!Better
  <2>2. Ahead(r) < Ahead(s)
    BY <1>1, <1>2, <2>1, AheadIsStrict
  <2>3. Ahead(r) \in Int /\ Ahead(s) \in Int
    BY <1>1, <1>5
  <2>4. QED
    BY <1>6, <2>2, <2>3
<1>8. ASSUME NEW r \in S PROVE Hyb!Place(order, r) \in 1..n
  <2>1. Ahead(r) \in 0..(n - 1) /\ Hyb!Place(order, r) = Ahead(r) + 1
    BY <1>5, <1>6
  <2> HIDE DEF Ahead
  <2>2. QED
    BY <1>1, <2>1
<1>9. QED
  BY <1>6, <1>7, <1>8 DEF S, n, order

\* The reciprocals of two places differ.
LEMMA PlacesDiffer ==
    ASSUME NEW a \in Nat, NEW b \in Nat, 60 < a, a < b, b <= 10060
    PROVE  /\ 2000000000 \div a \in Nat /\ 2000000000 \div b \in Nat
           /\ 0 < 2000000000 \div b /\ 2000000000 \div b < 2000000000 \div a
<1> DEFINE u == 2000000000
           q == u \div b
           p == u \div a
<1>1. q \in Int /\ p \in Int /\ b * q <= u /\ u < b * q + b /\ a * p <= u /\ u < a * p + a
  OBVIOUS
<1> HIDE DEF q, p
<1>2. q >= b
  <2> SUFFICES ASSUME q < b PROVE FALSE
    BY <1>1
  <2>1. q + 1 <= b
    BY <1>1
  <2>2. b * (q + 1) <= b * b
    BY <1>1, <2>1
  <2>3. b * b <= 10060 * 10060
    OBVIOUS
  <2>4. b * (q + 1) = b * q + b
    BY <1>1
  <2>5. QED
    BY <1>1, <2>2, <2>3, <2>4
<1>3. q < p
  <2> SUFFICES ASSUME p <= q PROVE FALSE
    BY <1>1
  <2>1. a * p + a <= (b - 1) * p + (b - 1)
    <3>1. a * (p + 1) <= (b - 1) * (p + 1)
      <4>1. p + 1 >= 0
        BY <1>1
      <4>2. a <= b - 1
        OBVIOUS
      <4>3. QED
        BY <4>1, <4>2, <1>1
    <3>2. a * (p + 1) = a * p + a /\ (b - 1) * (p + 1) = (b - 1) * p + (b - 1)
      BY <1>1
    <3>3. QED
      BY <3>1, <3>2
  <2>2. (b - 1) * p <= (b - 1) * q
    BY <1>1
  <2>3. (b - 1) * q = b * q - q
    BY <1>1
  <2>4. (b - 1) * p \in Int /\ b * q \in Int /\ a * p \in Int
    BY <1>1
  <2>5. QED
    BY <1>1, <1>2, <2>1, <2>2, <2>3, <2>4
<1>4. QED
  BY <1>1, <1>2, <1>3 DEF p, q

\* A reciprocal counts within the first topN places only.
LEMMA Reciprocals ==
    ASSUME NEW order, NEW r, NEW topN \in Nat, topN <= 10000, Hyb!Place(order, r) \in Nat \ {0}
    PROVE  /\ Hyb!Reciprocal(order, r, topN) \in Nat
           /\ Hyb!Reciprocal(order, r, topN) > 0 <=> Hyb!Place(order, r) <= topN
<1> DEFINE p == Hyb!Place(order, r)
<1>1. CASE p > topN
  BY <1>1 DEF Hyb!Reciprocal
<1>2. CASE p <= topN
  <2>1. 60 + p \in Nat /\ 60 < 60 + p /\ 60 + p <= 10060
    BY <1>2
  <2>2. Hyb!Reciprocal(order, r, topN) = 2000000000 \div (60 + p)
    BY <1>2 DEF Hyb!Reciprocal, Hyb!FusedUnit, Hyb!RrfK
  <2>3. \A d \in Nat : 60 < d /\ d <= 10060 => 2000000000 \div d \in Nat /\ 2000000000 \div d > 0
    OBVIOUS
  <2>4. QED
    BY <1>2, <2>1, <2>2, <2>3
<1>3. QED
  BY <1>1, <1>2

\* An earlier place is worth more.
LEMMA EarlierIsMore ==
    ASSUME NEW order, NEW r, NEW s, NEW topN \in Nat, topN <= 10000, Hyb!Place(order, r) \in Nat \ {0},
           Hyb!Place(order, s) \in Nat \ {0}, Hyb!Place(order, r) < Hyb!Place(order, s)
    PROVE  /\ Hyb!Reciprocal(order, r, topN) >= Hyb!Reciprocal(order, s, topN)
           /\ Hyb!Reciprocal(order, s, topN) > 0 =>
                 Hyb!Reciprocal(order, r, topN) > Hyb!Reciprocal(order, s, topN)
<1> DEFINE p == Hyb!Place(order, r)
           q == Hyb!Place(order, s)
<1>1. CASE q > topN
  <2>1. Hyb!Reciprocal(order, s, topN) = 0
    BY <1>1 DEF Hyb!Reciprocal
  <2>2. QED
    BY <2>1, Reciprocals
<1>2. CASE q <= topN
  <2>1. 60 + p \in Nat /\ 60 + q \in Nat /\ 60 < 60 + p /\ 60 + p < 60 + q /\ 60 + q <= 10060
    BY <1>2
  <2>2. /\ Hyb!Reciprocal(order, r, topN) = 2000000000 \div (60 + p)
        /\ Hyb!Reciprocal(order, s, topN) = 2000000000 \div (60 + q)
    BY <1>2 DEF Hyb!Reciprocal, Hyb!FusedUnit, Hyb!RrfK
  <2>3. 2000000000 \div (60 + q) < 2000000000 \div (60 + p)
    BY <2>1, PlacesDiffer
  <2>4. QED
    BY <2>2, <2>3, Reciprocals
<1>3. QED
  BY <1>1, <1>2

\* The image of a finite set.
LEMMA ImageOf ==
    ASSUME NEW S, IsFiniteSet(S), NEW f
    PROVE  IsFiniteSet({f[x] : x \in S}) /\ Cardinality({f[x] : x \in S}) <= Cardinality(S)
<1> DEFINE g == [x \in S |-> f[x]]
           T == {f[x] : x \in S}
<1>1. g \in Surjection(S, T)
  BY DEF Surjection
<1> HIDE DEF g, T
<1>2. IsFiniteSet(T) /\ Cardinality(T) <= Cardinality(S)
  BY <1>1, FS_Surjection
<1>3. QED
  BY <1>2 DEF T

\* What a query promises of its answer.
RescoresTheBest(pack, lexical, dense, exact, routed, bounds) ==
    LET regions == pack.regions
        result == Hyb!HybridQuery(pack, lexical, dense, exact, routed, bounds)
        Routed(r) == regions[r].type \in routed
        Precedes(r, s) == /\ lexical[r] > lexical[s]
                          /\ dense[r] > dense[s]
                          /\ Routed(s) => Routed(r)
    IN  /\ \A s \in result.candidates, r \in DOMAIN regions :
              Precedes(r, s) => r \in result.candidates
        /\ Cardinality(result.considered) <= 2 * bounds.topN
        /\ bounds.maxsimK = Len(regions) =>
              \A i \in 1..Len(result.hits), r \in DOMAIN regions :
                  exact[r] > exact[result.hits[i]] =>
                      \E j \in 1..(i - 1) : result.hits[j] = r

\* hybrid_query.py: a query keeps the promise.
LEMMA QueriesRescoreTheBest ==
    ASSUME NEW pack, IsList(pack.regions), NEW lexical \in [DOMAIN pack.regions -> Int],
           NEW dense \in [DOMAIN pack.regions -> Int], NEW exact \in [DOMAIN pack.regions -> Int],
           NEW routed, NEW bounds, Hyb!Bounded(bounds, pack)
    PROVE  RescoresTheBest(pack, lexical, dense, exact, routed, bounds)
<1> DEFINE S == DOMAIN pack.regions
           n == Len(pack.regions)
           topN == bounds.topN
           k == bounds.maxsimK
           byWords == Hyb!Rank(pack, lexical)
           byVector == Hyb!Rank(pack, dense)
           ofWords(r) == Hyb!Reciprocal(byWords, r, topN)
           ofVector(r) == Hyb!Reciprocal(byVector, r, topN)
           fused == [r \in S |-> ofWords(r) + ofVector(r)]
           considered == {r \in S : fused[r] > 0}
           Bonus(r) == IF pack.regions[r].type \in routed THEN Hyb!RoutedBonus ELSE 0
           prior == [r \in considered |-> fused[r] + Bonus(r)]
           candidates == Hyb!Best(considered, prior, k)
           chosen == ToSet(candidates)
           hits == Hyb!Best(chosen, exact, bounds.limit)
           result == Hyb!HybridQuery(pack, lexical, dense, exact, routed, bounds)
<1>1. /\ n \in Nat /\ S = 1..n /\ IsFiniteSet(S) /\ Cardinality(S) = n /\ S \subseteq Int
      /\ \A r \in S : lexical[r] \in Int /\ dense[r] \in Int /\ exact[r] \in Int
  BY ListPlaces
<1>2. topN \in Nat /\ topN >= 1 /\ topN <= 10000 /\ topN <= n /\ k \in 1..topN /\ bounds.limit \in 1..k
  <2>1. /\ topN \in 1..Hyb!Min({10000, n})
        /\ k \in 1..Hyb!Min({1000, topN}) /\ bounds.limit \in 1..k
    BY DEF Hyb!Bounded, Hyb!MaxTopN, Hyb!MaxMaxsimK
  <2>2. Hyb!Min({10000, n}) = IF 10000 <= n THEN 10000 ELSE n
    BY <1>1, LesserOf, HybCopies
  <2>3. topN \in Int
    BY <2>1
  <2>4. Hyb!Min({1000, topN}) = IF 1000 <= topN THEN 1000 ELSE topN
    BY <2>3, LesserOf, HybCopies
  <2>5. n \in Nat
    BY <1>1
  <2> HIDE DEF n, topN, k
  <2>6. QED
    BY <2>1, <2>2, <2>3, <2>4, <2>5
<1>3. result.considered = considered /\ result.candidates = chosen /\ result.hits = hits
  BY HybCopies DEF Hyb!HybridQuery
<1>a. n \in Nat /\ S = 1..n /\ IsFiniteSet(S) /\ Cardinality(S) = n /\ S \subseteq Int
  BY <1>1
<1>b. \A r \in S : lexical[r] \in Int /\ dense[r] \in Int /\ exact[r] \in Int
  BY <1>1
<1>4. \A r \in S : /\ Hyb!Place(byWords, r) \in 1..n /\ byWords[Hyb!Place(byWords, r)] = r
                  /\ Hyb!Place(byVector, r) \in 1..n /\ byVector[Hyb!Place(byVector, r)] = r
  BY <1>b, RankPlaces
<1>c. \A r, s \in S :
         /\ lexical[r] > lexical[s] => Hyb!Place(byWords, r) < Hyb!Place(byWords, s)
         /\ dense[r] > dense[s] => Hyb!Place(byVector, r) < Hyb!Place(byVector, s)
  BY <1>b, RankPlaces
<1> HIDE DEF result, S, n, topN, k, byWords, byVector
<1>5. \A r \in S : /\ Hyb!Place(byWords, r) \in Nat \ {0} /\ Hyb!Place(byVector, r) \in Nat \ {0}
  <2> SUFFICES ASSUME NEW r \in S
               PROVE  Hyb!Place(byWords, r) \in Nat \ {0} /\ Hyb!Place(byVector, r) \in Nat \ {0}
    OBVIOUS
  <2>1. Hyb!Place(byWords, r) \in 1..n /\ Hyb!Place(byVector, r) \in 1..n
    BY <1>4
  <2>2. QED
    BY <1>a, <2>1
<1>6. \A r \in S : /\ ofWords(r) \in Nat /\ ofVector(r) \in Nat
                  /\ (ofWords(r) > 0 <=> Hyb!Place(byWords, r) <= topN)
                  /\ (ofVector(r) > 0 <=> Hyb!Place(byVector, r) <= topN)
  <2> SUFFICES ASSUME NEW r \in S
               PROVE  /\ ofWords(r) \in Nat /\ ofVector(r) \in Nat
                      /\ (ofWords(r) > 0 <=> Hyb!Place(byWords, r) <= topN)
                      /\ (ofVector(r) > 0 <=> Hyb!Place(byVector, r) <= topN)
    OBVIOUS
  <2>1. topN \in Nat /\ topN <= 10000
    BY <1>2
  <2>2. Hyb!Place(byWords, r) \in Nat \ {0} /\ Hyb!Place(byVector, r) \in Nat \ {0}
    BY <1>5
  <2>3. ofWords(r) \in Nat /\ (ofWords(r) > 0 <=> Hyb!Place(byWords, r) <= topN)
    BY <2>1, <2>2, Reciprocals
  <2>4. ofVector(r) \in Nat /\ (ofVector(r) > 0 <=> Hyb!Place(byVector, r) <= topN)
    BY <2>1, <2>2, Reciprocals
  <2> HIDE DEF ofWords, ofVector
  <2>5. QED
    BY <2>3, <2>4
<1>7. \A r, s \in S :
         /\ lexical[r] > lexical[s] => ofWords(r) >= ofWords(s) /\ (ofWords(s) > 0 => ofWords(r) > ofWords(s))
         /\ dense[r] > dense[s] => ofVector(r) >= ofVector(s) /\ (ofVector(s) > 0 => ofVector(r) > ofVector(s))
  <2> SUFFICES ASSUME NEW r \in S, NEW s \in S
               PROVE  /\ lexical[r] > lexical[s] =>
                            ofWords(r) >= ofWords(s) /\ (ofWords(s) > 0 => ofWords(r) > ofWords(s))
                      /\ dense[r] > dense[s] =>
                            ofVector(r) >= ofVector(s) /\ (ofVector(s) > 0 => ofVector(r) > ofVector(s))
    OBVIOUS
  <2>1. topN \in Nat /\ topN <= 10000
    BY <1>2
  <2>2. /\ Hyb!Place(byWords, r) \in Nat \ {0} /\ Hyb!Place(byVector, r) \in Nat \ {0}
        /\ Hyb!Place(byWords, s) \in Nat \ {0} /\ Hyb!Place(byVector, s) \in Nat \ {0}
    BY <1>5
  <2>3. ASSUME lexical[r] > lexical[s]
        PROVE  ofWords(r) >= ofWords(s) /\ (ofWords(s) > 0 => ofWords(r) > ofWords(s))
    <3>1. Hyb!Place(byWords, r) < Hyb!Place(byWords, s)
      BY <1>c, <2>3
    <3>2. QED
      BY <2>1, <2>2, <3>1, EarlierIsMore
  <2>4. ASSUME dense[r] > dense[s]
        PROVE  ofVector(r) >= ofVector(s) /\ (ofVector(s) > 0 => ofVector(r) > ofVector(s))
    <3>1. Hyb!Place(byVector, r) < Hyb!Place(byVector, s)
      BY <1>c, <2>4
    <3>2. QED
      BY <2>1, <2>2, <3>1, EarlierIsMore
  <2> HIDE DEF ofWords, ofVector
  <2>5. QED
    BY <2>3, <2>4
<1> HIDE DEF ofWords, ofVector
<1>8. \A r \in S : fused[r] = ofWords(r) + ofVector(r) /\ fused[r] \in Nat
  <2> SUFFICES ASSUME NEW r \in S PROVE fused[r] = ofWords(r) + ofVector(r) /\ fused[r] \in Nat
    OBVIOUS
  <2>1. ofWords(r) \in Nat /\ ofVector(r) \in Nat
    BY <1>6
  <2>2. fused[r] = ofWords(r) + ofVector(r)
    OBVIOUS
  <2> HIDE DEF fused
  <2>3. QED
    BY <2>1, <2>2
<1>9. \A r, s \in S : lexical[r] > lexical[s] /\ dense[r] > dense[s] /\ fused[s] > 0 => fused[r] > fused[s]
  <2> HIDE DEF fused
  <2> SUFFICES ASSUME NEW r \in S, NEW s \in S, lexical[r] > lexical[s], dense[r] > dense[s], fused[s] > 0
               PROVE  fused[r] > fused[s]
    OBVIOUS
  <2>1. /\ ofWords(s) \in Nat /\ ofVector(s) \in Nat /\ ofWords(r) \in Nat /\ ofVector(r) \in Nat
        /\ fused[s] = ofWords(s) + ofVector(s) /\ fused[r] = ofWords(r) + ofVector(r)
    BY <1>6, <1>8
  <2>2. /\ ofWords(r) >= ofWords(s) /\ (ofWords(s) > 0 => ofWords(r) > ofWords(s))
        /\ ofVector(r) >= ofVector(s) /\ (ofVector(s) > 0 => ofVector(r) > ofVector(s))
    BY <1>7
  <2>3. QED
    BY <2>1, <2>2
<1> HIDE DEF fused
<1>10. /\ considered \in SUBSET S /\ IsFiniteSet(considered) /\ considered \subseteq Int
       /\ Cardinality(considered) \in Nat /\ Cardinality(considered) <= n
  <2>1. considered \in SUBSET S
    OBVIOUS
  <2> HIDE DEF considered
  <2>2. QED
    BY <1>1, <2>1, FS_Subset, FS_CardinalityType
<1>11. \A r \in considered : prior[r] = fused[r] + Bonus(r) /\ prior[r] \in Int /\ Bonus(r) \in Nat
  BY <1>8 DEF Hyb!RoutedBonus
<1>12. \A r, s \in S : (pack.regions[s].type \in routed => pack.regions[r].type \in routed) => Bonus(r) >= Bonus(s)
  BY DEF Hyb!RoutedBonus
<1>13. /\ DOMAIN candidates = 1..Len(candidates) /\ Len(candidates) \in Nat
       /\ \A i \in DOMAIN candidates : candidates[i] \in considered /\ Hyb!Ahead(considered, prior, candidates[i]) = i - 1
       /\ \A x \in considered : Hyb!Ahead(considered, prior, x) < k =>
             /\ Hyb!Ahead(considered, prior, x) + 1 \in DOMAIN candidates
             /\ candidates[Hyb!Ahead(considered, prior, x) + 1] = x
       /\ Len(candidates) <= k
  <2> HIDE DEF considered, prior
  <2>1. k \in Nat
    BY <1>2
  <2>2. \A r \in considered : prior[r] \in Int
    BY <1>11
  <2>0. IsFiniteSet(considered) /\ considered \subseteq Int /\ Cardinality(considered) \in Nat
    BY <1>10
  <2>3. Len(candidates) = IF k <= Cardinality(considered) THEN k ELSE Cardinality(considered)
    BY <2>0, <2>1, <2>2, BestIsCut
  <2>4. Len(candidates) <= k
    BY <2>0, <2>1, <2>3
  <2>5. DOMAIN candidates = 1..Len(candidates) /\ Len(candidates) \in Nat
    <3>1. DOMAIN candidates = 1..Len(candidates)
      BY <2>0, <2>1, <2>2, BestIsCut
    <3>2. QED
      BY <2>0, <2>1, <2>3, <3>1
  <2>6. \A i \in DOMAIN candidates :
            candidates[i] \in considered /\ Hyb!Ahead(considered, prior, candidates[i]) = i - 1
    <3> SUFFICES ASSUME NEW i \in 1..Len(candidates)
                 PROVE  candidates[i] \in considered /\ Hyb!Ahead(considered, prior, candidates[i]) = i - 1
      BY <2>5
    <3>1. QED
      BY <2>0, <2>1, <2>2, BestAreSorted
  <2>7. \A x \in considered : Hyb!Ahead(considered, prior, x) < k =>
            /\ Hyb!Ahead(considered, prior, x) + 1 \in DOMAIN candidates
            /\ candidates[Hyb!Ahead(considered, prior, x) + 1] = x
    BY <2>0, <2>1, <2>2, <2>5, BestAreIn
  <2> HIDE DEF candidates
  <2>8. QED
    BY <2>4, <2>5, <2>6, <2>7
<1>14. \A x \in considered : Hyb!Ahead(considered, prior, x) \in 0..(Cardinality(considered) - 1)
  <2> HIDE DEF considered, prior
  <2>1. \A r \in considered : prior[r] \in Int
    BY <1>11
  <2>2. QED
    BY <1>10, <2>1, AheadIsStrict
<1>15. \A x \in considered : x \in chosen <=> Hyb!Ahead(considered, prior, x) < k
  <2> HIDE DEF considered, prior, candidates
  <2> SUFFICES ASSUME NEW x \in considered
               PROVE  x \in chosen <=> Hyb!Ahead(considered, prior, x) < k
    OBVIOUS
  <2> DEFINE a == Hyb!Ahead(considered, prior, x)
  <2>1. ASSUME x \in chosen PROVE a < k
    <3>1. PICK i \in DOMAIN candidates : x = candidates[i]
      BY <2>1 DEF ToSet
    <3>2. a = i - 1 /\ i \in 1..Len(candidates)
      BY <1>13, <3>1
    <3> HIDE DEF a
    <3>3. k \in Int
      BY <1>2
    <3>4. QED
      BY <1>13, <3>2, <3>3
  <2>2. ASSUME a < k PROVE x \in chosen
    BY <1>13, <2>2 DEF ToSet
  <2>3. QED
    BY <2>1, <2>2
<1>16. chosen \in SUBSET considered /\ IsFiniteSet(chosen) /\ chosen \subseteq Int
  <2>1. chosen \in SUBSET considered
    BY <1>13 DEF ToSet
  <2> HIDE DEF considered, chosen
  <2>2. QED
    BY <1>10, <2>1, FS_Subset
<1>17. ASSUME NEW s \in chosen, NEW r \in S, lexical[r] > lexical[s], dense[r] > dense[s],
              pack.regions[s].type \in routed => pack.regions[r].type \in routed
       PROVE  r \in chosen
  <2>1. s \in considered /\ s \in S /\ fused[s] > 0
    BY <1>16
  <2>2. fused[r] > fused[s]
    BY <1>9, <1>17, <2>1
  <2>3. r \in considered
    BY <1>8, <2>1, <2>2
  <2>4. prior[r] > prior[s]
    <3>1. Bonus(r) >= Bonus(s)
      BY <1>12, <1>17, <2>1
    <3>2. fused[r] \in Int /\ fused[s] \in Int /\ Bonus(r) \in Int /\ Bonus(s) \in Int
      <4>1. fused[r] \in Nat /\ fused[s] \in Nat
        BY <1>8, <2>1
      <4>2. Bonus(r) \in Nat /\ Bonus(s) \in Nat
        BY <1>11, <2>1, <2>3
      <4>3. QED
        BY <4>1, <4>2
    <3>3. prior[r] = fused[r] + Bonus(r) /\ prior[s] = fused[s] + Bonus(s)
      BY <1>11, <2>1, <2>3
    <3> HIDE DEF prior, Bonus
    <3>4. QED
      BY <2>2, <3>1, <3>2, <3>3
  <2> HIDE DEF considered, prior, chosen
  <2>5. Hyb!Ahead(considered, prior, r) < Hyb!Ahead(considered, prior, s)
    <3>1. Hyb!Better(prior, r, s)
      BY <2>4 DEF Hyb!Better
    <3>2. \A x \in considered : prior[x] \in Int
      BY <1>11
    <3>3. QED
      BY <1>10, <2>1, <2>3, <3>1, <3>2, AheadIsStrict
  <2>6. Hyb!Ahead(considered, prior, s) < k
    BY <1>15, <1>17, <2>1
  <2>7. Hyb!Ahead(considered, prior, r) \in Int /\ Hyb!Ahead(considered, prior, s) \in Int /\ k \in Int
    BY <1>2, <1>10, <1>14, <2>1, <2>3
  <2>8. QED
    BY <1>15, <2>3, <2>5, <2>6, <2>7
<1>18. Cardinality(considered) <= 2 * topN
  <2> DEFINE W == {byWords[i] : i \in 1..topN}
             V == {byVector[i] : i \in 1..topN}
  <2>1. considered \subseteq W \cup V
    <3> SUFFICES ASSUME NEW r \in considered PROVE r \in W \cup V
      OBVIOUS
    <3>0. r \in S /\ fused[r] > 0
      OBVIOUS
    <3> HIDE DEF considered, W, V
    <3>a. /\ ofWords(r) \in Nat /\ ofVector(r) \in Nat /\ fused[r] = ofWords(r) + ofVector(r)
          /\ Hyb!Place(byWords, r) \in Nat \ {0} /\ Hyb!Place(byVector, r) \in Nat \ {0}
          /\ (ofWords(r) > 0 <=> Hyb!Place(byWords, r) <= topN)
          /\ (ofVector(r) > 0 <=> Hyb!Place(byVector, r) <= topN)
      BY <1>5, <1>6, <1>8, <3>0
    <3>b. topN \in Nat
      BY <1>2
    <3>1. ofWords(r) > 0 \/ ofVector(r) > 0
      BY <3>0, <3>a
    <3> USE DEF W, V
    <3>2. CASE ofWords(r) > 0
      <4>1. Hyb!Place(byWords, r) \in 1..topN /\ byWords[Hyb!Place(byWords, r)] = r
        BY <1>4, <3>0, <3>a, <3>b, <3>2
      <4>2. QED
        BY <4>1
    <3>3. CASE ofVector(r) > 0
      <4>1. Hyb!Place(byVector, r) \in 1..topN /\ byVector[Hyb!Place(byVector, r)] = r
        BY <1>4, <3>0, <3>a, <3>b, <3>3
      <4>2. QED
        BY <4>1
    <3>4. QED
      BY <3>1, <3>2, <3>3
  <2>2. IsFiniteSet(1..topN) /\ Cardinality(1..topN) = topN
    <3>1. topN \in Int /\ topN >= 1
      BY <1>2
    <3>2. IsFiniteSet(1..topN) /\ Cardinality(1..topN) = IF 1 > topN THEN 0 ELSE topN - 1 + 1
      BY <3>1, FS_Interval
    <3>3. QED
      BY <3>1, <3>2
  <2>3. IsFiniteSet(W) /\ Cardinality(W) <= topN
    BY <2>2, ImageOf
  <2>4. IsFiniteSet(V) /\ Cardinality(V) <= topN
    BY <2>2, ImageOf
  <2> HIDE DEF W, V, considered
  <2>5. /\ IsFiniteSet(W \cup V)
        /\ Cardinality(W \cup V) = Cardinality(W) + Cardinality(V) - Cardinality(W \cap V)
    BY <2>3, <2>4, FS_Union
  <2>6. Cardinality(W \cap V) \in Nat /\ Cardinality(W) \in Nat /\ Cardinality(V) \in Nat
    <3>1. IsFiniteSet(W \cap V)
      BY <2>3, FS_Subset
    <3>2. QED
      BY <2>3, <2>4, <3>1, FS_CardinalityType
  <2>7. Cardinality(considered) <= Cardinality(W \cup V)
    BY <2>1, <2>5, FS_Subset
  <2>8. topN \in Int
    BY <1>2
  <2>9. QED
    BY <1>10, <2>3, <2>4, <2>5, <2>6, <2>7, <2>8
<1>19. ASSUME k = n, NEW i \in 1..Len(hits), NEW r \in S, exact[r] > exact[hits[i]]
       PROVE  \E j \in 1..(i - 1) : hits[j] = r
  <2>1. chosen = S
    <3>1. topN = n
      BY <1>a, <1>2, <1>19
    <3>2. ASSUME NEW x \in S PROVE x \in considered
      <4>1. /\ ofWords(x) \in Nat /\ ofVector(x) \in Nat /\ fused[x] = ofWords(x) + ofVector(x)
            /\ Hyb!Place(byWords, x) \in 1..n
            /\ (ofWords(x) > 0 <=> Hyb!Place(byWords, x) <= topN)
        BY <1>4, <1>6, <1>8
      <4>2. fused[x] > 0
        BY <1>a, <3>1, <4>1
      <4>3. QED
        BY <4>2
    <3>3. ASSUME NEW x \in considered PROVE Hyb!Ahead(considered, prior, x) < k
      <4>1. Hyb!Ahead(considered, prior, x) \in 0..(Cardinality(considered) - 1)
        BY <1>14
      <4>2. Cardinality(considered) \in Nat /\ Cardinality(considered) <= n
        BY <1>10
      <4> HIDE DEF considered, prior
      <4>3. QED
        BY <1>a, <1>19, <4>1, <4>2
    <3> HIDE DEF considered, prior, chosen
    <3>4. \A x \in S : x \in chosen
      BY <1>15, <3>2, <3>3
    <3>5. QED
      BY <1>10, <1>16, <3>4
  <2> HIDE DEF chosen
  <2>2. /\ DOMAIN hits = 1..Len(hits) /\ Len(hits) \in Nat
        /\ \A m \in DOMAIN hits : hits[m] \in S /\ Hyb!Ahead(S, exact, hits[m]) = m - 1
        /\ \A x \in S : Hyb!Ahead(S, exact, x) < bounds.limit =>
              Hyb!Ahead(S, exact, x) + 1 \in DOMAIN hits /\ hits[Hyb!Ahead(S, exact, x) + 1] = x
        /\ Len(hits) = IF bounds.limit <= Cardinality(S) THEN bounds.limit ELSE Cardinality(S)
    <3>1. bounds.limit \in Nat
      BY <1>2
    <3>2. QED
      <4>0. IsFiniteSet(S) /\ S \subseteq Int /\ \A x \in S : exact[x] \in Int
        BY <1>a, <1>b
      <4>1. DOMAIN hits = 1..Len(hits)
        BY <2>1, <3>1, <4>0, BestIsCut
      <4>2. ASSUME NEW m \in 1..Len(hits)
            PROVE  hits[m] \in S /\ Hyb!Ahead(S, exact, hits[m]) = m - 1
        BY <2>1, <3>1, <4>0, BestAreSorted
      <4>4. \A x \in S : Hyb!Ahead(S, exact, x) < bounds.limit =>
              Hyb!Ahead(S, exact, x) + 1 \in DOMAIN hits /\ hits[Hyb!Ahead(S, exact, x) + 1] = x
        BY <2>1, <3>1, <4>0, <4>1, BestAreIn
      <4>5. Len(hits) = IF bounds.limit <= Cardinality(S) THEN bounds.limit ELSE Cardinality(S)
        BY <2>1, <3>1, <4>0, BestIsCut
      <4>6. Cardinality(S) \in Nat
        BY <1>a
      <4> HIDE DEF hits
      <4>7. Len(hits) \in Nat
        BY <3>1, <4>5, <4>6
      <4>8. QED
        BY <4>1, <4>2, <4>4, <4>5, <4>7
  <2> HIDE DEF hits
  <2>3. Len(hits) <= bounds.limit /\ bounds.limit \in Nat
    BY <1>1, <1>2, <2>2
  <2>4. hits[i] \in S /\ Hyb!Ahead(S, exact, hits[i]) = i - 1
    BY <2>2
  <2>5. Hyb!Better(exact, r, hits[i])
    BY <1>19 DEF Hyb!Better
  <2>6. Hyb!Ahead(S, exact, r) < Hyb!Ahead(S, exact, hits[i])
    BY <1>1, <2>4, <2>5, AheadIsStrict
  <2>7. Hyb!Ahead(S, exact, r) \in 0..(n - 1)
    BY <1>1, AheadIsStrict
  <2> DEFINE a == Hyb!Ahead(S, exact, r)
  <2>8. hits[a + 1] = r /\ a + 1 \in 1..(i - 1)
    <3>1. a \in Nat /\ a < i - 1 /\ i \in Nat /\ i <= Len(hits)
      BY <1>1, <2>2, <2>4, <2>6, <2>7
    <3>2. a < bounds.limit
      BY <2>2, <2>3, <3>1
    <3>3. hits[a + 1] = r
      BY <2>2, <3>2
    <3>4. QED
      BY <3>1, <3>3
  <2>9. QED
    BY <2>8
<1> HIDE DEF considered, chosen, hits
<1>20. QED
  BY <1>3, <1>17, <1>18, <1>19 DEF RescoresTheBest, S, n, topN, k, result

\* So do the queries of the gates.
LEMMA CascadesRescoreTheBest == ASSUME GatesInit PROVE TheBestAreRescored
<1>1. ASSUME subject = "cascade", Hyb!Bounded(input.bounds, input.pack)
      PROVE  RescoresTheBest(input.pack, input.lexical, input.dense, input.exact,
                             input.routed, input.bounds)
  <2>1. /\ IsList(input.pack.regions)
        /\ input.lexical \in [DOMAIN input.pack.regions -> Int]
        /\ input.dense \in [DOMAIN input.pack.regions -> Int]
        /\ input.exact \in [DOMAIN input.pack.regions -> Int]
    BY <1>1, CascadeAssumption DEF GatesInit, InputsOf
  <2>2. QED
    BY <1>1, <2>1, QueriesRescoreTheBest
<1>2. QED
  BY <1>1 DEF TheBestAreRescored, RescoresTheBest

\* query_worker.py: a pack that loads is served with the default bounds.
LEMMA PacksAreServed == ASSUME GatesInit PROVE DefaultsAreServed
<1> DEFINE pack == input.pack
           n == Len(pack.regions)
           request == [pack |-> pack.digest, models |-> pack.models, denseDim |-> pack.denseDim,
                       multiDims |-> <<pack.multiDim, pack.multiDim>>, bounds |-> input.bounds]
           stored == [digest \in {pack.digest} |-> pack]
<1> SUFFICES ASSUME subject = "pack", Hyb!LoadRetrievalPack(pack, pack.models), DOMAIN input.bounds = {}
             PROVE  Hyb!Answers(request, stored)
  BY DEF DefaultsAreServed
<1>1. n \in Nat /\ n >= 1
  <2>1. IsList(pack.regions)
    BY CascadeAssumption DEF GatesInit, InputsOf
  <2>2. n \in 1..MaxRegions
    BY DEF Hyb!LoadRetrievalPack
  <2>3. QED
    BY <2>1, <2>2, ListPlaces
<1> DEFINE given == Hyb!WithDefaults(input.bounds, pack)
<1>2. given = [topN |-> Min({100, n}), maxsimK |-> Min({32, n}), limit |-> Min({5, n})]
  BY HybCopies DEF Hyb!WithDefaults
<1>3. \A m \in Nat : Min({m, n}) = IF m <= n THEN m ELSE n
  BY <1>1, LesserOf
<1>4. Hyb!Bounded(given, pack)
  <2>1. /\ Min({100, n}) = IF 100 <= n THEN 100 ELSE n
        /\ Min({32, n}) = IF 32 <= n THEN 32 ELSE n
        /\ Min({5, n}) = IF 5 <= n THEN 5 ELSE n
        /\ Min({10000, n}) = IF 10000 <= n THEN 10000 ELSE n
    BY <1>3
  <2> DEFINE t == Min({100, n})
  <2>2. Min({1000, t}) = IF 1000 <= t THEN 1000 ELSE t
    <3>1. t \in Int
      BY <1>1, <2>1
    <3> HIDE DEF t
    <3>2. QED
      BY <3>1, LesserOf
  <2>3. /\ given.topN = t /\ given.maxsimK = Min({32, n}) /\ given.limit = Min({5, n})
    BY <1>2
  <2>4. /\ Hyb!Min({10000, n}) = Min({10000, n}) /\ Hyb!Min({1000, t}) = Min({1000, t})
    BY HybCopies
  <2> HIDE DEF given, n, t
  <2>5. /\ t \in 1..Hyb!Min({10000, n})
        /\ Min({32, n}) \in 1..Hyb!Min({1000, t})
        /\ Min({5, n}) \in 1..Min({32, n})
    BY <1>1, <2>1, <2>2, <2>4 DEF t
  <2>6. QED
    BY <2>3, <2>5 DEF Hyb!Bounded, Hyb!MaxTopN, Hyb!MaxMaxsimK, n
<1>5. request.multiDims # <<>> /\ Hyb!ToSet(request.multiDims) = {pack.multiDim}
  BY DEF Hyb!ToSet
<1>6. stored[request.pack] = pack /\ request.pack \in DOMAIN stored
  OBVIOUS
<1>7. QED
  BY <1>4, <1>5, <1>6 DEF Hyb!Answers

\* Queries get the best that their bounds let through (hybrid_query.py, query_worker.py).
THEOREM ServedQueries == GatesSpec => []TheBestAreServed
<1>1. GatesInit => TheBestAreServed
  BY CascadesRescoreTheBest, PacksAreServed DEF TheBestAreServed
<1>2. QED
  BY <1>1, InputsStay, PTL

\* As for the others; and a sum over a function is one over its domain.
LEMMA RnkCopies ==
    /\ \A S : Rnk!Cardinality(S) = Cardinality(S) /\ Rnk!Min(S) = Min(S) /\ Rnk!ToSet(S) = ToSet(S)
    /\ \A f : Rnk!SumFunction(f) = Sum(f, DOMAIN f)
BY DEF Rnk!Cardinality, Cardinality, Rnk!IsFiniteSet, IsFiniteSet, Rnk!Min, Min, Rnk!ToSet, ToSet,
       Rnk!SumFunction, Rnk!SumFunctionOnSet, Rnk!FoldFunctionOnSet, Rnk!MapThenFoldSet,
       Sum, SumFunctionOnSet, FoldFunctionOnSet, MapThenFoldSet

-----------------------------------------------------------------------------
(* Places of a kind. *)

\* How many of the first r places are of S.
UpTo(S, r) == Cardinality({i \in 1..r : i \in S})

\* At most r of them.
LEMMA UpToType ==
    ASSUME NEW r \in Nat, NEW S
    PROVE  /\ IsFiniteSet({i \in 1..r : i \in S})
           /\ UpTo(S, r) \in Nat /\ UpTo(S, r) <= r
<1> DEFINE T == {i \in 1..r : i \in S}
<1>1. IsFiniteSet(1..r) /\ Cardinality(1..r) = r
  <2>1. 1 \in Int /\ r \in Int /\ (1 > r <=> r = 0) /\ r - 1 + 1 = r
    OBVIOUS
  <2>2. IsFiniteSet(1..r) /\ Cardinality(1..r) = IF 1 > r THEN 0 ELSE r - 1 + 1
    BY <2>1, FS_Interval
  <2>3. QED
    BY <2>1, <2>2
<1>2. T \in SUBSET (1..r)
  OBVIOUS
<1> HIDE DEF T
<1>3. IsFiniteSet(T) /\ Cardinality(T) <= r
  BY <1>1, <1>2, FS_Subset
<1>4. Cardinality(T) \in Nat
  BY <1>3, FS_CardinalityType
<1>5. QED
  BY <1>3, <1>4 DEF T, UpTo

\* One more place counts if it is of the kind.
LEMMA UpToStep ==
    ASSUME NEW r \in Nat, NEW S
    PROVE  UpTo(S, r + 1) = UpTo(S, r) + IF r + 1 \in S THEN 1 ELSE 0
<1> DEFINE T == {i \in 1..r : i \in S}
           U == {i \in 1..(r + 1) : i \in S}
<1>1. IsFiniteSet(T) /\ Cardinality(T) \in Nat
  BY UpToType DEF UpTo
<1>2. CASE r + 1 \in S
  <2>1. U = T \cup {r + 1} /\ r + 1 \notin T
    BY <1>2
  <2> HIDE DEF T, U
  <2>2. Cardinality(U) = Cardinality(T) + 1
    BY <1>1, <2>1, FS_AddElement
  <2>3. QED
    BY <1>2, <2>2 DEF T, U, UpTo
<1>3. CASE r + 1 \notin S
  <2>1. U = T
    BY <1>3
  <2>2. QED
    BY <1>1, <1>3, <2>1 DEF UpTo
<1>4. QED
  BY <1>2, <1>3

\* More places, at least as many of the kind; strictly more if the last one is.
LEMMA UpToMonotone ==
    ASSUME NEW S, NEW r \in Nat, NEW t \in Nat, r <= t
    PROVE  /\ UpTo(S, r) <= UpTo(S, t)
           /\ r < t /\ t \in S => UpTo(S, r) < UpTo(S, t)
<1> DEFINE R == {i \in 1..r : i \in S}
           T == {i \in 1..t : i \in S}
<1>1. IsFiniteSet(R) /\ IsFiniteSet(T) /\ Cardinality(R) \in Nat /\ Cardinality(T) \in Nat
  BY UpToType DEF UpTo
<1>2. R \in SUBSET T
  OBVIOUS
<1>3. Cardinality(R) <= Cardinality(T)
  <2> HIDE DEF R, T
  <2> QED BY <1>1, <1>2, FS_Subset
<1>4. ASSUME r < t, t \in S PROVE Cardinality(R) < Cardinality(T)
  <2>1. R \cup {t} \in SUBSET T /\ t \notin R
    BY <1>4
  <2> HIDE DEF R, T
  <2>2. Cardinality(R \cup {t}) = Cardinality(R) + 1
    BY <1>1, <2>1, FS_AddElement
  <2>3. Cardinality(R \cup {t}) <= Cardinality(T)
    BY <1>1, <2>1, FS_Subset
  <2>4. QED
    BY <1>1, <2>2, <2>3
<1>5. QED
  BY <1>3, <1>4 DEF UpTo

\* The n-th place of the kind.
LEMMA NthPlace ==
    ASSUME NEW N \in Nat, NEW S \in SUBSET (1..N), NEW n \in 1..UpTo(S, N)
    PROVE  \E r \in S : UpTo(S, r) = n
<1> DEFINE m == UpTo(S, N)
           f == [r \in S |-> UpTo(S, r)]
<1>1. S = {i \in 1..N : i \in S}
  OBVIOUS
<1>2. IsFiniteSet(S) /\ Cardinality(S) = m /\ m \in Nat
  BY <1>1, UpToType DEF UpTo
<1>3. IsFiniteSet(1..m) /\ Cardinality(1..m) = m
  <2>1. 1 \in Int /\ m \in Int /\ (1 > m <=> m = 0) /\ m - 1 + 1 = m
    BY <1>2
  <2> HIDE DEF m
  <2>2. IsFiniteSet(1..m) /\ Cardinality(1..m) = IF 1 > m THEN 0 ELSE m - 1 + 1
    BY <2>1, FS_Interval
  <2>3. QED
    BY <2>1, <2>2
<1>4. \A r \in S : r \in Nat /\ r <= N /\ UpTo(S, r) \in 1..m
  <2> SUFFICES ASSUME NEW r \in S PROVE UpTo(S, r) \in 1..m
    OBVIOUS
  <2>1. r \in Nat /\ r >= 1 /\ r <= N
    OBVIOUS
  <2>2. UpTo(S, 0) < UpTo(S, r) /\ UpTo(S, r) <= m
    BY <2>1, UpToMonotone
  <2>3. UpTo(S, 0) \in Nat /\ UpTo(S, r) \in Nat
    BY <2>1, UpToType
  <2> HIDE DEF m
  <2>4. QED
    BY <1>2, <2>2, <2>3
<1>5. \A r, t \in S : UpTo(S, r) = UpTo(S, t) => r = t
  <2> SUFFICES ASSUME NEW r \in S, NEW t \in S, r # t PROVE UpTo(S, r) # UpTo(S, t)
    OBVIOUS
  <2>1. r \in Nat /\ t \in Nat
    BY <1>4
  <2>2. UpTo(S, r) \in Nat /\ UpTo(S, t) \in Nat
    BY <2>1, UpToType
  <2>3. (r < t => UpTo(S, r) < UpTo(S, t)) /\ (t < r => UpTo(S, t) < UpTo(S, r))
    BY <2>1, UpToMonotone
  <2>4. QED
    BY <2>1, <2>2, <2>3
<1>6. f \in Injection(S, 1..m)
  <2>1. f \in [S -> 1..m] /\ \A a, b \in DOMAIN f : f[a] = f[b] => a = b
    BY <1>4, <1>5
  <2> HIDE DEF f, m
  <2>2. QED
    BY <2>1 DEF Injection, IsInjective
<1>7. f \in Surjection(S, 1..m)
  <2> HIDE DEF f, m
  <2>1. QED
    BY <1>2, <1>3, <1>6, FS_Injection
<1>8. QED
  <2>1. \A k \in 1..m : \E r \in S : f[r] = k
    <3> HIDE DEF f, m
    <3> QED BY <1>7 DEF Surjection
  <2>2. QED
    BY <2>1

\* Places of the kind with as many up to them are the same.
LEMMA SamePlace ==
    ASSUME NEW N \in Nat, NEW S \in SUBSET (1..N), NEW r \in S, NEW t \in S, UpTo(S, r) = UpTo(S, t)
    PROVE  r = t
<1>1. r \in Nat /\ t \in Nat
  OBVIOUS
<1>2. UpTo(S, r) \in Nat /\ UpTo(S, t) \in Nat
  BY <1>1, UpToType
<1>3. (r < t => UpTo(S, r) < UpTo(S, t)) /\ (t < r => UpTo(S, t) < UpTo(S, r))
  BY <1>1, UpToMonotone
<1>4. QED
  BY <1>1, <1>2, <1>3

-----------------------------------------------------------------------------
(* Rankings and their pools. *)

JudgedPlaces(query, ranking) == {r \in DOMAIN ranking : ranking[r].case \in Rnk!Judged(query)}

\* The place in the full ranking of the n-th judged case.
FullPlace(query, ranking, n) ==
    CHOOSE r \in DOMAIN ranking :
        ranking[r].case \in Rnk!Judged(query) /\ Rnk!JudgedUpTo(query, ranking, r) = n

\* The judged cases up to a place, counted at their places.
LEMMA JudgedCount ==
    ASSUME NEW query, NEW ranking, IsList(ranking), NEW r \in 0..Len(ranking)
    PROVE  Rnk!JudgedUpTo(query, ranking, r) = UpTo(JudgedPlaces(query, ranking), r)
<1>1. Len(ranking) \in Nat /\ DOMAIN ranking = 1..Len(ranking)
  BY ListPlaces
<1>2. {i \in 1..r : ranking[i].case \in Rnk!Judged(query)} = {i \in 1..r : i \in JudgedPlaces(query, ranking)}
  BY <1>1 DEF JudgedPlaces
<1>3. QED
  BY <1>2, RnkCopies DEF Rnk!JudgedUpTo, UpTo

\* The n-th judged case is judged, and n are up to it.
LEMMA FullPlaces ==
    ASSUME NEW query, NEW ranking, IsList(ranking),
           NEW n \in 1..UpTo(JudgedPlaces(query, ranking), Len(ranking))
    PROVE  /\ FullPlace(query, ranking, n) \in JudgedPlaces(query, ranking)
           /\ UpTo(JudgedPlaces(query, ranking), FullPlace(query, ranking, n)) = n
<1> DEFINE J == JudgedPlaces(query, ranking)
           N == Len(ranking)
<1>1. N \in Nat /\ DOMAIN ranking = 1..N /\ J \in SUBSET (1..N)
  BY ListPlaces DEF JudgedPlaces
<1>2. PICK r \in J : UpTo(J, r) = n
  <2> HIDE DEF J, N
  <2> QED BY <1>1, NthPlace DEF J, N
<1>3. \A i \in J : Rnk!JudgedUpTo(query, ranking, i) = UpTo(J, i)
  <2> SUFFICES ASSUME NEW i \in J PROVE Rnk!JudgedUpTo(query, ranking, i) = UpTo(J, i)
    OBVIOUS
  <2>1. i \in 0..N
    BY <1>1
  <2>2. QED
    BY <2>1, JudgedCount
<1>4. \A i \in DOMAIN ranking : i \in J <=> ranking[i].case \in Rnk!Judged(query)
  BY DEF JudgedPlaces
<1>5. r \in DOMAIN ranking /\ ranking[r].case \in Rnk!Judged(query) /\ Rnk!JudgedUpTo(query, ranking, r) = n
  BY <1>1, <1>2, <1>3, <1>4
<1> DEFINE p == FullPlace(query, ranking, n)
<1>6. p \in DOMAIN ranking /\ ranking[p].case \in Rnk!Judged(query) /\ Rnk!JudgedUpTo(query, ranking, p) = n
  BY <1>5 DEF FullPlace
<1>7. QED
  BY <1>3, <1>4, <1>6

\* The pool is a list of them.
LEMMA PoolPlaces ==
    ASSUME NEW query, NEW ranking, IsList(ranking)
    PROVE  LET J == JudgedPlaces(query, ranking)
               m == UpTo(J, Len(ranking))
               pool == Rnk!Pool(query, ranking)
           IN  /\ m \in Nat /\ m <= Len(ranking)
               /\ pool \in Seq(ToSet(ranking)) /\ Len(pool) = m /\ DOMAIN pool = 1..m
               /\ \A n \in 1..m : pool[n] = ranking[FullPlace(query, ranking, n)]
<1> DEFINE J == JudgedPlaces(query, ranking)
           N == Len(ranking)
           m == UpTo(J, N)
           pool == Rnk!Pool(query, ranking)
<1>1. N \in Nat /\ DOMAIN ranking = 1..N
  BY ListPlaces
<1>2. Rnk!JudgedUpTo(query, ranking, N) = m
  BY <1>1, JudgedCount
<1>3. pool = [n \in 1..m |-> ranking[FullPlace(query, ranking, n)]]
  BY <1>2 DEF Rnk!Pool, FullPlace
<1>4. m \in Nat /\ m <= N
  BY <1>1, UpToType
<1>5. \A n \in 1..m : ranking[FullPlace(query, ranking, n)] \in ToSet(ranking)
  <2> SUFFICES ASSUME NEW n \in 1..m PROVE ranking[FullPlace(query, ranking, n)] \in ToSet(ranking)
    OBVIOUS
  <2>1. FullPlace(query, ranking, n) \in J
    BY FullPlaces
  <2>2. QED
    BY <2>1 DEF JudgedPlaces, ToSet
<1> HIDE DEF m, pool
<1>6. pool \in [1..m -> ToSet(ranking)]
  BY <1>3, <1>5
<1>7. pool \in Seq(ToSet(ranking)) /\ Len(pool) = m /\ DOMAIN pool = 1..m
  BY <1>4, <1>6
<1>8. QED
  BY <1>3, <1>4, <1>7 DEF m, pool

\* A judged place is the full place of its number, and earlier numbers are at earlier places.
LEMMA PlacesInOrder ==
    ASSUME NEW query, NEW ranking, IsList(ranking)
    PROVE  LET J == JudgedPlaces(query, ranking)
               m == UpTo(J, Len(ranking))
           IN  /\ \A r \in J : UpTo(J, r) \in 1..m /\ FullPlace(query, ranking, UpTo(J, r)) = r
               /\ \A a, b \in 1..m : a < b => FullPlace(query, ranking, a) < FullPlace(query, ranking, b)
<1> DEFINE J == JudgedPlaces(query, ranking)
           N == Len(ranking)
           m == UpTo(J, N)
           P(n) == FullPlace(query, ranking, n)
<1>1. N \in Nat /\ J \in SUBSET (1..N) /\ m \in Nat
  BY ListPlaces, PoolPlaces DEF JudgedPlaces
<1>2. \A n \in 1..m : P(n) \in J /\ UpTo(J, P(n)) = n
  BY FullPlaces
<1> HIDE DEF J, N, m, P
<1>3. ASSUME NEW r \in J PROVE UpTo(J, r) \in 1..m /\ P(UpTo(J, r)) = r
  <2>1. r \in Nat /\ r >= 1 /\ r <= N
    BY <1>1
  <2>2. UpTo(J, 0) < UpTo(J, r) /\ UpTo(J, r) <= UpTo(J, N)
    BY <1>1, <2>1, UpToMonotone
  <2>3. UpTo(J, 0) \in Nat /\ UpTo(J, r) \in Nat
    BY <2>1, UpToType
  <2>4. UpTo(J, r) \in 1..m
    BY <1>1, <2>2, <2>3 DEF m
  <2>5. P(UpTo(J, r)) \in J /\ UpTo(J, P(UpTo(J, r))) = UpTo(J, r)
    BY <1>2, <2>4
  <2>6. P(UpTo(J, r)) = r
    BY <1>1, <2>5, SamePlace
  <2>7. QED
    BY <2>4, <2>6
<1>4. ASSUME NEW a \in 1..m, NEW b \in 1..m, a < b PROVE P(a) < P(b)
  <2>1. P(a) \in J /\ P(b) \in J /\ UpTo(J, P(a)) = a /\ UpTo(J, P(b)) = b
    BY <1>2
  <2>2. P(a) \in Nat /\ P(b) \in Nat
    <3>1. \A x \in J : x \in Nat
      BY <1>1
    <3>2. QED
      BY <2>1, <3>1
  <2>3. P(b) <= P(a) => UpTo(J, P(b)) <= UpTo(J, P(a))
    BY <2>2, UpToMonotone
  <2>4. a \in Int /\ b \in Int
    BY <1>1
  <2>5. QED
    BY <1>4, <2>1, <2>2, <2>3, <2>4
<1>5. QED
  BY <1>3, <1>4 DEF J, N, m, P

\* A list is distinct if no case is at two places.
LEMMA DistinctLists ==
    ASSUME NEW s, IsList(s)
    PROVE  Rnk!Distinct(s) <=> \A i, j \in DOMAIN s : s[i].case = s[j].case => i = j
<1> DEFINE D == DOMAIN s
           T == Rnk!RankedCases(s)
           f == [i \in D |-> s[i].case]
<1>1. IsFiniteSet(D) /\ Cardinality(D) = Len(s)
  BY ListPlaces
<1>2. T = {s[i].case : i \in D}
  BY RnkCopies DEF Rnk!RankedCases, ToSet
<1>3. f \in Surjection(D, T)
  BY <1>2 DEF Surjection
<1>4. f \in Injection(D, T) <=> \A i, j \in D : s[i].case = s[j].case => i = j
  <2>1. f \in [D -> T]
    BY <1>2
  <2>2. IsInjective(f) <=> \A i, j \in D : s[i].case = s[j].case => i = j
    BY DEF IsInjective
  <2> HIDE DEF f, D, T
  <2>3. QED
    BY <2>1, <2>2 DEF Injection
<1>5. Rnk!Distinct(s) <=> Cardinality(T) = Len(s)
  BY RnkCopies DEF Rnk!Distinct
<1> HIDE DEF D, T, f
<1>6. Cardinality(T) = Cardinality(D) <=> f \in Injection(D, T)
  BY <1>1, <1>3, FS_Surjection
<1>7. QED
  BY <1>1, <1>4, <1>5, <1>6 DEF D

\* Scores that never rise from one place to the next never rise.
LEMMA Descending ==
    ASSUME NEW N \in Nat, NEW score, \A i \in 1..N : score[i] \in Int,
           \A i \in 1..(N - 1) : score[i] >= score[i + 1],
           NEW i \in 1..N, NEW j \in 1..N, i <= j
    PROVE  score[i] >= score[j]
<1> DEFINE Bad == {k \in 1..N : i <= k /\ score[i] < score[k]}
<1>1. SUFFICES ASSUME Bad # {} PROVE FALSE
  BY <1>1
<1>2. Bad \in SUBSET Nat
  OBVIOUS
<1>3. PICK k \in Bad : \A l \in Bad : k <= l
  <2> HIDE DEF Bad
  <2> QED BY <1>1, <1>2, Smallest
<1>4. k \in 1..N /\ i <= k /\ score[i] < score[k] /\ k # i
  OBVIOUS
<1>5. k - 1 \in 1..(N - 1) /\ k - 1 \in 1..N /\ i <= k - 1 /\ (k - 1) + 1 = k
  BY <1>4
<1>6. k - 1 \notin Bad
  BY <1>3, <1>4, <1>5
<1>7. score[k - 1] >= score[k]
  BY <1>5
<1>8. score[k - 1] <= score[i]
  BY <1>5, <1>6
<1>9. QED
  BY <1>4, <1>5, <1>7, <1>8

\* What the judged pool sees of a ranking of everything is a ranking of the judged cases.
LEMMA PoolLoads ==
    ASSUME NEW query, NEW ranking, IsList(ranking), \A c \in ToSet(ranking) : c.score \in Int,
           NEW universe, Rnk!FullRankingLoads(ranking, universe)
    PROVE  /\ Rnk!PoolRankingLoads(Rnk!Pool(query, ranking), query)
           /\ Rnk!RankedCases(Rnk!Pool(query, ranking)) = Rnk!Judged(query) \cap universe
<1> DEFINE J == JudgedPlaces(query, ranking)
           N == Len(ranking)
           m == UpTo(J, N)
           pool == Rnk!Pool(query, ranking)
           P(n) == FullPlace(query, ranking, n)
<1>1. N \in Nat /\ DOMAIN ranking = 1..N /\ J \in SUBSET (1..N)
  BY ListPlaces DEF JudgedPlaces
<1>2. m \in Nat /\ pool \in Seq(ToSet(ranking)) /\ Len(pool) = m /\ DOMAIN pool = 1..m
  BY PoolPlaces
<1>3. \A n \in 1..m : pool[n] = ranking[P(n)]
  BY PoolPlaces
<1>4. \A n \in 1..m : P(n) \in J /\ UpTo(J, P(n)) = n
  BY FullPlaces
<1>5. \A r \in J : UpTo(J, r) \in 1..m /\ P(UpTo(J, r)) = r
  BY PlacesInOrder
<1>6. \A a, b \in 1..m : a < b => P(a) < P(b)
  BY PlacesInOrder
<1>7. IsList(pool)
  <2>1. ToSet(pool) = {pool[n] : n \in 1..m}
    BY <1>2 DEF ToSet
  <2> HIDE DEF pool, m
  <2>2. pool \in [1..m -> ToSet(pool)]
    BY <1>2, <2>1
  <2>3. pool \in Seq(ToSet(pool))
    BY <1>2, <2>2
  <2>4. QED
    BY <2>3 DEF IsList
<1>8. \A r \in 1..N : r \in J <=> ranking[r].case \in Rnk!Judged(query)
  BY <1>1 DEF JudgedPlaces
<1>9. /\ universe = {ranking[r].case : r \in 1..N}
      /\ Rnk!Distinct(ranking)
      /\ \A i \in 1..(N - 1) : Rnk!Before(ranking[i], ranking[i + 1])
  BY <1>1, RnkCopies DEF Rnk!FullRankingLoads, Rnk!RankedCases, ToSet
<1>10. \A i, j \in 1..N : ranking[i].case = ranking[j].case => i = j
  BY <1>1, <1>9, DistinctLists
<1>11. \A i \in 1..N : ranking[i].score \in Int
  BY <1>1 DEF ToSet
<1> HIDE DEF J, N, m, pool, P
<1>12. Rnk!RankedCases(pool) = Rnk!Judged(query) \cap universe
  <2>1. Rnk!RankedCases(pool) = {pool[n].case : n \in 1..m}
    BY <1>2, RnkCopies DEF Rnk!RankedCases, ToSet
  <2>2. ASSUME NEW n \in 1..m PROVE pool[n].case \in Rnk!Judged(query) \cap universe
    <3>1. P(n) \in J /\ P(n) \in 1..N /\ pool[n] = ranking[P(n)]
      BY <1>1, <1>3, <1>4
    <3>2. QED
      BY <1>8, <1>9, <3>1
  <2>3. ASSUME NEW id \in Rnk!Judged(query) \cap universe PROVE \E n \in 1..m : pool[n].case = id
    <3>1. PICK r \in 1..N : id = ranking[r].case
      BY <1>9
    <3>2. r \in J
      BY <1>8, <3>1
    <3>3. UpTo(J, r) \in 1..m /\ P(UpTo(J, r)) = r
      BY <1>5, <3>2
    <3>4. pool[UpTo(J, r)] = ranking[r]
      BY <1>3, <3>3
    <3>5. QED
      BY <3>1, <3>3, <3>4
  <2>4. QED
    BY <2>1, <2>2, <2>3
<1>13. Rnk!Distinct(pool)
  <2> SUFFICES ASSUME NEW a \in 1..m, NEW b \in 1..m, pool[a].case = pool[b].case PROVE a = b
    BY <1>2, <1>7, DistinctLists
  <2>1. /\ P(a) \in J /\ P(a) \in 1..N /\ pool[a] = ranking[P(a)] /\ UpTo(J, P(a)) = a
        /\ P(b) \in J /\ P(b) \in 1..N /\ pool[b] = ranking[P(b)] /\ UpTo(J, P(b)) = b
    BY <1>1, <1>3, <1>4
  <2>2. P(a) = P(b)
    BY <1>10, <2>1
  <2>3. QED
    BY <2>1, <2>2
<1>14. ASSUME NEW i \in 1..(m - 1) PROVE pool[i].score >= pool[i + 1].score
  <2>1. i \in 1..m /\ i + 1 \in 1..m /\ i < i + 1
    BY <1>2
  <2>2. P(i) \in J /\ P(i + 1) \in J /\ P(i) < P(i + 1)
    BY <1>4, <1>6, <2>1
  <2>3. P(i) \in 1..N /\ P(i + 1) \in 1..N
    BY <1>1, <2>2
  <2> DEFINE score == [r \in 1..N |-> ranking[r].score]
  <2>4. \A r \in 1..N : score[r] \in Int
    BY <1>11
  <2>5. \A r \in 1..(N - 1) : score[r] >= score[r + 1]
    <3> SUFFICES ASSUME NEW r \in 1..(N - 1) PROVE score[r] >= score[r + 1]
      OBVIOUS
    <3>1. r \in 1..N /\ r + 1 \in 1..N
      BY <1>1
    <3>2. ranking[r].score >= ranking[r + 1].score
      BY <1>9, <1>11, <3>1 DEF Rnk!Before
    <3>3. QED
      BY <3>1, <3>2
  <2>6. score[P(i)] = ranking[P(i)].score /\ score[P(i + 1)] = ranking[P(i + 1)].score
    BY <2>3
  <2> HIDE DEF score
  <2>7. P(i) <= P(i + 1)
    BY <1>1, <2>2, <2>3
  <2>8. score[P(i)] >= score[P(i + 1)]
    BY <1>1, <2>3, <2>4, <2>5, <2>7, Descending
  <2>9. QED
    BY <1>3, <2>1, <2>6, <2>8
<1>15. Rnk!PoolRankingLoads(pool, query)
  BY <1>2, <1>12, <1>13, <1>14 DEF Rnk!PoolRankingLoads
<1>16. QED
  BY <1>12, <1>15 DEF pool

\* The judged cases of a query that loads are cases of its family, in its split.
LEMMA JudgedCasesAreOwn ==
    ASSUME NEW loaded, Rnk!LoadVisualRegistry(loaded, FALSE),
           NEW query, Rnk!LoadQueryRegistry(<<query>>, loaded), NEW id \in Rnk!Judged(query)
    PROVE  /\ Rnk!CaseOf(ToSet(loaded), id)[1].group = query.group
           /\ id \in Rnk!Universe(loaded, query.split)
<1> DEFINE documents == ToSet(loaded)
           e == Rnk!CaseOf(documents, id)
<1>1. Rnk!QueryParses(query, loaded) /\ Rnk!JudgmentsAreOwn(query, loaded)
  <2>1. query \in Rnk!ToSet(<<query>>)
    BY DEF Rnk!ToSet
  <2>2. QED
    BY <2>1 DEF Rnk!LoadQueryRegistry
<1>2. documents = Rnk!ToSet(loaded)
  BY RnkCopies
<1>3. id \in Rnk!CaseIds(documents) /\ e[1].group = query.group
  BY <1>1, <1>2 DEF Rnk!JudgmentsAreOwn, Rnk!Judged
<1>4. e \in Rnk!Cases(documents) /\ <<e[1].id, e[2].id>> = id
  <2>1. \E k \in Rnk!Cases(documents) : <<k[1].id, k[2].id>> = id
    BY <1>3 DEF Rnk!CaseIds
  <2> HIDE DEF documents
  <2>2. QED
    BY <2>1 DEF Rnk!CaseOf
<1>5. PICK d \in documents : d.group = query.group /\ d.split = query.split
  BY <1>1, <1>2 DEF Rnk!QueryParses
<1>6. PICK o \in documents : \E c \in Rnk!CaseSet(o) : e = <<o, c>>
  BY <1>4 DEF Rnk!Cases
<1>7. PICK c \in Rnk!CaseSet(o) : e = <<o, c>>
  BY <1>6
<1>8. e[1] = o
  BY <1>7
<1>9. o.split = query.split
  <2>1. PICK i \in DOMAIN loaded : o = loaded[i]
    BY DEF ToSet
  <2>2. PICK j \in DOMAIN loaded : d = loaded[j]
    BY DEF ToSet
  <2>3. Rnk!Isolated(loaded[i], loaded[j])
    BY DEF Rnk!LoadVisualRegistry
  <2>4. o.group = d.group
    BY <1>3, <1>5, <1>8
  <2>5. QED
    BY <1>5, <2>1, <2>2, <2>3, <2>4 DEF Rnk!Isolated
<1>10. o \in Rnk!Cut(loaded, query.split)
  BY <1>2, <1>9 DEF Rnk!Cut
<1>11. <<o, c>> \in Rnk!Cases(Rnk!Cut(loaded, query.split))
  BY <1>7, <1>10 DEF Rnk!Cases
<1>12. id \in Rnk!CaseIds(Rnk!Cut(loaded, query.split))
  BY <1>4, <1>7, <1>11 DEF Rnk!CaseIds
<1>13. QED
  BY <1>3, <1>12 DEF Rnk!Universe

\* corpus_coverage.py and query_ranking.py: the gates judge such queries.
LEMMA RankingsHoldJudgments == ASSUME GatesInit PROVE JudgedCasesAreRanked
<1> DEFINE query == input.query
           ranking == input.ranking
           loaded == input.registry
           pool == Rnk!Pool(query, ranking)
           universe == Rnk!Universe(loaded, query.split)
<1> SUFFICES ASSUME subject = "judgments", Rnk!LoadVisualRegistry(loaded, FALSE),
                    Rnk!LoadQueryRegistry(<<query>>, loaded), Rnk!FullRankingLoads(ranking, universe)
             PROVE  /\ Rnk!LoadFullCorpusRankingArtifact([id \in {query.id} |-> ranking], {query},
                                                        loaded, query.split)
                    /\ Rnk!LoadRankingArtifact([id \in {query.id} |-> pool], {query})
                    /\ Rnk!RankedCases(pool) = Rnk!Judged(query)
                    /\ \A id \in Rnk!Judged(query) :
                          Rnk!CaseOf(ToSet(loaded), id)[1].group = query.group
  BY DEF JudgedCasesAreRanked
<1>1. IsList(ranking) /\ \A c \in ToSet(ranking) : c.score \in Int
  <2>1. input \in InputsOf("judgments") \cup InputsOf("ranking")
    BY DEF GatesInit, InputsOf
  <2>2. QED
    BY <2>1, RankingAssumption
<1>2. \A id \in Rnk!Judged(query) :
          Rnk!CaseOf(ToSet(loaded), id)[1].group = query.group /\ id \in universe
  BY JudgedCasesAreOwn
<1>3. Rnk!PoolRankingLoads(pool, query) /\ Rnk!RankedCases(pool) = Rnk!Judged(query) \cap universe
  BY <1>1, PoolLoads
<1>4. Rnk!RankedCases(pool) = Rnk!Judged(query)
  <2> HIDE DEF pool, universe
  <2>1. QED
    BY <1>2, <1>3
<1>5. Rnk!LoadRankingArtifact([id \in {query.id} |-> pool], {query})
  BY <1>3 DEF Rnk!LoadRankingArtifact, Rnk!Exactly
<1>6. Rnk!LoadFullCorpusRankingArtifact([id \in {query.id} |-> ranking], {query}, loaded, query.split)
  BY DEF Rnk!LoadFullCorpusRankingArtifact, Rnk!Exactly
<1>7. QED
  BY <1>2, <1>4, <1>5, <1>6

\* A ranking of its whole split holds every judged case of a query that loads
\* (corpus_coverage.py, query_ranking.py).
THEOREM RankedJudgments == GatesSpec => []JudgedCasesAreRanked
<1>1. GatesInit => JudgedCasesAreRanked
  BY RankingsHoldJudgments
<1>2. QED
  BY <1>1, InputsStay, PTL

PlacesOf(s, K) == {r \in DOMAIN s : s[r].case \in K}

\* There is nothing to count past the last place.
LEMMA UpToEnd ==
    ASSUME NEW N \in Nat, NEW S \in SUBSET (1..N), NEW r \in Nat, N <= r
    PROVE  UpTo(S, r) = UpTo(S, N)
<1>1. {i \in 1..r : i \in S} = {i \in 1..N : i \in S}
  OBVIOUS
<1>2. QED
  BY <1>1 DEF UpTo

\* As many cases of a kind are among the first of the full ranking as among the first
\* of the pool, if judged cases only are of the kind.
LEMMA KindsInPool ==
    ASSUME NEW query, NEW ranking, IsList(ranking), NEW K \in SUBSET Rnk!Judged(query),
           NEW r \in 0..Len(ranking)
    PROVE  UpTo(PlacesOf(ranking, K), r)
             = UpTo(PlacesOf(Rnk!Pool(query, ranking), K), UpTo(JudgedPlaces(query, ranking), r))
<1> DEFINE J == JudgedPlaces(query, ranking)
           N == Len(ranking)
           m == UpTo(J, N)
           pool == Rnk!Pool(query, ranking)
           P(n) == FullPlace(query, ranking, n)
           F == PlacesOf(ranking, K)
           Q == PlacesOf(pool, K)
           Good == {k \in Nat : k <= N => UpTo(F, k) = UpTo(Q, UpTo(J, k))}
<1>1. N \in Nat /\ DOMAIN ranking = 1..N /\ J \in SUBSET (1..N)
  BY ListPlaces DEF JudgedPlaces
<1>2. m \in Nat /\ DOMAIN pool = 1..m
  BY PoolPlaces
<1>3. \A n \in 1..m : pool[n] = ranking[P(n)]
  BY PoolPlaces
<1>4. \A k \in J : UpTo(J, k) \in 1..m /\ P(UpTo(J, k)) = k
  BY PlacesInOrder
<1>5. \A i \in 1..N : i \in F <=> ranking[i].case \in K
  BY <1>1 DEF PlacesOf
<1>a. \A i \in 1..N : i \in J <=> ranking[i].case \in Rnk!Judged(query)
  BY <1>1 DEF JudgedPlaces
<1>6. \A n \in 1..m : n \in Q <=> pool[n].case \in K
  BY <1>2 DEF PlacesOf
<1>7. \A S : UpTo(S, 0) = 0
  <2> SUFFICES ASSUME NEW S PROVE UpTo(S, 0) = 0
    OBVIOUS
  <2>1. UpTo(S, 0) \in Nat /\ UpTo(S, 0) <= 0
    BY UpToType
  <2>2. QED
    BY <2>1
<1> HIDE DEF J, N, m, pool, P, F, Q
<1>8. 0 \in Good
  BY <1>7
<1>9. ASSUME NEW k \in Good PROVE k + 1 \in Good
  <2> SUFFICES ASSUME k + 1 <= N PROVE UpTo(F, k + 1) = UpTo(Q, UpTo(J, k + 1))
    OBVIOUS
  <2>1. k \in Nat /\ UpTo(F, k) = UpTo(Q, UpTo(J, k)) /\ k + 1 \in 1..N
    BY <1>1
  <2>2. UpTo(J, k) \in Nat /\ UpTo(F, k) \in Nat
    BY <2>1, UpToType
  <2>3. CASE k + 1 \in J
    <3>1. UpTo(J, k + 1) = UpTo(J, k) + 1
      BY <2>1, <2>3, UpToStep
    <3> DEFINE c == UpTo(J, k)
    <3>2. c + 1 \in 1..m /\ P(c + 1) = k + 1
      BY <1>4, <2>3, <3>1
    <3>3. pool[c + 1] = ranking[k + 1]
      BY <1>3, <3>2
    <3>4. c + 1 \in Q <=> k + 1 \in F
      <4>1. k + 1 \in F <=> ranking[k + 1].case \in K
        BY <1>5, <2>1
      <4>2. c + 1 \in Q <=> pool[c + 1].case \in K
        BY <1>6, <3>2
      <4>3. QED
        BY <3>3, <4>1, <4>2
    <3>5. UpTo(F, k + 1) = UpTo(F, k) + IF k + 1 \in F THEN 1 ELSE 0
      BY <2>1, UpToStep
    <3> HIDE DEF c
    <3>6. UpTo(Q, c + 1) = UpTo(Q, c) + IF c + 1 \in Q THEN 1 ELSE 0
      BY <2>2, UpToStep DEF c
    <3>7. QED
      BY <2>1, <3>1, <3>4, <3>5, <3>6 DEF c
  <2>4. CASE k + 1 \notin J
    <3>1. k + 1 \notin F
      <4>1. k + 1 \in F => ranking[k + 1].case \in K
        BY <1>5, <2>1
      <4>2. ranking[k + 1].case \in Rnk!Judged(query) => k + 1 \in J
        BY <1>a, <2>1
      <4>3. QED
        BY <2>4, <4>1, <4>2
    <3>2. UpTo(J, k + 1) = UpTo(J, k) + 0 /\ UpTo(F, k + 1) = UpTo(F, k) + 0
      BY <2>1, <2>4, <3>1, UpToStep
    <3>3. QED
      BY <2>1, <2>2, <3>2
  <2>5. QED
    BY <2>3, <2>4
<1>10. Good = Nat
  <2>1. Good \in SUBSET Nat
    OBVIOUS
  <2> HIDE DEF Good
  <2> QED BY <1>8, <1>9, <2>1, CountingUp
<1>11. r \in Nat /\ r <= N
  BY <1>1 DEF N
<1>12. QED
  BY <1>10, <1>11 DEF F, Q, J, pool

\* Up to any place the pool has at least as many.
LEMMA PoolHasMore ==
    ASSUME NEW query, NEW ranking, IsList(ranking), NEW K \in SUBSET Rnk!Judged(query), NEW j \in Nat
    PROVE  UpTo(PlacesOf(ranking, K), j) <= UpTo(PlacesOf(Rnk!Pool(query, ranking), K), j)
<1> DEFINE J == JudgedPlaces(query, ranking)
           N == Len(ranking)
           F == PlacesOf(ranking, K)
           Q == PlacesOf(Rnk!Pool(query, ranking), K)
<1>1. N \in Nat /\ F \in SUBSET (1..N)
  BY ListPlaces DEF PlacesOf
<1> DEFINE k == IF j <= N THEN j ELSE N
<1>2. k \in 0..N /\ k <= j /\ k \in Nat
  BY <1>1
<1>3. UpTo(F, j) = UpTo(F, k)
  <2> HIDE DEF F, N
  <2> QED BY <1>1, UpToEnd
<1> HIDE DEF k
<1>4. UpTo(F, k) = UpTo(Q, UpTo(J, k))
  BY <1>2, KindsInPool
<1>5. UpTo(J, k) \in Nat /\ UpTo(J, k) <= j
  <2>1. UpTo(J, k) \in Nat /\ UpTo(J, k) <= k
    BY <1>2, UpToType
  <2>2. QED
    BY <1>2, <2>1
<1>6. UpTo(Q, UpTo(J, k)) <= UpTo(Q, j)
  BY <1>5, UpToMonotone
<1>7. QED
  BY <1>3, <1>4, <1>6

\* No more than there are cases of the kind.
LEMMA KindsAreFew ==
    ASSUME NEW s, IsList(s), Rnk!Distinct(s), NEW K, IsFiniteSet(K), NEW j \in Nat
    PROVE  UpTo(PlacesOf(s, K), j) <= Cardinality(K)
<1> DEFINE T == {i \in 1..j : i \in PlacesOf(s, K)}
           f == [i \in T |-> s[i].case]
<1>1. \A i \in T : i \in DOMAIN s /\ s[i].case \in K
  BY DEF PlacesOf
<1>2. \A i, k \in T : s[i].case = s[k].case => i = k
  BY <1>1, DistinctLists
<1>3. f \in Injection(T, K)
  BY <1>1, <1>2 DEF Injection, IsInjective
<1> HIDE DEF T, f
<1>4. Cardinality(T) <= Cardinality(K)
  BY <1>3, FS_Injection
<1>5. QED
  BY <1>4 DEF UpTo, T

-----------------------------------------------------------------------------
(* Discounted gains. *)

\* The places above the cutoff.
Top == {i \in Nat : 1 <= i /\ i <= 5}

\* A sum over the first K of five places, if nothing is counted after them.
LEMMA FiveTerms ==
    ASSUME NEW f, \A i \in Top : f[i] \in Int, NEW K \in Nat, K <= 5, \A i \in Top : i > K => f[i] = 0
    PROVE  Sum(f, 1..K) = f[1] + f[2] + f[3] + f[4] + f[5]
<1> DEFINE P(m) == Sum(f, 1..m)
<1>0. 1 \in Top /\ 2 \in Top /\ 3 \in Top /\ 4 \in Top /\ 5 \in Top
  BY DEF Top
<1>1. \A m \in Nat : IsFiniteSet(1..m)
  BY FS_Interval
<1>2. P(0) = 0
  <2>1. 1..0 = {}
    OBVIOUS
  <2>2. QED
    BY <2>1, SumEmpty
<1>3. ASSUME NEW m \in Nat, m + 1 <= 5 PROVE P(m + 1) = f[m + 1] + P(m)
  <2> DEFINE S == 1..(m + 1)
             T == 1..m
  <2>1. IsFiniteSet(S)
    BY <1>1
  <2>2. \A x \in S : f[x] \in Int
    BY <1>3 DEF Top
  <2>3. T \in SUBSET S /\ m + 1 \in S \ T /\ S = T \cup {m + 1}
    OBVIOUS
  <2> HIDE DEF S, T
  <2>4. Sum(f, T \cup {m + 1}) = f[m + 1] + Sum(f, T)
    BY <2>1, <2>2, <2>3, SumAdd
  <2>5. QED
    BY <2>3, <2>4 DEF S, T
<1> HIDE DEF P
<1>4. 0 + 1 = 1 /\ 1 + 1 = 2 /\ 2 + 1 = 3 /\ 3 + 1 = 4 /\ 4 + 1 = 5
  OBVIOUS
<1>5. P(1) = f[1] + P(0)
  <2>1. P(0 + 1) = f[0 + 1] + P(0)
    BY <1>3
  <2>2. QED
    BY <1>4, <2>1
<1>6. P(2) = f[2] + P(1)
  <2>1. P(1 + 1) = f[1 + 1] + P(1)
    BY <1>3
  <2>2. QED
    BY <1>4, <2>1
<1>7. P(3) = f[3] + P(2)
  <2>1. P(2 + 1) = f[2 + 1] + P(2)
    BY <1>3
  <2>2. QED
    BY <1>4, <2>1
<1>8. P(4) = f[4] + P(3)
  <2>1. P(3 + 1) = f[3 + 1] + P(3)
    BY <1>3
  <2>2. QED
    BY <1>4, <2>1
<1>9. P(5) = f[5] + P(4)
  <2>1. P(4 + 1) = f[4 + 1] + P(4)
    BY <1>3
  <2>2. QED
    BY <1>4, <2>1
<1>10. f[1] \in Int /\ f[2] \in Int /\ f[3] \in Int /\ f[4] \in Int /\ f[5] \in Int
  BY <1>0
<1>11. /\ (K < 1 => f[1] = 0) /\ (K < 2 => f[2] = 0) /\ (K < 3 => f[3] = 0)
       /\ (K < 4 => f[4] = 0) /\ (K < 5 => f[5] = 0)
  BY <1>0
<1>12. K = 0 \/ K = 1 \/ K = 2 \/ K = 3 \/ K = 4 \/ K = 5
  OBVIOUS
<1>13. P(K) = f[1] + f[2] + f[3] + f[4] + f[5]
  <2>1. CASE K = 0
    BY <1>2, <1>10, <1>11, <2>1
  <2>2. CASE K = 1
    BY <1>2, <1>5, <1>10, <1>11, <2>2
  <2>3. CASE K = 2
    BY <1>2, <1>5, <1>6, <1>10, <1>11, <2>3
  <2>4. CASE K = 3
    BY <1>2, <1>5, <1>6, <1>7, <1>10, <1>11, <2>4
  <2>5. CASE K = 4
    BY <1>2, <1>5, <1>6, <1>7, <1>8, <1>10, <1>11, <2>5
  <2>6. CASE K = 5
    BY <1>2, <1>5, <1>6, <1>7, <1>8, <1>9, <1>10, <1>11, <2>6
  <2>7. QED
    BY <1>12, <2>1, <2>2, <2>3, <2>4, <2>5, <2>6
<1>14. QED
  BY <1>13 DEF P


\* The gain of the first j cases of these grades.
GainUpTo(grades, j) ==
    UpTo({i \in DOMAIN grades : grades[i] # 0}, j) + 2 * UpTo({i \in DOMAIN grades : grades[i] = 2}, j)

\* The sum by places, and the sum by how much is gained up to each place.
ByPlace(a, b, c, d, e) ==
    a * 1000000 + (b - a) * 630930 + (c - b) * 500000 + (d - c) * 430677 + (e - d) * 386853
ByGain(a, b, c, d, e) == 369070 * a + 130930 * b + 69323 * c + 43824 * d + 386853 * e

\* They are the same sum.
LEMMA SameSum ==
    ASSUME NEW a \in Int, NEW b \in Int, NEW c \in Int, NEW d \in Int, NEW e \in Int
    PROVE  ByPlace(a, b, c, d, e) = ByGain(a, b, c, d, e)
BY SMTT(30) DEF ByPlace, ByGain

\* It grows with each gain.
LEMMA MoreIsGained ==
    ASSUME NEW a \in Int, NEW b \in Int, NEW c \in Int, NEW d \in Int, NEW e \in Int,
           NEW v \in Int, NEW w \in Int, NEW x \in Int, NEW y \in Int, NEW z \in Int,
           a <= v, b <= w, c <= x, d <= y, e <= z
    PROVE  ByGain(a, b, c, d, e) <= ByGain(v, w, x, y, z)
BY SMTT(30) DEF ByGain

\* Gains are counted by naturals.
LEMMA GainUpToType ==
    ASSUME NEW grades \in Seq({0, 1, 2}), NEW j \in Nat
    PROVE  GainUpTo(grades, j) \in Nat
<1>1. /\ UpTo({i \in DOMAIN grades : grades[i] # 0}, j) \in Nat
      /\ UpTo({i \in DOMAIN grades : grades[i] = 2}, j) \in Nat
  BY UpToType
<1>2. QED
  BY <1>1 DEF GainUpTo

\* The discounted gain is a sum of the gains up to each place, by how much the discount
\* falls after it.
LEMMA DcgByPlace ==
    ASSUME NEW grades \in Seq({0, 1, 2})
    PROVE  Rnk!Dcg(grades) = ByGain(GainUpTo(grades, 1), GainUpTo(grades, 2), GainUpTo(grades, 3),
                                    GainUpTo(grades, 4), GainUpTo(grades, 5))
<1> DEFINE L == Len(grades)
           A == {i \in DOMAIN grades : grades[i] # 0}
           B == {i \in DOMAIN grades : grades[i] = 2}
           K == IF 5 <= L THEN 5 ELSE L
           t == [r \in 1..K |-> Rnk!Gain(grades[r]) * Rnk!Discount[r]]
           gain == [r \in Top |-> IF r <= L THEN Rnk!Gain(grades[r]) ELSE 0]
           f == [r \in Top |-> gain[r] * Rnk!Discount[r]]
<1>1. L \in Nat /\ DOMAIN grades = 1..L /\ K \in Nat /\ K <= 5 /\ K <= L
  OBVIOUS
<1>a. \A r \in Top : r \in Nat /\ 1 <= r /\ r <= 5
  BY DEF Top
<1>b. 1 \in Top /\ 2 \in Top /\ 3 \in Top /\ 4 \in Top /\ 5 \in Top
  BY DEF Top
<1>2. \A g \in {0, 1, 2} : Rnk!Gain(g) = (IF g # 0 THEN 1 ELSE 0) + 2 * (IF g = 2 THEN 1 ELSE 0)
  <2>1. 2 ^ 0 = 1 /\ 2 ^ 1 = 2 /\ 2 ^ 2 = 4
    OBVIOUS
  <2>2. Rnk!Gain(0) = 2 ^ 0 - 1 /\ Rnk!Gain(1) = 2 ^ 1 - 1 /\ Rnk!Gain(2) = 2 ^ 2 - 1
    BY DEF Rnk!Gain
  <2>3. Rnk!Gain(0) = 0 /\ Rnk!Gain(1) = 1 /\ Rnk!Gain(2) = 3
    BY <2>1, <2>2
  <2>4. QED
    BY <2>3
<1>3. \A r \in Top : /\ r \in A => r <= L /\ r \in DOMAIN grades
                     /\ gain[r] = (IF r \in A THEN 1 ELSE 0) + 2 * (IF r \in B THEN 1 ELSE 0)
  <2> SUFFICES ASSUME NEW r \in Top
               PROVE  /\ r \in A => r <= L /\ r \in DOMAIN grades
                      /\ gain[r] = (IF r \in A THEN 1 ELSE 0) + 2 * (IF r \in B THEN 1 ELSE 0)
    OBVIOUS
  <2>1. CASE r <= L
    <3>1. r \in DOMAIN grades /\ grades[r] \in {0, 1, 2}
      BY <1>1, <1>a, <2>1
    <3>2. gain[r] = Rnk!Gain(grades[r])
      BY <2>1
    <3>3. (r \in A <=> grades[r] # 0) /\ (r \in B <=> grades[r] = 2)
      BY <3>1
    <3> HIDE DEF gain, A, B
    <3>4. QED
      BY <1>2, <2>1, <3>1, <3>2, <3>3
  <2>2. CASE ~ (r <= L)
    <3>1. r \notin A /\ r \notin B /\ gain[r] = 0
      BY <1>1, <2>2
    <3> HIDE DEF gain, A, B
    <3>2. QED
      BY <3>1
  <2>3. QED
    BY <2>1, <2>2
<1>4. Rnk!Dcg(grades) = Sum(t, 1..K)
  <2>1. Rnk!Min({Rnk!Cutoff, L}) = K
    <3>1. Rnk!Cutoff \in Int /\ Rnk!Cutoff = 5
      BY DEF Rnk!Cutoff
    <3>2. QED
      BY <1>1, <3>1, RnkCopies, LesserOf
  <2>2. Rnk!Dcg(grades) = Rnk!SumFunction(t)
    BY <2>1 DEF Rnk!Dcg
  <2>3. DOMAIN t = 1..K
    OBVIOUS
  <2> HIDE DEF t, K
  <2>4. QED
    BY <2>2, <2>3, RnkCopies
<1> HIDE DEF A, B
<1>5. \A r \in Top : gain[r] \in Int /\ Rnk!Discount[r] \in Int
  <2>1. \A r \in Top : gain[r] \in Int
    <3> HIDE DEF gain
    <3> QED BY <1>3
  <2>2. /\ Rnk!Discount[1] = 1000000 /\ Rnk!Discount[2] = 630930 /\ Rnk!Discount[3] = 500000
        /\ Rnk!Discount[4] = 430677 /\ Rnk!Discount[5] = 386853
    BY SMT DEF Rnk!Discount
  <2>3. \A r \in Top : r = 1 \/ r = 2 \/ r = 3 \/ r = 4 \/ r = 5
    BY DEF Top
  <2>4. \A r \in Top : Rnk!Discount[r] \in Int
    BY <2>2, <2>3
  <2>5. QED
    BY <2>1, <2>4
<1>6. \A r \in Top : f[r] \in Int /\ (r > K => f[r] = 0)
  <2> SUFFICES ASSUME NEW r \in Top PROVE f[r] \in Int /\ (r > K => f[r] = 0)
    OBVIOUS
  <2>1. f[r] = gain[r] * Rnk!Discount[r] /\ gain[r] \in Int /\ Rnk!Discount[r] \in Int
    BY <1>5
  <2>2. r > K => gain[r] = 0
    BY <1>1, <1>a
  <2> HIDE DEF f, gain, K
  <2>3. QED
    BY <2>1, <2>2
<1>7. Sum(t, 1..K) = Sum(f, 1..K)
  <2>1. IsFiniteSet(1..K)
    <3> HIDE DEF K
    <3> QED BY <1>1, FS_Interval
  <2>2. ASSUME NEW r \in 1..K PROVE t[r] \in Int /\ t[r] = f[r]
    <3>1. r \in Top /\ r <= L
      BY <1>1 DEF Top
    <3>2. t[r] = gain[r] * Rnk!Discount[r] /\ f[r] = gain[r] * Rnk!Discount[r]
      BY <3>1
    <3>3. f[r] \in Int
      BY <1>6, <3>1
    <3> HIDE DEF t, f
    <3>4. QED
      BY <3>2, <3>3
  <2> HIDE DEF t, f, K
  <2>3. QED
    BY <2>1, <2>2, SumEqual
<1>8. Sum(f, 1..K) = f[1] + f[2] + f[3] + f[4] + f[5]
  <2> HIDE DEF f, K
  <2>1. QED
    BY <1>1, <1>6, FiveTerms
<1>9. /\ f[1] = gain[1] * 1000000 /\ f[2] = gain[2] * 630930 /\ f[3] = gain[3] * 500000
      /\ f[4] = gain[4] * 430677 /\ f[5] = gain[5] * 386853
  <2>1. /\ Rnk!Discount[1] = 1000000 /\ Rnk!Discount[2] = 630930 /\ Rnk!Discount[3] = 500000
        /\ Rnk!Discount[4] = 430677 /\ Rnk!Discount[5] = 386853
    BY SMT DEF Rnk!Discount
  <2>2. \A r \in Top : f[r] = gain[r] * Rnk!Discount[r]
    OBVIOUS
  <2> HIDE DEF gain, f
  <2>3. QED
    BY <1>b, <2>1, <2>2, SMT
<1> HIDE DEF gain, f, t, K
<1>10. \A j \in Nat : UpTo(A, j) \in Nat /\ UpTo(B, j) \in Nat
  BY UpToType
<1>11. \A S, i : i \in Nat => UpTo(S, i + 1) = UpTo(S, i) + IF i + 1 \in S THEN 1 ELSE 0
  BY UpToStep
<1> DEFINE a(j) == UpTo(A, j)
           b(j) == UpTo(B, j)
<1>12. a(0) = 0 /\ b(0) = 0
  <2>1. \A S : UpTo(S, 0) \in Nat /\ UpTo(S, 0) <= 0
    BY UpToType
  <2>2. QED
    BY <2>1
<1>13. \A j \in Top : a(j) \in Int /\ b(j) \in Int /\ gain[j] = (a(j) + 2 * b(j)) - (a(j - 1) + 2 * b(j - 1))
  <2> SUFFICES ASSUME NEW j \in Top
               PROVE  a(j) \in Int /\ b(j) \in Int /\ gain[j] = (a(j) + 2 * b(j)) - (a(j - 1) + 2 * b(j - 1))
    OBVIOUS
  <2>1. j - 1 \in Nat /\ (j - 1) + 1 = j /\ j \in Nat
    BY DEF Top
  <2>2. /\ a(j) = a(j - 1) + (IF j \in A THEN 1 ELSE 0) /\ b(j) = b(j - 1) + (IF j \in B THEN 1 ELSE 0)
    <3>1. UpTo(A, (j - 1) + 1) = UpTo(A, j - 1) + IF (j - 1) + 1 \in A THEN 1 ELSE 0
      BY <1>11, <2>1
    <3>2. UpTo(B, (j - 1) + 1) = UpTo(B, j - 1) + IF (j - 1) + 1 \in B THEN 1 ELSE 0
      BY <1>11, <2>1
    <3>3. QED
      BY <2>1, <3>1, <3>2
  <2>3. a(j) \in Int /\ b(j) \in Int /\ a(j - 1) \in Int /\ b(j - 1) \in Int
    <3>1. UpTo(A, j) \in Nat /\ UpTo(B, j) \in Nat
      BY <1>10, <2>1
    <3>2. UpTo(A, j - 1) \in Nat /\ UpTo(B, j - 1) \in Nat
      BY <1>10, <2>1
    <3>3. QED
      BY <3>1, <3>2
  <2>4. gain[j] = (IF j \in A THEN 1 ELSE 0) + 2 * (IF j \in B THEN 1 ELSE 0)
    BY <1>3
  <2> HIDE DEF a, b
  <2>5. PICK p \in Int, q \in Int : p = a(j - 1) /\ q = b(j - 1)
    BY <2>3
  <2>6. PICK x \in Int, y \in Int : x = (IF j \in A THEN 1 ELSE 0) /\ y = (IF j \in B THEN 1 ELSE 0)
    OBVIOUS
  <2>7. a(j) = p + x /\ b(j) = q + y /\ gain[j] = x + 2 * y
    BY <2>2, <2>4, <2>5, <2>6
  <2>8. x + 2 * y = ((p + x) + 2 * (q + y)) - (p + 2 * q)
    OBVIOUS
  <2>9. QED
    BY <2>3, <2>5, <2>7, <2>8
<1>14. \A j \in Nat : GainUpTo(grades, j) = a(j) + 2 * b(j)
  BY DEF GainUpTo, A, B
<1> HIDE DEF a, b
<1>15. /\ gain[1] = a(1) + 2 * b(1) /\ gain[2] = (a(2) + 2 * b(2)) - (a(1) + 2 * b(1))
       /\ gain[3] = (a(3) + 2 * b(3)) - (a(2) + 2 * b(2)) /\ gain[4] = (a(4) + 2 * b(4)) - (a(3) + 2 * b(3))
       /\ gain[5] = (a(5) + 2 * b(5)) - (a(4) + 2 * b(4))
  <2>1. 1 - 1 = 0 /\ 2 - 1 = 1 /\ 3 - 1 = 2 /\ 4 - 1 = 3 /\ 5 - 1 = 4
    OBVIOUS
  <2>2. /\ gain[1] = (a(1) + 2 * b(1)) - (a(0) + 2 * b(0)) /\ gain[2] = (a(2) + 2 * b(2)) - (a(1) + 2 * b(1))
        /\ gain[3] = (a(3) + 2 * b(3)) - (a(2) + 2 * b(2)) /\ gain[4] = (a(4) + 2 * b(4)) - (a(3) + 2 * b(3))
        /\ gain[5] = (a(5) + 2 * b(5)) - (a(4) + 2 * b(4))
        /\ a(1) \in Int /\ a(2) \in Int /\ a(3) \in Int /\ a(4) \in Int /\ a(5) \in Int
        /\ b(1) \in Int /\ b(2) \in Int /\ b(3) \in Int /\ b(4) \in Int /\ b(5) \in Int
    BY <1>13, <1>b, <2>1
  <2>3. a(0) + 2 * b(0) = 0
    BY <1>12
  <2>4. PICK x \in Int : x = a(1) + 2 * b(1)
    <3>1. a(1) \in Int /\ b(1) \in Int
      BY <2>2
    <3>2. a(1) + 2 * b(1) \in Int
      BY <3>1
    <3>3. QED
      BY <3>2
  <2>5. gain[1] = x - 0
    BY <2>2, <2>3, <2>4
  <2>6. gain[1] = x
    BY <2>5
  <2>7. QED
    BY <2>2, <2>4, <2>6
<1>16. /\ GainUpTo(grades, 1) = a(1) + 2 * b(1) /\ GainUpTo(grades, 2) = a(2) + 2 * b(2)
       /\ GainUpTo(grades, 3) = a(3) + 2 * b(3) /\ GainUpTo(grades, 4) = a(4) + 2 * b(4)
       /\ GainUpTo(grades, 5) = a(5) + 2 * b(5)
  BY <1>14
<1> DEFINE u(j) == GainUpTo(grades, j)
<1>17. u(1) \in Int /\ u(2) \in Int /\ u(3) \in Int /\ u(4) \in Int /\ u(5) \in Int
  BY GainUpToType
<1>18. /\ gain[1] = u(1) /\ gain[2] = u(2) - u(1) /\ gain[3] = u(3) - u(2)
       /\ gain[4] = u(4) - u(3) /\ gain[5] = u(5) - u(4)
  BY <1>15, <1>16
<1>19. Rnk!Dcg(grades) = f[1] + f[2] + f[3] + f[4] + f[5]
  BY <1>4, <1>7, <1>8
<1> HIDE DEF u
<1>20. Rnk!Dcg(grades) = ByPlace(u(1), u(2), u(3), u(4), u(5))
  BY <1>9, <1>18, <1>19, SMT DEF ByPlace
<1>21. ByPlace(u(1), u(2), u(3), u(4), u(5)) = ByGain(u(1), u(2), u(3), u(4), u(5))
  BY <1>17, SameSum
<1>22. QED
  BY <1>20, <1>21 DEF u

\* A list whose first cases gain more at every place has more discounted gain.
LEMMA DcgMonotone ==
    ASSUME NEW g \in Seq({0, 1, 2}), NEW h \in Seq({0, 1, 2}),
           \A j \in Top : GainUpTo(g, j) <= GainUpTo(h, j)
    PROVE  Rnk!Dcg(g) <= Rnk!Dcg(h)
<1>1. /\ GainUpTo(g, 1) <= GainUpTo(h, 1) /\ GainUpTo(g, 2) <= GainUpTo(h, 2)
      /\ GainUpTo(g, 3) <= GainUpTo(h, 3) /\ GainUpTo(g, 4) <= GainUpTo(h, 4)
      /\ GainUpTo(g, 5) <= GainUpTo(h, 5)
  <2>1. 1 \in Top /\ 2 \in Top /\ 3 \in Top /\ 4 \in Top /\ 5 \in Top
    BY DEF Top
  <2>2. QED
    BY <2>1
<1>2. \A j \in Nat : GainUpTo(g, j) \in Nat /\ GainUpTo(h, j) \in Nat
  BY GainUpToType
<1>3. /\ GainUpTo(g, 1) \in Nat /\ GainUpTo(g, 2) \in Nat /\ GainUpTo(g, 3) \in Nat
      /\ GainUpTo(g, 4) \in Nat /\ GainUpTo(g, 5) \in Nat
  BY <1>2
<1>a. /\ GainUpTo(h, 1) \in Nat /\ GainUpTo(h, 2) \in Nat /\ GainUpTo(h, 3) \in Nat
      /\ GainUpTo(h, 4) \in Nat /\ GainUpTo(h, 5) \in Nat
  BY <1>2
<1>4. PICK a \in Int, b \in Int, c \in Int, d \in Int, e \in Int :
        /\ a = GainUpTo(g, 1) /\ b = GainUpTo(g, 2) /\ c = GainUpTo(g, 3)
        /\ d = GainUpTo(g, 4) /\ e = GainUpTo(g, 5)
  BY <1>3
<1>5. PICK v \in Int, w \in Int, x \in Int, y \in Int, z \in Int :
        /\ v = GainUpTo(h, 1) /\ w = GainUpTo(h, 2) /\ x = GainUpTo(h, 3)
        /\ y = GainUpTo(h, 4) /\ z = GainUpTo(h, 5)
  BY <1>a
<1>6. a <= v /\ b <= w /\ c <= x /\ d <= y /\ e <= z
  BY <1>1, <1>4, <1>5
<1>7. ByGain(a, b, c, d, e) <= ByGain(v, w, x, y, z)
  BY <1>6, MoreIsGained
<1>8. Rnk!Dcg(g) = ByGain(a, b, c, d, e)
  BY <1>4, DcgByPlace
<1>9. Rnk!Dcg(h) = ByGain(v, w, x, y, z)
  BY <1>5, DcgByPlace
<1>10. QED
  BY <1>7, <1>8, <1>9

-----------------------------------------------------------------------------
(* Metrics. *)

Best2(query) == {case \in Rnk!Relevant(query) : Rnk!Grade(query, case) = 2}

\* What the judgments of a query are: finitely many relevant cases, of grades 1 and 2.
LEMMA QueriesAreGraded ==
    ASSUME NEW query, IsList(query.judgments), IsFiniteSet(query.hard), Rnk!JudgmentsParse(query)
    PROVE  /\ IsFiniteSet(Rnk!Relevant(query)) /\ IsFiniteSet(Rnk!Judged(query))
           /\ \A case : Rnk!Grade(query, case) \in {0, 1, 2}
           /\ \A case : (Rnk!Grade(query, case) = 0) <=> (case \notin Rnk!Relevant(query))
           /\ Rnk!Relevant(query) \cap query.hard = {}
<1>1. IsFiniteSet(Rnk!Relevant(query))
  <2> DEFINE f == [i \in DOMAIN query.judgments |-> query.judgments[i].case]
  <2>1. Rnk!Relevant(query) = {f[i] : i \in DOMAIN query.judgments}
    BY DEF Rnk!Relevant
  <2>2. IsFiniteSet(DOMAIN query.judgments)
    BY ListPlaces
  <2> HIDE DEF f
  <2>3. IsFiniteSet({f[i] : i \in DOMAIN query.judgments})
    BY <2>2, ImageOf
  <2>4. QED
    BY <2>1, <2>3
<1>2. IsFiniteSet(Rnk!Judged(query))
  BY <1>1, FS_Union DEF Rnk!Judged
<1>3. ASSUME NEW case PROVE /\ Rnk!Grade(query, case) \in {0, 1, 2}
                            /\ (Rnk!Grade(query, case) = 0) <=> (case \notin Rnk!Relevant(query))
  <2> DEFINE of == {j \in ToSet(query.judgments) : j.case = case}
  <2>1. Rnk!Grade(query, case) = IF of = {} THEN 0 ELSE (CHOOSE j \in of : TRUE).grade
    <3>1. Rnk!ToSet(query.judgments) = ToSet(query.judgments)
      BY RnkCopies
    <3>2. QED
      BY <3>1 DEF Rnk!Grade
  <2>2. of = {} <=> case \notin Rnk!Relevant(query)
    BY DEF Rnk!Relevant, ToSet
  <2>3. \A j \in of : j.grade \in {1, 2}
    BY DEF Rnk!JudgmentsParse, ToSet
  <2> HIDE DEF of
  <2>4. of # {} => (CHOOSE j \in of : TRUE).grade \in {1, 2}
    BY <2>3
  <2>5. QED
    BY <2>1, <2>2, <2>4
<1>4. QED
  BY <1>1, <1>2, <1>3 DEF Rnk!JudgmentsParse

\* The gain of the first cases of a list, counted at the places of the relevant ones.
LEMMA GradesGain ==
    ASSUME NEW query, IsList(query.judgments), IsFiniteSet(query.hard), Rnk!JudgmentsParse(query),
           NEW s, IsList(s), NEW j
    PROVE  /\ Rnk!Grades(query, s) \in Seq({0, 1, 2})
           /\ GainUpTo(Rnk!Grades(query, s), j)
                = UpTo(PlacesOf(s, Rnk!Relevant(query)), j) + 2 * UpTo(PlacesOf(s, Best2(query)), j)
<1> DEFINE g == Rnk!Grades(query, s)
           grade(r) == Rnk!Grade(query, s[r].case)
<1>1. DOMAIN s = 1..Len(s) /\ Len(s) \in Nat
  BY ListPlaces
<1>2. g = [r \in DOMAIN s |-> grade(r)]
  BY DEF Rnk!Grades
<1>3. \A r \in DOMAIN s : grade(r) \in {0, 1, 2}
  BY QueriesAreGraded
<1>4. \A r \in DOMAIN s : (grade(r) = 0) <=> (s[r].case \notin Rnk!Relevant(query))
  BY QueriesAreGraded
<1>5. g \in Seq({0, 1, 2})
  <2> HIDE DEF g, grade
  <2> QED BY <1>1, <1>2, <1>3
<1>6. {i \in DOMAIN g : g[i] # 0} = PlacesOf(s, Rnk!Relevant(query))
  <2> HIDE DEF g
  <2> QED BY <1>2, <1>4 DEF PlacesOf
<1>7. {i \in DOMAIN g : g[i] = 2} = PlacesOf(s, Best2(query))
  <2>1. \A r \in DOMAIN s : s[r].case \in Best2(query) <=> grade(r) = 2
    BY <1>4 DEF Best2
  <2> HIDE DEF g, grade
  <2>2. QED
    BY <1>2, <2>1 DEF PlacesOf
<1>8. QED
  BY <1>5, <1>6, <1>7 DEF GainUpTo

\* The first n of a list are n.
LEMMA FirstOf ==
    ASSUME NEW n \in Nat, NEW j \in Nat
    PROVE  UpTo(1..n, j) = IF j <= n THEN j ELSE n
<1>1. {i \in 1..j : i \in 1..n} = 1..(IF j <= n THEN j ELSE n)
  OBVIOUS
<1>2. \A m \in Nat : Cardinality(1..m) = m
  <2> SUFFICES ASSUME NEW m \in Nat PROVE Cardinality(1..m) = m
    OBVIOUS
  <2>1. Cardinality(1..m) = IF 1 > m THEN 0 ELSE m - 1 + 1
    BY FS_Interval
  <2>2. QED
    BY <2>1
<1>3. QED
  BY <1>1, <1>2 DEF UpTo

\* The gain of the ideal order, which has the cases of grade 2 first.
LEMMA IdealGain ==
    ASSUME NEW query, IsFiniteSet(Rnk!Relevant(query)), NEW j \in Nat
    PROVE  LET R == Cardinality(Rnk!Relevant(query))
               b == Cardinality(Best2(query))
           IN  /\ R \in Nat /\ b \in Nat
               /\ Rnk!IdealGrades(query) \in Seq({0, 1, 2})
               /\ GainUpTo(Rnk!IdealGrades(query), j)
                    = (IF j <= R THEN j ELSE R) + 2 * (IF j <= b THEN j ELSE b)
<1> DEFINE R == Cardinality(Rnk!Relevant(query))
           b == Cardinality(Best2(query))
           g == Rnk!IdealGrades(query)
<1>1. R \in Nat /\ b \in Nat /\ b <= R
  BY FS_Subset, FS_CardinalityType DEF Best2
<1>2. g = [r \in 1..R |-> IF r <= b THEN 2 ELSE 1]
  BY RnkCopies DEF Rnk!IdealGrades, Best2
<1> HIDE DEF R, b, g
<1>3. g \in Seq({0, 1, 2}) /\ DOMAIN g = 1..R
  BY <1>1, <1>2
<1>4. {i \in DOMAIN g : g[i] # 0} = 1..R
  BY <1>1, <1>2
<1>5. {i \in DOMAIN g : g[i] = 2} = 1..b
  BY <1>1, <1>2
<1>6. UpTo(1..R, j) = IF j <= R THEN j ELSE R
  BY <1>1, FirstOf
<1>7. UpTo(1..b, j) = IF j <= b THEN j ELSE b
  BY <1>1, FirstOf
<1>8. QED
  BY <1>1, <1>3, <1>4, <1>5, <1>6, <1>7 DEF GainUpTo, R, b, g

\* A pool gains at least what the full ranking does, and no more than the ideal order.
LEMMA GainsFlatter ==
    ASSUME NEW query, IsList(query.judgments), IsFiniteSet(query.hard), Rnk!JudgmentsParse(query),
           NEW ranking, IsList(ranking), IsList(Rnk!Pool(query, ranking)),
           Rnk!Distinct(Rnk!Pool(query, ranking))
    PROVE  /\ Rnk!Dcg(Rnk!Grades(query, ranking)) <= Rnk!Dcg(Rnk!Grades(query, Rnk!Pool(query, ranking)))
           /\ Rnk!Dcg(Rnk!Grades(query, Rnk!Pool(query, ranking))) <= Rnk!Dcg(Rnk!IdealGrades(query))
<1> DEFINE pool == Rnk!Pool(query, ranking)
           Rel == Rnk!Relevant(query)
           g == Rnk!Grades(query, ranking)
           h == Rnk!Grades(query, pool)
           k == Rnk!IdealGrades(query)
<1>1. Rel \in SUBSET Rnk!Judged(query) /\ Best2(query) \in SUBSET Rnk!Judged(query)
  BY DEF Rnk!Judged, Best2
<1>2. IsFiniteSet(Rel)
  BY QueriesAreGraded
<1>b. IsFiniteSet(Best2(query))
  BY <1>2, FS_Subset DEF Best2
<1>3. g \in Seq({0, 1, 2}) /\ h \in Seq({0, 1, 2})
  BY GradesGain
<1>4. k \in Seq({0, 1, 2})
  <2>1. 0 \in Nat
    OBVIOUS
  <2>2. QED
    BY <1>2, <2>1, IdealGain
<1>5. ASSUME NEW j \in Top PROVE GainUpTo(g, j) <= GainUpTo(h, j) /\ GainUpTo(h, j) <= GainUpTo(k, j)
  <2> DEFINE a(s, K) == UpTo(PlacesOf(s, K), j)
  <2>0. j \in Nat /\ j <= 5
    BY DEF Top
  <2>1. GainUpTo(g, j) = a(ranking, Rel) + 2 * a(ranking, Best2(query))
    BY GradesGain
  <2>2. GainUpTo(h, j) = a(pool, Rel) + 2 * a(pool, Best2(query))
    BY GradesGain
  <2>3. a(ranking, Rel) <= a(pool, Rel) /\ a(ranking, Best2(query)) <= a(pool, Best2(query))
    BY <1>1, <2>0, PoolHasMore
  <2>4. a(pool, Rel) <= Cardinality(Rel) /\ a(pool, Best2(query)) <= Cardinality(Best2(query))
    BY <1>2, <1>b, <2>0, KindsAreFew
  <2>5. \A s, K : a(s, K) \in Nat /\ a(s, K) <= j
    BY <2>0, UpToType
  <2> DEFINE R == Cardinality(Rel)
             b == Cardinality(Best2(query))
  <2>6. R \in Nat /\ b \in Nat /\ GainUpTo(k, j) = (IF j <= R THEN j ELSE R) + 2 * (IF j <= b THEN j ELSE b)
    BY <1>2, <2>0, IdealGain
  <2>7. /\ a(pool, Rel) \in Nat /\ a(pool, Rel) <= j
        /\ a(pool, Best2(query)) \in Nat /\ a(pool, Best2(query)) <= j
        /\ a(ranking, Rel) \in Nat /\ a(ranking, Best2(query)) \in Nat
    BY <2>5
  <2> HIDE DEF a, R, b, g, h, k
  <2>8. a(pool, Rel) <= R /\ a(pool, Best2(query)) <= b
    BY <2>4 DEF R, b
  <2>9. QED
    BY <2>0, <2>1, <2>2, <2>3, <2>6, <2>7, <2>8
<1> HIDE DEF g, h, k
<1>6. Rnk!Dcg(g) <= Rnk!Dcg(h)
  BY <1>3, <1>5, DcgMonotone
<1>7. Rnk!Dcg(h) <= Rnk!Dcg(k)
  BY <1>3, <1>4, <1>5, DcgMonotone
<1>8. QED
  BY <1>6, <1>7 DEF g, h, k, pool

\* A quotient grows as the divisor falls, and 60 times a part is at most 60.
LEMMA EarlierDivides ==
    ASSUME NEW a \in Nat, NEW r \in Nat \ {0}, NEW c \in Nat \ {0}, c <= r
    PROVE  /\ a \div r \in Nat /\ a \div c \in Nat
           /\ a \div r <= a \div c
<1> DEFINE q == a \div r
           p == a \div c
<1>1. q \in Int /\ p \in Int /\ r * q <= a /\ a < r * q + r /\ c * p <= a /\ a < c * p + c
  OBVIOUS
<1>2. q >= 0 /\ p >= 0
  OBVIOUS
<1> HIDE DEF q, p
<1>3. q <= p
  <2> SUFFICES ASSUME p + 1 <= q PROVE FALSE
    BY <1>1
  <2>1. c * (p + 1) <= c * q
    BY <1>1
  <2>2. c * q <= r * q
    BY <1>1, <1>2
  <2>3. c * (p + 1) = c * p + c
    BY <1>1
  <2>4. c * q \in Int /\ r * q \in Int /\ c * p \in Int
    BY <1>1
  <2>5. QED
    BY <1>1, <2>1, <2>2, <2>3, <2>4
<1>4. QED
  BY <1>1, <1>2, <1>3 DEF p, q

\* Sixty times a part of r, divided by r, is at most 60.
LEMMA PartsOfSixty ==
    ASSUME NEW x \in Nat, NEW r \in Nat \ {0}, x <= r
    PROVE  (60 * x) \div r <= 60
<1> DEFINE q == (60 * x) \div r
<1>1. q \in Int /\ r * q <= 60 * x
  OBVIOUS
<1> HIDE DEF q
<1>2. q <= 60
  <2> SUFFICES ASSUME 61 <= q PROVE FALSE
    BY <1>1
  <2>1. r * 61 <= r * q
    BY <1>1
  <2>2. r * q \in Int
    BY <1>1
  <2>3. QED
    BY <1>1, <2>1, <2>2
<1>3. QED
  BY <1>2 DEF q

\* The relevant cases up to a place, counted at their places.
LEMMA RelevantCount ==
    ASSUME NEW query, NEW s, IsList(s), NEW r \in 0..Len(s)
    PROVE  Rnk!RelevantUpTo(query, s, r) = UpTo(PlacesOf(s, Rnk!Relevant(query)), r)
<1>1. Len(s) \in Nat /\ DOMAIN s = 1..Len(s)
  BY ListPlaces
<1>2. {i \in 1..r : s[i].case \in Rnk!Relevant(query)}
        = {i \in 1..r : i \in PlacesOf(s, Rnk!Relevant(query))}
  BY <1>1 DEF PlacesOf
<1>3. QED
  BY <1>2, RnkCopies DEF Rnk!RelevantUpTo, UpTo

\* What is counted up to the cutoff is counted up to 5, whatever the length of the list.
LEMMA AtCutoff ==
    ASSUME NEW s, IsList(s)
    PROVE  /\ Rnk!Min({Rnk!Cutoff, Len(s)}) \in 0..Len(s)
           /\ Rnk!Min({Rnk!Cutoff, Len(s)}) = Min({Rnk!Cutoff, Len(s)})
           /\ \A K : UpTo(PlacesOf(s, K), Rnk!Min({Rnk!Cutoff, Len(s)})) = UpTo(PlacesOf(s, K), 5)
<1> DEFINE N == Len(s)
<1>1. N \in Nat /\ DOMAIN s = 1..N
  BY ListPlaces
<1>2. Rnk!Cutoff \in Int /\ Rnk!Cutoff = 5
  BY DEF Rnk!Cutoff
<1>3. Rnk!Min({Rnk!Cutoff, N}) = Min({Rnk!Cutoff, N})
  BY RnkCopies
<1>4. Min({Rnk!Cutoff, N}) = IF 5 <= N THEN 5 ELSE N
  BY <1>1, <1>2, LesserOf
<1>5. ASSUME NEW K PROVE UpTo(PlacesOf(s, K), Rnk!Min({Rnk!Cutoff, N})) = UpTo(PlacesOf(s, K), 5)
  <2>1. PlacesOf(s, K) \in SUBSET (1..N)
    BY <1>1 DEF PlacesOf
  <2> HIDE DEF N
  <2>2. CASE 5 <= N
    BY <1>3, <1>4, <2>2
  <2>3. CASE ~ (5 <= N)
    <3>1. N <= 5
      BY <1>1, <2>3
    <3>2. UpTo(PlacesOf(s, K), 5) = UpTo(PlacesOf(s, K), N)
      BY <1>1, <2>1, <3>1, UpToEnd
    <3>3. QED
      BY <1>3, <1>4, <2>3, <3>2
  <2>4. QED
    BY <2>2, <2>3
<1>6. Rnk!Min({Rnk!Cutoff, N}) \in 0..N
  BY <1>1, <1>3, <1>4
<1>7. QED
  BY <1>3, <1>5, <1>6

\* Where a case of the full ranking is in the pool: at the number of judged cases up to it.
LEMMA PlacesInPool ==
    ASSUME NEW query, NEW ranking, IsList(ranking), NEW r \in DOMAIN ranking,
           ranking[r].case \in Rnk!Judged(query)
    PROVE  LET c == UpTo(JudgedPlaces(query, ranking), r)
               pool == Rnk!Pool(query, ranking)
           IN  /\ c \in DOMAIN pool /\ c \in Nat \ {0} /\ c <= r
               /\ pool[c] = ranking[r]
<1> DEFINE J == JudgedPlaces(query, ranking)
           m == UpTo(J, Len(ranking))
           c == UpTo(J, r)
           pool == Rnk!Pool(query, ranking)
<1>1. r \in J /\ r \in Nat
  BY ListPlaces DEF JudgedPlaces
<1>2. c \in 1..m /\ FullPlace(query, ranking, c) = r
  BY <1>1, PlacesInOrder
<1>3. DOMAIN pool = 1..m /\ m \in Nat
  BY PoolPlaces
<1>4. \A n \in 1..m : pool[n] = ranking[FullPlace(query, ranking, n)]
  BY PoolPlaces
<1>5. c <= r
  BY <1>1, UpToType
<1> HIDE DEF c, m, J, pool
<1>6. QED
  BY <1>2, <1>3, <1>4, <1>5 DEF c, m, J, pool

\* The first relevant case is at least as early in the pool.
LEMMA ReciprocalFlatters ==
    ASSUME NEW query, NEW ranking, IsList(ranking), IsList(Rnk!Pool(query, ranking))
    PROVE  Rnk!QueryMetrics(query, ranking).reciprocal
             <= Rnk!QueryMetrics(query, Rnk!Pool(query, ranking)).reciprocal
<1> DEFINE pool == Rnk!Pool(query, ranking)
           Rel == Rnk!Relevant(query)
           F == PlacesOf(ranking, Rel)
           Q == PlacesOf(pool, Rel)
           Rec(P) == IF P = {} THEN 0 ELSE 60 \div Min(P)
<1>1. \A s : Rnk!QueryMetrics(query, s).reciprocal = Rec(PlacesOf(s, Rel))
  BY RnkCopies DEF Rnk!QueryMetrics, PlacesOf, Rnk!RankScale
<1>2. F \in SUBSET (Nat \ {0}) /\ Q \in SUBSET (Nat \ {0}) /\ F \in SUBSET Nat /\ Q \in SUBSET Nat
  BY ListPlaces DEF PlacesOf
<1>3. ASSUME F # {} PROVE Q # {} /\ Min(Q) <= Min(F)
  <2> DEFINE r == Min(F)
             c == UpTo(JudgedPlaces(query, ranking), r)
  <2>1. r \in F
    BY <1>2, <1>3, Least
  <2>2. r \in DOMAIN ranking /\ ranking[r].case \in Rel /\ ranking[r].case \in Rnk!Judged(query) /\ r \in Nat
    BY <1>2, <2>1 DEF PlacesOf, Rnk!Judged
  <2> HIDE DEF r
  <2>3. c \in DOMAIN pool /\ c \in Nat \ {0} /\ c <= r /\ pool[c] = ranking[r]
    BY <2>2, PlacesInPool
  <2> HIDE DEF c, pool
  <2>4. c \in Q
    BY <2>2, <2>3 DEF PlacesOf
  <2>5. Min(Q) \in Q /\ Min(Q) <= c
    BY <1>2, <2>4, Least
  <2> HIDE DEF Q
  <2>6. Min(Q) \in Nat
    BY <1>2, <2>5
  <2>7. QED
    BY <2>2, <2>3, <2>4, <2>5, <2>6 DEF r
<1> HIDE DEF F, Q, pool
<1>4. Rec(F) <= Rec(Q)
  <2>1. CASE F = {}
    <3>1. Q # {} => 60 \div Min(Q) \in Nat
      <4> SUFFICES ASSUME Q # {} PROVE 60 \div Min(Q) \in Nat
        OBVIOUS
      <4>1. Min(Q) \in Q
        BY <1>2, Least
      <4>2. Min(Q) \in Nat \ {0}
        BY <1>2, <4>1
      <4>3. QED
        BY <4>2, EarlierDivides
    <3>2. QED
      BY <2>1, <3>1
  <2>2. CASE F # {}
    <3>1. Min(F) \in F
      BY <1>2, <2>2, Least
    <3>2. Min(Q) \in Q
      BY <1>2, <1>3, <2>2, Least
    <3>3. Min(F) \in Nat \ {0} /\ Min(Q) \in Nat \ {0} /\ Min(Q) <= Min(F) /\ Q # {}
      BY <1>2, <1>3, <2>2, <3>1, <3>2
    <3>4. 60 \div Min(F) <= 60 \div Min(Q)
      BY <3>3, EarlierDivides
    <3>5. QED
      BY <2>2, <3>3, <3>4
  <2>3. QED
    BY <2>1, <2>2
<1>5. QED
  <2>1. Rnk!QueryMetrics(query, ranking).reciprocal = Rec(F)
    BY <1>1 DEF F
  <2>2. Rnk!QueryMetrics(query, pool).reciprocal = Rec(Q)
    BY <1>1 DEF Q
  <2> HIDE DEF Rec
  <2>3. QED
    BY <1>4, <2>1, <2>2 DEF pool

\* The precision at each relevant case is at least as high in the pool, and is at most 1.
LEMMA PrecisionFlatters ==
    ASSUME NEW query, IsFiniteSet(Rnk!Relevant(query)), NEW ranking, IsList(ranking), Rnk!Distinct(ranking),
           IsList(Rnk!Pool(query, ranking)), Rnk!Distinct(Rnk!Pool(query, ranking)),
           Rnk!RankedCases(Rnk!Pool(query, ranking)) = Rnk!Judged(query) \cap Rnk!RankedCases(ranking)
    PROVE  LET pool == Rnk!Pool(query, ranking)
           IN  /\ Rnk!QueryMetrics(query, ranking).precision <= Rnk!QueryMetrics(query, pool).precision
               /\ Rnk!QueryMetrics(query, pool).precision <= 60 * Cardinality(Rnk!Relevant(query))
<1> DEFINE pool == Rnk!Pool(query, ranking)
           Rel == Rnk!Relevant(query)
           D == Rel \cap Rnk!RankedCases(ranking)
           f == Rnk!Precisions(query, ranking)
           g == Rnk!Precisions(query, pool)
           Term(s, case) == (60 * Rnk!RelevantUpTo(query, s, Rnk!RankOf(s, case))) \div Rnk!RankOf(s, case)
<1>1. Rel \cap Rnk!RankedCases(pool) = D
  BY DEF Rnk!Judged
<1>2. f = [case \in D |-> Term(ranking, case)]
  BY DEF Rnk!Precisions, Rnk!RankScale
<1>3. g = [case \in D |-> Term(pool, case)]
  BY <1>1 DEF Rnk!Precisions, Rnk!RankScale
<1>4. ASSUME NEW case \in D
      PROVE  /\ Term(ranking, case) \in Int /\ Term(pool, case) \in Int
             /\ Term(ranking, case) <= Term(pool, case)
             /\ Term(pool, case) <= 60
  <2> DEFINE r == Rnk!RankOf(ranking, case)
             c == UpTo(JudgedPlaces(query, ranking), r)
             x == UpTo(PlacesOf(ranking, Rel), r)
  <2>1. r \in DOMAIN ranking /\ ranking[r].case = case
    <3>1. \E i \in DOMAIN ranking : ranking[i].case = case
      BY RnkCopies DEF Rnk!RankedCases, ToSet
    <3>2. QED
      BY <3>1 DEF Rnk!RankOf
  <2> HIDE DEF r
  <2>2. r \in Nat \ {0} /\ r \in 0..Len(ranking)
    BY <2>1, ListPlaces
  <2>3. ranking[r].case \in Rnk!Judged(query)
    BY <2>1 DEF Rnk!Judged
  <2>4. c \in DOMAIN pool /\ c \in Nat \ {0} /\ c <= r /\ pool[c] = ranking[r]
    BY <2>1, <2>3, PlacesInPool
  <2>5. Rnk!RankOf(pool, case) = c
    <3> DEFINE p == Rnk!RankOf(pool, case)
    <3>1. pool[c].case = case
      BY <2>1, <2>4
    <3>2. p \in DOMAIN pool /\ pool[p].case = case
      <4> HIDE DEF c, pool
      <4> QED BY <2>4, <3>1 DEF Rnk!RankOf
    <3>3. \A i, k \in DOMAIN pool : pool[i].case = pool[k].case => i = k
      BY DistinctLists
    <3> HIDE DEF p, c, pool
    <3>4. p = c
      BY <2>4, <3>1, <3>2, <3>3
    <3>5. QED
      BY <3>4 DEF p
  <2>6. Rnk!RelevantUpTo(query, ranking, r) = x
    BY <2>2, RelevantCount
  <2>7. Rnk!RelevantUpTo(query, pool, c) = x
    <3>1. c \in 0..Len(pool)
      BY <2>4, ListPlaces
    <3>2. Rnk!RelevantUpTo(query, pool, c) = UpTo(PlacesOf(pool, Rel), c)
      BY <3>1, RelevantCount
    <3>3. Rel \in SUBSET Rnk!Judged(query)
      BY DEF Rnk!Judged
    <3>4. x = UpTo(PlacesOf(pool, Rel), c)
      BY <2>2, <3>3, KindsInPool
    <3>5. QED
      BY <3>2, <3>4
  <2>8. x \in Nat /\ x <= c
    <3>1. UpTo(PlacesOf(pool, Rel), c) \in Nat /\ UpTo(PlacesOf(pool, Rel), c) <= c
      BY <2>4, UpToType
    <3>2. Rel \in SUBSET Rnk!Judged(query)
      BY DEF Rnk!Judged
    <3>3. x = UpTo(PlacesOf(pool, Rel), c)
      BY <2>2, <3>2, KindsInPool
    <3>4. QED
      BY <3>1, <3>3
  <2>9. Term(ranking, case) = (60 * x) \div r /\ Term(pool, case) = (60 * x) \div c
    BY <2>5, <2>6, <2>7 DEF r
  <2> HIDE DEF x, c, Term
  <2>10. 60 * x \in Nat
    BY <2>8
  <2>11. /\ (60 * x) \div r \in Nat /\ (60 * x) \div c \in Nat
         /\ (60 * x) \div r <= (60 * x) \div c
    BY <2>2, <2>4, <2>10, EarlierDivides
  <2>12. (60 * x) \div c <= 60
    BY <2>4, <2>8, PartsOfSixty
  <2>13. QED
    BY <2>9, <2>11, <2>12
<1>5. IsFiniteSet(D) /\ Cardinality(D) <= Cardinality(Rel) /\ Cardinality(D) \in Nat /\ Cardinality(Rel) \in Nat
  BY FS_Subset, FS_CardinalityType
<1>6. /\ Rnk!QueryMetrics(query, ranking).precision = Rnk!SumFunction(f)
      /\ Rnk!QueryMetrics(query, pool).precision = Rnk!SumFunction(g)
  BY DEF Rnk!QueryMetrics
<1> HIDE DEF D, f, g, Term
<1>7. /\ Rnk!SumFunction(f) = Sum(f, D) /\ Rnk!SumFunction(g) = Sum(g, D)
  BY <1>2, <1>3, RnkCopies
<1>8. \A case \in D : f[case] \in Int /\ g[case] \in Int /\ f[case] <= g[case]
  BY <1>2, <1>3, <1>4
<1>9. \A case \in D : g[case] \in Int /\ g[case] <= 60
  BY <1>3, <1>4
<1>10. Sum(f, D) <= Sum(g, D)
  BY <1>5, <1>8, SumMonotone
<1>11. Sum(g, D) <= 60 * Cardinality(D)
  <2>1. 60 \in Int
    OBVIOUS
  <2>2. QED
    BY <1>5, <1>9, <2>1, SumBound
<1>12. Sum(g, D) \in Int
  BY <1>5, <1>9, SumType
<1> HIDE DEF pool, Rel
<1>13. Sum(g, D) <= 60 * Cardinality(Rel)
  BY <1>5, <1>11, <1>12
<1>14. QED
  BY <1>6, <1>7, <1>10, <1>13 DEF pool, Rel

\* The relevant cases above the cutoff, and what is there of every other kind.
LEMMA CutoffAddsUp ==
    ASSUME NEW query, Rnk!Relevant(query) \cap query.hard = {}, NEW s, IsList(s)
    PROVE  LET m == Rnk!QueryMetrics(query, s)
           IN  /\ m.judgedAt + m.unjudgedAt = Min({Rnk!Cutoff, Len(s)})
               /\ m.judgedAt = m.relevantAt + m.hardAt
<1> DEFINE Rel == Rnk!Relevant(query)
           n == Rnk!Min({Rnk!Cutoff, Len(s)})
           U == {r \in 1..n : s[r].case \in Rel}
           H == {r \in 1..n : s[r].case \in query.hard}
           J == {r \in 1..n : s[r].case \in Rnk!Judged(query)}
           X == {r \in 1..n : s[r].case \notin Rnk!Judged(query)}
           m == Rnk!QueryMetrics(query, s)
<1>1. n \in 0..Len(s) /\ n = Min({Rnk!Cutoff, Len(s)}) /\ Len(s) \in Nat
  BY AtCutoff, ListPlaces
<1>2. n \in Nat
  BY <1>1
<1>3. /\ m.judgedAt = Cardinality(J) /\ m.unjudgedAt = Cardinality(X)
      /\ m.relevantAt = Cardinality(U) /\ m.hardAt = Cardinality(H)
  BY RnkCopies DEF Rnk!QueryMetrics, Rnk!JudgedUpTo, Rnk!RelevantUpTo
<1>4. J \cup X = 1..n /\ J \cap X = {} /\ U \cup H = J /\ U \cap H = {}
  BY DEF Rnk!Judged
<1>5. U \subseteq 1..n /\ H \subseteq 1..n /\ J \subseteq 1..n /\ X \subseteq 1..n
  OBVIOUS
<1> HIDE DEF U, H, J, X, n, m
<1>6. IsFiniteSet(1..n) /\ Cardinality(1..n) = n
  BY <1>2, FS_Interval
<1>7. IsFiniteSet(U) /\ IsFiniteSet(H) /\ IsFiniteSet(J) /\ IsFiniteSet(X)
  BY <1>5, <1>6, FS_Subset
<1>8. /\ Cardinality(U) \in Nat /\ Cardinality(H) \in Nat /\ Cardinality(J) \in Nat /\ Cardinality(X) \in Nat
  BY <1>7, FS_CardinalityType
<1>9. Cardinality(J) + Cardinality(X) = n
  <2>1. Cardinality(J \cup X) = Cardinality(J) + Cardinality(X) - Cardinality(J \cap X)
    BY <1>7, FS_Union
  <2>2. J \cap X = {} /\ Cardinality({}) = 0
    BY <1>4, FS_EmptySet
  <2>3. Cardinality(J \cup X) = n
    BY <1>4, <1>6
  <2>4. Cardinality(J \cap X) = 0
    BY <2>2
  <2>5. QED
    BY <1>8, <2>1, <2>3, <2>4
<1>10. Cardinality(J) = Cardinality(U) + Cardinality(H)
  <2>1. Cardinality(U \cup H) = Cardinality(U) + Cardinality(H) - Cardinality(U \cap H)
    BY <1>7, FS_Union
  <2>2. U \cap H = {} /\ Cardinality({}) = 0
    BY <1>4, FS_EmptySet
  <2>3. Cardinality(U \cup H) = Cardinality(J) /\ Cardinality(U \cap H) = 0
    BY <1>4, <2>2
  <2>4. QED
    BY <1>8, <2>1, <2>3
<1>11. QED
  BY <1>1, <1>3, <1>9, <1>10 DEF m, n

\* No fewer relevant cases are above the cutoff in the pool, and no more than there are.
LEMMA RecallFlatters ==
    ASSUME NEW query, IsFiniteSet(Rnk!Relevant(query)), NEW ranking, IsList(ranking),
           IsList(Rnk!Pool(query, ranking)), Rnk!Distinct(Rnk!Pool(query, ranking))
    PROVE  LET pool == Rnk!Pool(query, ranking)
           IN  /\ Rnk!QueryMetrics(query, ranking).relevantAt <= Rnk!QueryMetrics(query, pool).relevantAt
               /\ Rnk!QueryMetrics(query, pool).relevantAt <= Cardinality(Rnk!Relevant(query))
<1> DEFINE pool == Rnk!Pool(query, ranking)
           Rel == Rnk!Relevant(query)
<1>1. ASSUME NEW s, IsList(s)
      PROVE  Rnk!QueryMetrics(query, s).relevantAt = UpTo(PlacesOf(s, Rel), 5)
  <2> DEFINE n == Rnk!Min({Rnk!Cutoff, Len(s)})
  <2>1. n \in 0..Len(s) /\ UpTo(PlacesOf(s, Rel), n) = UpTo(PlacesOf(s, Rel), 5)
    BY <1>1, AtCutoff
  <2>2. Rnk!QueryMetrics(query, s).relevantAt = Rnk!RelevantUpTo(query, s, n)
    BY DEF Rnk!QueryMetrics
  <2> HIDE DEF n
  <2>3. Rnk!RelevantUpTo(query, s, n) = UpTo(PlacesOf(s, Rel), n)
    BY <1>1, <2>1, RelevantCount
  <2>4. QED
    BY <2>1, <2>2, <2>3
<1>2. 5 \in Nat /\ Rel \in SUBSET Rnk!Judged(query)
  BY DEF Rnk!Judged
<1>3. UpTo(PlacesOf(ranking, Rel), 5) <= UpTo(PlacesOf(pool, Rel), 5)
  BY <1>2, PoolHasMore
<1>4. UpTo(PlacesOf(pool, Rel), 5) <= Cardinality(Rel)
  BY <1>2, KindsAreFew
<1>5. QED
  BY <1>1, <1>3, <1>4

\* query_ranking.py: the pool flatters, metric by metric.
LEMMA PoolsFlatter == ASSUME GatesInit PROVE ClosedPoolFlatters
<1> DEFINE query == input.query
           ranking == input.ranking
           pool == Rnk!Pool(query, ranking)
           full == Rnk!QueryMetrics(query, ranking)
           seen == Rnk!QueryMetrics(query, pool)
           universe == Rnk!RankedCases(ranking)
<1> SUFFICES ASSUME subject = "ranking", Rnk!JudgmentsParse(query),
                    Rnk!FullRankingLoads(ranking, universe)
             PROVE  /\ Rnk!PoolRankingLoads(pool, query)
                    /\ full.dcg <= seen.dcg /\ seen.dcg <= seen.idcg
                    /\ full.relevantAt <= seen.relevantAt /\ seen.relevantAt <= seen.relevant
                    /\ full.precision <= seen.precision
                    /\ seen.precision <= Rnk!RankScale * seen.relevant
                    /\ full.reciprocal <= seen.reciprocal
                    /\ full.judgedAt + full.unjudgedAt = Min({Rnk!Cutoff, Len(ranking)})
                    /\ full.judgedAt = full.relevantAt + full.hardAt
  BY DEF ClosedPoolFlatters
<1>1. /\ IsList(query.judgments) /\ IsFiniteSet(query.hard)
      /\ IsList(ranking) /\ \A c \in ToSet(ranking) : c.score \in Int
  <2>1. input \in InputsOf("ranking")
    BY DEF GatesInit, InputsOf
  <2>2. QED
    BY <2>1, RankingAssumption
<1> HIDE DEF query, ranking
<1>2. Rnk!PoolRankingLoads(pool, query)
  BY <1>1, PoolLoads
<1>3. Rnk!RankedCases(pool) = Rnk!Judged(query) \cap universe
  BY <1>1, PoolLoads
<1>4. Rnk!Distinct(pool) /\ Rnk!Distinct(ranking)
  BY <1>2 DEF Rnk!PoolRankingLoads, Rnk!FullRankingLoads
<1>5. IsList(pool)
  <2>1. pool \in Seq(ToSet(ranking))
    BY <1>1, PoolPlaces
  <2> HIDE DEF pool
  <2>2. QED
    BY <2>1 DEF IsList, ToSet
<1>6. IsFiniteSet(Rnk!Relevant(query))
  BY <1>1, QueriesAreGraded
<1>7. Rnk!Relevant(query) \cap query.hard = {}
  BY DEF Rnk!JudgmentsParse
<1>8. seen.relevant = Cardinality(Rnk!Relevant(query))
  BY RnkCopies DEF Rnk!QueryMetrics
<1>9. full.dcg <= seen.dcg /\ seen.dcg <= seen.idcg
  <2>1. /\ Rnk!Dcg(Rnk!Grades(query, ranking)) <= Rnk!Dcg(Rnk!Grades(query, pool))
        /\ Rnk!Dcg(Rnk!Grades(query, pool)) <= Rnk!Dcg(Rnk!IdealGrades(query))
    BY <1>1, <1>4, <1>5, GainsFlatter
  <2>2. /\ full.dcg = Rnk!Dcg(Rnk!Grades(query, ranking)) /\ seen.dcg = Rnk!Dcg(Rnk!Grades(query, pool))
        /\ seen.idcg = Rnk!Dcg(Rnk!IdealGrades(query))
    BY DEF Rnk!QueryMetrics
  <2>3. QED
    BY <2>1, <2>2
<1>10. full.relevantAt <= seen.relevantAt /\ seen.relevantAt <= seen.relevant
  BY <1>1, <1>4, <1>5, <1>6, <1>8, RecallFlatters
<1>11. full.precision <= seen.precision /\ seen.precision <= Rnk!RankScale * seen.relevant
  <2>1. full.precision <= seen.precision /\ seen.precision <= 60 * Cardinality(Rnk!Relevant(query))
    BY <1>1, <1>3, <1>4, <1>5, <1>6, PrecisionFlatters
  <2>2. QED
    BY <1>8, <2>1 DEF Rnk!RankScale
<1>12. full.reciprocal <= seen.reciprocal
  BY <1>1, <1>5, ReciprocalFlatters
<1>13. /\ full.judgedAt + full.unjudgedAt = Min({Rnk!Cutoff, Len(ranking)})
       /\ full.judgedAt = full.relevantAt + full.hardAt
  BY <1>1, <1>7, CutoffAddsUp
<1>14. QED
  BY <1>2, <1>9, <1>10, <1>11, <1>12, <1>13

\* query_ranking.py (load_ranking_artifact, _query_metrics): whatever is ranked, the pool
\* of judged cases is measured at least as well as the ranking of every case it is from.
THEOREM FlatteringPools == GatesSpec => []ClosedPoolFlatters
<1>1. GatesInit => ClosedPoolFlatters
  BY PoolsFlatter
<1>2. QED
  BY <1>1, InputsStay, PTL

-----------------------------------------------------------------------------
(* Texts, and the parts they name.                                          *)

\* part is found in whole, from the place after o on.
Holds(whole, part, o) ==
    /\ o \in Nat /\ o + Len(part) <= Len(whole)
    /\ \A k \in 1..Len(part) : whole[o + k] = part[k]

\* The recursion that joins lists has a solution.
LEMMA JoinExists ==
    ASSUME NEW s, NEW n \in Nat
    PROVE  \E f : f = [i \in 1..n |-> IF i = 1 THEN s[i] ELSE f[i - 1] \o s[i]]
<1> DEFINE Solves(f, m) == f = [i \in 1..m |-> IF i = 1 THEN s[i] ELSE f[i - 1] \o s[i]]
           Good == {m \in Nat : \E f : Solves(f, m)}
<1>1. 0 \in Good
  <2> DEFINE f == [i \in 1..0 |-> s[i]]
  <2>1. Solves(f, 0)
    OBVIOUS
  <2>2. QED
    BY <2>1
<1>2. ASSUME NEW m \in Good PROVE m + 1 \in Good
  <2>1. PICK f : Solves(f, m)
    BY <1>2
  <2> DEFINE last == IF m + 1 = 1 THEN s[m + 1] ELSE f[m] \o s[m + 1]
             g == [i \in 1..(m + 1) |-> IF i = m + 1 THEN last ELSE f[i]]
  <2>2. m \in Nat
    OBVIOUS
  <2>3. ASSUME NEW i \in 1..(m + 1) PROVE g[i] = IF i = 1 THEN s[i] ELSE g[i - 1] \o s[i]
    <3>1. CASE i = m + 1
      <4>1. g[i] = last
        BY <3>1
      <4>2. i # 1 => i - 1 \in 1..(m + 1) /\ i - 1 # m + 1 /\ i - 1 = m
        BY <2>2, <3>1
      <4>3. i # 1 => g[i - 1] = f[m]
        BY <4>2
      <4>4. QED
        BY <3>1, <4>1, <4>3
    <3>2. CASE i # m + 1
      <4>1. i \in 1..m /\ g[i] = f[i]
        BY <2>2, <3>2
      <4>2. f[i] = IF i = 1 THEN s[i] ELSE f[i - 1] \o s[i]
        BY <2>1, <4>1
      <4>3. i # 1 => i - 1 \in 1..(m + 1) /\ i - 1 # m + 1
        BY <2>2, <4>1
      <4>4. i # 1 => g[i - 1] = f[i - 1]
        BY <4>3
      <4>5. QED
        BY <4>1, <4>2, <4>4
    <3>3. QED
      BY <3>1, <3>2
  <2>4. g = [i \in 1..(m + 1) |-> g[i]]
    OBVIOUS
  <2> HIDE DEF g
  <2>5. Solves(g, m + 1)
    BY <2>3, <2>4
  <2>6. \E h : Solves(h, m + 1)
    <3> HIDE DEF Solves
    <3> QED BY <2>5
  <2> HIDE DEF Solves
  <2>7. QED
    BY <2>2, <2>6
<1>3. Good = Nat
  <2>1. Good \in SUBSET Nat
    OBVIOUS
  <2> HIDE DEF Good
  <2>2. QED
    BY <1>1, <1>2, <2>1, CountingUp
<1>4. QED
  BY <1>3

\* What lists are joined into holds each of them.
LEMMA JoinHolds ==
    ASSUME NEW T, NEW s \in Seq(Seq(T))
    PROVE  /\ Txt!FlattenSeq(s) \in Seq(T)
           /\ \A i \in 1..Len(s) : \E o \in Nat : Holds(Txt!FlattenSeq(s), s[i], o)
<1> DEFINE n == Len(s)
           Eq(f) == f = [i \in 1..n |-> IF i = 1 THEN s[i] ELSE f[i - 1] \o s[i]]
           join == CHOOSE f : Eq(f)
           F == Txt!FlattenSeq(s)
<1>1. n \in Nat /\ \A i \in 1..n : s[i] \in Seq(T)
  OBVIOUS
<1>2. F = IF n = 0 THEN s ELSE join[n]
  BY DEF Txt!FlattenSeq
<1>3. Eq(join)
  <2>1. \E f : Eq(f)
    BY <1>1, JoinExists
  <2> HIDE DEF Eq
  <2>2. QED
    BY <2>1
<1> HIDE DEF join, F
<1>a. \A i \in 1..n : join[i] = IF i = 1 THEN s[i] ELSE join[i - 1] \o s[i]
  BY <1>3
<1>4. CASE n = 0
  <2>1. s = <<>>
    BY <1>4
  <2>2. QED
    BY <1>2, <1>4, <2>1 DEF F
<1>5. CASE n # 0
  <2> DEFINE Good == {m \in Nat : m + 1 <= n =>
                        /\ join[m + 1] \in Seq(T)
                        /\ \A i \in 1..(m + 1) : \E o \in Nat : Holds(join[m + 1], s[i], o)}
  <2>1. 0 \in Good
    <3>1. join[1] = s[1] /\ s[1] \in Seq(T)
      BY <1>1, <1>3, <1>5
    <3>2. Holds(s[1], s[1], 0)
      <4>1. Len(s[1]) \in Nat
        BY <3>1
      <4>2. QED
        BY <4>1 DEF Holds
    <3>3. QED
      BY <3>1, <3>2
  <2>2. ASSUME NEW m \in Good PROVE m + 1 \in Good
    <3> SUFFICES ASSUME m + 2 <= n
                 PROVE  /\ join[m + 2] \in Seq(T)
                        /\ \A i \in 1..(m + 2) : \E o \in Nat : Holds(join[m + 2], s[i], o)
      OBVIOUS
    <3> DEFINE a == join[m + 1]
               b == s[m + 2]
    <3>1. m \in Nat /\ a \in Seq(T) /\ b \in Seq(T)
      BY <1>1
    <3>2. \A i \in 1..(m + 1) : \E o \in Nat : Holds(a, s[i], o)
      BY <1>1
    <3>3. join[m + 2] = a \o b
      <4>1. m + 2 \in 1..n /\ m + 2 # 1 /\ (m + 2) - 1 = m + 1
        BY <1>1, <3>1
      <4>2. join[m + 2] = join[(m + 2) - 1] \o s[m + 2]
        BY <1>a, <4>1
      <4>3. QED
        BY <4>1, <4>2
    <3>4. \A i \in 1..(m + 1) : Len(s[i]) \in Nat
      BY <1>1
    <3> HIDE DEF a, b, Good
    <3>5. /\ a \o b \in Seq(T) /\ Len(a \o b) = Len(a) + Len(b) /\ Len(a) \in Nat /\ Len(b) \in Nat
          /\ \A k \in 1..Len(a) : (a \o b)[k] = a[k]
          /\ \A k \in 1..Len(b) : (a \o b)[Len(a) + k] = b[k]
      BY <3>1
    <3>6. ASSUME NEW i \in 1..(m + 1) PROVE \E o \in Nat : Holds(a \o b, s[i], o)
      <4>1. PICK o \in Nat : Holds(a, s[i], o)
        BY <3>2
      <4>2. Len(s[i]) \in Nat
        BY <3>4
      <4>3. \A k \in 1..Len(s[i]) : o + k \in 1..Len(a) /\ a[o + k] = s[i][k]
        BY <3>5, <4>1, <4>2 DEF Holds
      <4>4. Holds(a \o b, s[i], o)
        BY <3>5, <4>1, <4>2, <4>3 DEF Holds
      <4>5. QED
        BY <4>4
    <3>7. Holds(a \o b, b, Len(a))
      BY <3>5 DEF Holds
    <3>8. ASSUME NEW i \in 1..(m + 2) PROVE \E o \in Nat : Holds(join[m + 2], s[i], o)
      <4>1. CASE i = m + 2
        BY <3>3, <3>5, <3>7, <4>1 DEF b
      <4>2. CASE i # m + 2
        <5>1. i \in 1..(m + 1)
          BY <3>1, <4>2
        <5>2. QED
          BY <3>3, <3>6, <5>1
      <4>3. QED
        BY <4>1, <4>2
    <3>9. QED
      BY <3>3, <3>5, <3>8
  <2>3. Good = Nat
    <3>1. Good \in SUBSET Nat
      OBVIOUS
    <3> HIDE DEF Good
    <3>2. QED
      BY <2>1, <2>2, <3>1, CountingUp
  <2>4. n - 1 \in Nat /\ (n - 1) + 1 = n
    BY <1>1, <1>5
  <2>5. n - 1 \in Good
    BY <2>3, <2>4
  <2>6. join[n] \in Seq(T) /\ \A i \in 1..n : \E o \in Nat : Holds(join[n], s[i], o)
    BY <2>4, <2>5
  <2>7. QED
    BY <1>2, <1>5, <2>6 DEF F
<1>6. QED
  BY <1>4, <1>5

\* What is held by a part is held by the whole.
LEMMA HoldsOn ==
    ASSUME NEW T, NEW a \in Seq(T), NEW b \in Seq(T), NEW c \in Seq(T), NEW o, NEW q,
           Holds(a, b, o), Holds(b, c, q)
    PROVE  Holds(a, c, o + q)
<1>1. Len(a) \in Nat /\ Len(b) \in Nat /\ Len(c) \in Nat /\ o \in Nat /\ q \in Nat
      /\ o + Len(b) <= Len(a) /\ q + Len(c) <= Len(b)
  BY DEF Holds
<1>2. \A k \in 1..Len(c) : q + k \in 1..Len(b) /\ b[q + k] = c[k]
  BY <1>1 DEF Holds
<1>3. \A k \in 1..Len(b) : a[o + k] = b[k]
  BY DEF Holds
<1>4. ASSUME NEW k \in 1..Len(c) PROVE a[(o + q) + k] = c[k]
  <2>1. (o + q) + k = o + (q + k)
    BY <1>1
  <2>2. QED
    BY <1>2, <1>3, <2>1
<1>5. QED
  BY <1>1, <1>4 DEF Holds

\* A text that holds a phrase holds its words in order.
LEMMA HeldIsOrdered ==
    ASSUME NEW T, NEW tokens \in Seq(T), NEW phrase \in Seq(T), phrase # <<>>,
           NEW o, Holds(tokens, phrase, o)
    PROVE  Txt!ContainsOrderedTokens(tokens, phrase)
<1> DEFINE at == [k \in DOMAIN phrase |-> o + k]
<1>1. Len(tokens) \in Nat /\ Len(phrase) \in Nat \ {0} /\ o \in Nat /\ o + Len(phrase) <= Len(tokens)
      /\ DOMAIN tokens = 1..Len(tokens) /\ DOMAIN phrase = 1..Len(phrase)
  BY DEF Holds
<1>2. \A k \in DOMAIN phrase : o + k \in DOMAIN tokens /\ tokens[o + k] = phrase[k]
  BY <1>1 DEF Holds
<1>3. at \in [DOMAIN phrase -> DOMAIN tokens]
  BY <1>2
<1>4. \A k \in DOMAIN phrase : tokens[at[k]] = phrase[k] /\ (k > 1 => at[k - 1] < at[k])
  <2> SUFFICES ASSUME NEW k \in DOMAIN phrase
               PROVE  tokens[at[k]] = phrase[k] /\ (k > 1 => at[k - 1] < at[k])
    OBVIOUS
  <2>1. at[k] = o + k /\ k \in Nat
    BY <1>1
  <2>2. k > 1 => k - 1 \in DOMAIN phrase
    BY <1>1
  <2>3. k > 1 => at[k - 1] = o + (k - 1)
    BY <2>2
  <2>4. QED
    BY <1>1, <1>2, <2>1, <2>3
<1>5. at[Len(phrase)] = o + Len(phrase) /\ at[1] = o + 1
  BY <1>1
<1>6. at[Len(phrase)] <= at[1] + Len(phrase) + 1
  BY <1>1, <1>5
<1> HIDE DEF at
<1>7. QED
  BY <1>3, <1>4, <1>6 DEF Txt!ContainsOrderedTokens

Words == DOMAIN Parts
WordRuns == UNION {ToSet(Parts[w]) : w \in Words}
TxtCopies == \A S : Txt!Max(S) = Max(S) /\ Txt!Min(S) = Min(S)

\* As for the others.
LEMMA TxtExtremes == TxtCopies
BY DEF TxtCopies, Txt!Max, Max, Txt!Min, Min

\* Words are joined of runs.
LEMMA PartsAreRuns ==
    ASSUME NEW w \in Words
    PROVE  Parts[w] \in Seq(WordRuns)
<1>1. Parts[w] \in Seq(ToSet(Parts[w]))
  BY TextAssumption DEF Words, IsList
<1>2. ToSet(Parts[w]) \subseteq WordRuns
  BY DEF WordRuns
<1> DEFINE S == ToSet(Parts[w])
           p == Parts[w]
<1> HIDE DEF S, p
<1>3. p \in Seq(S) /\ S \subseteq WordRuns
  BY <1>1, <1>2 DEF S, p
<1>4. p \in Seq(WordRuns)
  BY <1>3
<1>5. QED
  BY <1>4 DEF p

\* A line holds each of its words.
LEMMA LinesHoldWords ==
    ASSUME NEW line \in Seq(Words)
    PROVE  /\ Txt!Tokens(line) \in Seq(WordRuns)
           /\ \A j \in DOMAIN line : \E o \in Nat : Holds(Txt!Tokens(line), Parts[line[j]], o)
<1> DEFINE s == [i \in DOMAIN line |-> Parts[line[i]]]
<1>1. Len(line) \in Nat /\ DOMAIN line = 1..Len(line)
  OBVIOUS
<1>2. \A i \in DOMAIN line : line[i] \in Words
  BY <1>1
<1>3. \A i \in 1..Len(line) : s[i] = Parts[line[i]] /\ s[i] \in Seq(WordRuns)
  BY <1>1, <1>2, PartsAreRuns
<1>4. s \in Seq(Seq(WordRuns)) /\ Len(s) = Len(line)
  <2>1. s = [i \in 1..Len(line) |-> s[i]]
    BY <1>1
  <2> DEFINE R == Seq(WordRuns)
             n == Len(line)
  <2> HIDE DEF s, R, n
  <2>2. n \in Nat /\ s = [i \in 1..n |-> s[i]] /\ \A i \in 1..n : s[i] \in R
    BY <1>1, <1>3, <2>1 DEF n, R
  <2>3. s \in Seq(R) /\ Len(s) = n
    BY <2>2
  <2>4. QED
    BY <2>3 DEF R, n
<1>5. Txt!Tokens(line) = Txt!FlattenSeq(s)
  BY DEF Txt!Tokens
<1> HIDE DEF s
<1>6. /\ Txt!FlattenSeq(s) \in Seq(WordRuns)
      /\ \A i \in 1..Len(s) : \E o \in Nat : Holds(Txt!FlattenSeq(s), s[i], o)
  BY <1>4, JoinHolds
<1>7. QED
  BY <1>1, <1>3, <1>4, <1>5, <1>6

\* Lines hold each of them.
LEMMA PagesHoldLines ==
    ASSUME NEW lines \in Seq(Seq(Words))
    PROVE  /\ Txt!PageTokens(lines) \in Seq(WordRuns)
           /\ \A i \in DOMAIN lines : \E o \in Nat : Holds(Txt!PageTokens(lines), Txt!Tokens(lines[i]), o)
<1> DEFINE s == [i \in DOMAIN lines |-> Txt!Tokens(lines[i])]
<1>1. Len(lines) \in Nat /\ DOMAIN lines = 1..Len(lines)
  OBVIOUS
<1>2. \A i \in DOMAIN lines : lines[i] \in Seq(Words)
  BY <1>1
<1>3. \A i \in 1..Len(lines) : s[i] = Txt!Tokens(lines[i]) /\ s[i] \in Seq(WordRuns)
  BY <1>1, <1>2, LinesHoldWords
<1>4. s \in Seq(Seq(WordRuns)) /\ Len(s) = Len(lines)
  <2>1. s = [i \in 1..Len(lines) |-> s[i]]
    BY <1>1
  <2> DEFINE R == Seq(WordRuns)
             n == Len(lines)
  <2> HIDE DEF s, R, n
  <2>2. n \in Nat /\ s = [i \in 1..n |-> s[i]] /\ \A i \in 1..n : s[i] \in R
    BY <1>1, <1>3, <2>1 DEF n, R
  <2>3. s \in Seq(R) /\ Len(s) = n
    BY <2>2
  <2>4. QED
    BY <2>3 DEF R, n
<1>5. Txt!PageTokens(lines) = Txt!FlattenSeq(s)
  BY DEF Txt!PageTokens
<1> HIDE DEF s
<1>6. /\ Txt!FlattenSeq(s) \in Seq(WordRuns)
      /\ \A i \in 1..Len(s) : \E o \in Nat : Holds(Txt!FlattenSeq(s), s[i], o)
  BY <1>4, JoinHolds
<1>7. QED
  BY <1>1, <1>3, <1>4, <1>5, <1>6

\* A row begins with its line.
LEMMA RowsBegin ==
    ASSUME NEW lines \in Seq(Seq(Words)), NEW i \in DOMAIN lines, NEW package
    PROVE  LET row == Txt!Row(lines, i, package)
           IN  row \in Seq(Seq(Words)) /\ 1 \in DOMAIN row /\ row[1] = lines[i]
<1> DEFINE L == Len(lines)
           Continues(j) == \A k \in (i + 1)..j : ~ Txt!StartsNewPartRow(lines[k], package)
           end == Txt!Min({i + 3, L})
           S == {j \in i..end : Continues(j)}
           last == Txt!Max(S)
           row == Txt!Row(lines, i, package)
<1>1. L \in Nat /\ i \in Nat /\ 1 <= i /\ i <= L
  OBVIOUS
<1>2. end \in Nat /\ i <= end /\ end <= L
  <2>1. end = IF i + 3 <= L THEN i + 3 ELSE L
    <3>1. i + 3 \in Int /\ L \in Int
      BY <1>1
    <3>2. Min({i + 3, L}) = IF i + 3 <= L THEN i + 3 ELSE L
      BY <3>1, LesserOf
    <3>3. end = Min({i + 3, L})
      BY TxtExtremes DEF TxtCopies
    <3>4. QED
      BY <3>2, <3>3
  <2> HIDE DEF end
  <2>2. QED
    BY <1>1, <2>1
<1> HIDE DEF end
<1>3. S \in SUBSET (0..end) /\ i \in S
  BY <1>1, <1>2
<1>4. row = SubSeq(lines, i, last)
  BY DEF Txt!Row, end
<1>5. last \in S
  <2>1. last = Max(S)
    BY TxtExtremes DEF TxtCopies
  <2> HIDE DEF last, S
  <2>2. S # {}
    BY <1>3
  <2>3. Max(S) \in S
    BY <1>2, <1>3, <2>2, Largest
  <2>4. QED
    BY <2>1, <2>3
<1>6. last \in Nat /\ i <= last /\ last <= L
  <2>1. last \in i..end
    <3> HIDE DEF last
    <3> QED BY <1>5
  <2> HIDE DEF last
  <2>2. QED
    BY <1>1, <1>2, <2>1
<1> DEFINE T == Seq(Words)
<1> HIDE DEF last, S, T, row
<1>7. row \in Seq(T) /\ Len(row) = last - i + 1 /\ row[1] = lines[i] /\ last - i + 1 >= 1
  <2>1. lines \in Seq(T)
    BY DEF T
  <2>2. /\ SubSeq(lines, i, last) \in Seq(T) /\ Len(SubSeq(lines, i, last)) = last - i + 1
        /\ SubSeq(lines, i, last)[1] = lines[i]
    BY <1>1, <1>6, <2>1, SMTT(60)
  <2>3. QED
    BY <1>1, <1>4, <1>6, <2>2
<1>8. 1 \in DOMAIN row
  BY <1>1, <1>6, <1>7
<1>9. QED
  BY <1>7, <1>8 DEF T, row

\* A word is found in itself.
LEMMA WordsAreFound ==
    ASSUME NEW line \in Seq(Words), NEW a \in DOMAIN line, Parts[line[a]] # <<>>
    PROVE  Txt!ContainsExactMpn(line, line[a])
<1> DEFINE p == Parts[line[a]]
<1>1. line[a] \in Words
  OBVIOUS
<1>2. p \in Seq(WordRuns)
  BY <1>1, PartsAreRuns
<1> HIDE DEF p
<1>3. Len(p) \in Nat /\ 0 \in 0..(Len(p) - Len(p))
  BY <1>2
<1>4. SubSeq(p, 0 + 1, 0 + Len(p)) = p
  BY <1>2
<1>5. p # <<>>
  BY DEF p
<1>6. Txt!ContainsPhrase(p, p)
  BY <1>3, <1>4, <1>5 DEF Txt!ContainsPhrase
<1>7. QED
  BY <1>6 DEF Txt!ContainsExactMpn, p

\* What a line of a page names, its row associates.
LEMMA NamedIsAssociated ==
    ASSUME NEW page, page.lines \in Seq(Seq(Words)), NEW i \in DOMAIN page.lines,
           NEW identity \in Txt!LineIdentities(page.lines[i])
    PROVE  i \in Txt!Mentions(page, identity.mpn) /\ Txt!Associates(page, identity)
<1> DEFINE lines == page.lines
           line == page.lines[i]
           package == identity.package
           row == Txt!Row(lines, i, package)
<1>1. line \in Seq(Words) /\ lines \in Seq(Seq(Words))
  OBVIOUS
<1>2. PICK a \in DOMAIN line, b \in DOMAIN line :
        /\ identity = [maker |-> Txt!Tokens(SubSeq(line, 1, a - 1)), mpn |-> line[a], package |-> line[b]]
        /\ Txt!NamesPart(line, a, b)
  BY DEF Txt!LineIdentities
<1>3. identity.mpn = line[a] /\ package = line[b]
  BY <1>2
<1>4. line[a] \in Lettered /\ line[b] \in PackageWords
  BY <1>2 DEF Txt!NamesPart, Txt!LooksLikeMpn
<1> HIDE DEF line, lines
<1>5. line[a] \in Words /\ line[b] \in Words
  BY <1>1, <1>2
<1>6. Parts[line[a]] # <<>> /\ Parts[line[b]] # <<>>
  BY <1>4, <1>5, TextAssumption DEF Words
<1>7. i \in Txt!Mentions(page, identity.mpn)
  <2>1. Txt!ContainsExactMpn(line, line[a])
    BY <1>1, <1>2, <1>6, WordsAreFound
  <2>2. QED
    BY <1>3, <2>1 DEF Txt!Mentions, line
<1>8. row \in Seq(Seq(Words)) /\ 1 \in DOMAIN row /\ row[1] = line
  <2>1. i \in DOMAIN lines
    BY DEF lines
  <2>2. line = lines[i]
    BY DEF line, lines
  <2>3. QED
    BY <1>1, <2>1, <2>2, RowsBegin
<1> HIDE DEF row, package
<1>9. PICK o \in Nat : Holds(Txt!PageTokens(row), Txt!Tokens(line), o)
  BY <1>8, PagesHoldLines
<1>10. PICK q \in Nat : Holds(Txt!Tokens(line), Parts[line[b]], q)
  BY <1>1, <1>2, LinesHoldWords
<1>11. Txt!PageTokens(row) \in Seq(WordRuns) /\ Txt!Tokens(line) \in Seq(WordRuns) /\ Parts[line[b]] \in Seq(WordRuns)
  BY <1>1, <1>5, <1>8, PagesHoldLines, LinesHoldWords, PartsAreRuns
<1>12. Holds(Txt!PageTokens(row), Parts[line[b]], o + q)
  BY <1>9, <1>10, <1>11, HoldsOn
<1>13. Txt!ContainsOrderedTokens(Txt!PageTokens(row), Parts[line[b]])
  BY <1>6, <1>11, <1>12, HeldIsOrdered
<1>14. Txt!ContainsOrderedTokens(Txt!PageTokens(Txt!Row(page.lines, i, identity.package)), Parts[identity.package])
  BY <1>3, <1>13 DEF row, lines, package
<1>15. QED
  BY <1>7, <1>14 DEF Txt!Associates

\* pipeline.py: what discovery reads, the proof reads too.
LEMMA DiscoveredProve ==
    ASSUME NEW document, IsText(document), NEW hint, NEW identity \in Txt!Discover(document, hint)
    PROVE  Txt!ProveIdentity(document, identity) = "proved"
<1> DEFINE pages == {document[i] : i \in DOMAIN document}
<1>1. PICK p \in DOMAIN document : \E i \in DOMAIN document[p].lines :
        /\ identity \in Txt!LineIdentities(document[p].lines[i])
        /\ Txt!ContainsPhrase(Txt!PageTokens(document[p].lines), identity.maker)
  BY DEF Txt!Discover
<1>2. PICK i \in DOMAIN document[p].lines :
        /\ identity \in Txt!LineIdentities(document[p].lines[i])
        /\ Txt!ContainsPhrase(Txt!PageTokens(document[p].lines), identity.maker)
  BY <1>1
<1> DEFINE page == document[p]
<1>3. page \in pages
  OBVIOUS
<1>4. page.lines \in Seq(Seq(Words))
  BY DEF IsText, Words, ToSet
<1> HIDE DEF page
<1>5. i \in DOMAIN page.lines /\ identity \in Txt!LineIdentities(page.lines[i])
      /\ Txt!ContainsPhrase(Txt!PageTokens(page.lines), identity.maker)
  BY <1>2 DEF page
<1>6. i \in Txt!Mentions(page, identity.mpn) /\ Txt!Associates(page, identity)
  BY <1>4, <1>5, NamedIsAssociated
<1>7. /\ ~ \A q \in pages : ~ Txt!ContainsPhrase(Txt!PageTokens(q.lines), identity.maker)
      /\ ~ \A q \in pages : Txt!Mentions(q, identity.mpn) = {}
      /\ ~ \A q \in pages : ~ Txt!Associates(q, identity)
  <2> HIDE DEF pages
  <2> QED BY <1>3, <1>5, <1>6
<1>8. QED
  BY <1>7 DEF Txt!ProveIdentity

\* pipeline.py: the parts a document offers are proved, if a request may name them.
LEMMA OffersProve ==
    ASSUME GatesInit
    PROVE  OfferedIdentitiesProve
<1> DEFINE document == input.document
           hint == input.hint
<1>1. SUFFICES ASSUME subject = "datasheet", Txt!BestCandidates(document) # {}, ~ Txt!Complete(hint),
                      NEW identity \in Txt!ResolveIdentity(document, hint).candidates
               PROVE  Txt!Retrieve(document, identity)
                          = IF Txt!Valid(identity) THEN "proved" ELSE "invalid"
  BY DEF OfferedIdentitiesProve
<1>2. IsText(document)
  BY <1>1, TextAssumption DEF GatesInit, InputsOf
<1> HIDE DEF document, hint
<1>3. identity \in Txt!Discover(document, hint)
  BY <1>1 DEF Txt!ResolveIdentity
<1>4. Txt!ProveIdentity(document, identity) = "proved"
  BY <1>2, <1>3, DiscoveredProve
<1>5. QED
  BY <1>1, <1>4 DEF Txt!Retrieve

\* evaluation.py: the wrong parts of the benchmark are not offered.
LEMMA GatedAreNotOffered ==
    ASSUME GatesInit
    PROVE  GatedPartsAreNotOffered
<1> DEFINE entries == input.registry
           fetched == input.fetched
           digests == [id \in DOMAIN fetched |-> input.digestOf[fetched[id]]]
<1>1. SUFFICES ASSUME subject = "benchmark",
                      \A i \in DOMAIN entries : entries[i].id \in DOMAIN fetched,
                      Txt!LoadRegistry(entries), Txt!GatePassed(entries, fetched, digests)
               PROVE  /\ \A i \in DOMAIN entries : \A n \in DOMAIN entries[i].negatives :
                           Txt!Valid(entries[i].negatives[n].identity) =>
                             entries[i].negatives[n].identity
                               \notin Txt!Discover(fetched[entries[i].id], Txt!NoHint)
                      /\ \A i, j \in DOMAIN entries :
                           fetched[entries[i].id] = fetched[entries[j].id] =>
                               entries[i].split = entries[j].split
  BY DEF GatedPartsAreNotOffered
<1>2. \A id \in DOMAIN fetched : IsText(fetched[id])
  BY <1>1, TextAssumption DEF GatesInit, InputsOf
<1>3. \A id \in DOMAIN fetched : digests[id] = input.digestOf[fetched[id]]
  OBVIOUS
<1> HIDE DEF entries, fetched, digests
<1>4. ASSUME NEW i \in DOMAIN entries
      PROVE  /\ entries[i].id \in DOMAIN fetched
             /\ digests[entries[i].id] = entries[i].digest
             /\ Txt!Retrieve(fetched[entries[i].id], entries[i].identity) = "proved"
             /\ \A n \in DOMAIN entries[i].negatives :
                   Txt!Retrieve(fetched[entries[i].id], entries[i].negatives[n].identity) # "proved"
  BY <1>1 DEF Txt!GatePassed
<1>5. ASSUME NEW i \in DOMAIN entries, NEW n \in DOMAIN entries[i].negatives,
             Txt!Valid(entries[i].negatives[n].identity),
             entries[i].negatives[n].identity \in Txt!Discover(fetched[entries[i].id], Txt!NoHint)
      PROVE  FALSE
  <2> DEFINE document == fetched[entries[i].id]
             wrong == entries[i].negatives[n].identity
  <2>1. IsText(document)
    BY <1>2, <1>4
  <2>2. Txt!ProveIdentity(document, wrong) = "proved"
    <3> HIDE DEF document, wrong
    <3>1. wrong \in Txt!Discover(document, Txt!NoHint)
      BY <1>5 DEF document, wrong
    <3>2. QED
      BY <2>1, <3>1, DiscoveredProve
  <2>3. Txt!BestCandidates(document) # {}
    BY <1>4 DEF Txt!Retrieve
  <2>4. Txt!Retrieve(document, wrong) = "proved"
    BY <1>5, <2>2, <2>3 DEF Txt!Retrieve
  <2>5. QED
    BY <1>4, <2>4
<1>6. ASSUME NEW i \in DOMAIN entries, NEW j \in DOMAIN entries,
             fetched[entries[i].id] = fetched[entries[j].id]
      PROVE  entries[i].split = entries[j].split
  <2>1. digests[entries[i].id] = digests[entries[j].id]
    BY <1>3, <1>4, <1>6
  <2>2. entries[i].digest = entries[j].digest
    BY <1>4, <2>1
  <2>3. QED
    BY <1>1, <2>2 DEF Txt!LoadRegistry
<1>7. QED
  BY <1>5, <1>6

\* pipeline.py and evaluation.py: whatever the datasheet, a part it offers is proved when
\* it is requested, unless its names are too long for any request; and a registry that
\* passes the identity benchmark has tried documents with no part that they offer and that
\* can be requested, and has no document in both splits.
THEOREM ProvedOffers == GatesSpec => []OffersAreProved
<1>1. GatesInit => OffersAreProved
  BY OffersProve, GatedAreNotOffered DEF OffersAreProved
<1>2. QED
  BY <1>1, InputsStay, PTL
=============================================================================
