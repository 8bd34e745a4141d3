-------------------------- MODULE EvaluationCycle --------------------------
(***************************************************************************)
(* A frozen retrieval cycle: official sources are acquired into a manifest *)
(* (retrieval_source_seal.py), a packet of rendered pages is prepared, a   *)
(* human authors regions and queries, humans attest them in GitHub reviews *)
(* and a seal binds it all (retrieval_authoring.py); only then may a run   *)
(* score them (cycle_execution.py, cycle_eval_export.py,                   *)
(* scripts/run_cycle_v5_eval.py).  Every step is a command that reads and  *)
(* replaces files; commands of several people interleave, and a run of the *)
(* evaluation reads the files again and again.                             *)
(*                                                                         *)
(* A digest is equal to another one exactly if its contents are equal, so  *)
(* a file stands for its digest and a file that names a digest contains    *)
(* the file it names.                                                      *)
(***************************************************************************)
EXTENDS Integers, FiniteSets

CONSTANTS
    Humans,           \* GitHub logins
    Texts,            \* regions and queries that an author may write
    Contents,         \* what the official URLs of the families of a split may serve
    Renderers,        \* releases of the page renderer
    FrozenContents,   \* those of either split in CYCLE_V5_SOURCE_MANIFEST_SHA256
    FrozenRenderer,   \* with FrozenContents: CYCLE_V5_PACKET_SHA256
    Times,            \* what submitted_at of a review may read, to the second
    Runs,             \* invocations of run_cycle_v5_eval.py in one directory
    None,             \* no such file, or an invalidated family
    MaxPublications,  \* bound: changes of the official sources
    MaxEdits,         \* bound: submissions
    MaxReviews        \* bound: GitHub reviews

ASSUME FrozenIsKnown == FrozenContents \in Contents /\ FrozenRenderer \in Renderers
ASSUME NoneIsFresh == None \notin Contents
ASSUME CycleBounds == {MaxPublications, MaxEdits, MaxReviews} \subseteq Nat

VARIABLES
    official,    \* what the official URLs of each split serve now, None if one is gone
    publications,
    manifest,    \* retrieval_cycle_v5_source_manifest.json
    packet,      \* retrieval_cycle_v5_authoring_packet.json
    submission,  \* retrieval_cycle_v5_authoring_submission.json
    edits,
    reviews,     \* the GitHub reviews of the submission's pull request
    seal,        \* retrieval_cycle_v5_authoring_seal.json
    cache,       \* the contents of which the private cache holds every PDF
    registry,    \* eval/visual_registry.json and query_registry.json
    splitPlan,   \* eval/visual_split_plan.json
    bench,       \* per split, the scores that were written last
    policy,      \* the frozen policy: the scores it was calibrated on
    verdict,     \* the result of evaluating the policy
    pc,          \* the next step of each run
    inMemory,    \* the registry that the current command of each run works on
    admitted     \* the packet for which each run was admitted to the scores

sealing == <<packet, submission, edits, reviews, seal>>
results == <<registry, splitPlan, bench, policy, verdict>>
running == <<pc, inMemory, admitted>>
world == <<official, publications>>
vars == <<world, manifest, sealing, cache, results, running>>

-----------------------------------------------------------------------------
(* What the files may hold                                                 *)

Splits == {"calibration", "evaluation"}
Sources == [Splits -> Contents]
FrozenSources == [split \in Splits |-> FrozenContents]

\* The PDFs of a manifest, or those that are served.
Pdfs(sources) == {<<split, sources[split]>> : split \in Splits}

FrozenPacket == [sources |-> FrozenSources, renderer |-> FrozenRenderer]

Packets == [sources : Sources, renderer : Renderers]
Submissions == [packet : Packets, author : Humans, text : Texts]
\* The markers of a review name the submission; an independent approval names the
\* packet as well, which the submission does in turn.
Reviews == [by : Humans, submission : Submissions, as : {"human-authored", "independent"},
            at : Times]
Seals == [packet : Packets, submission : Submissions, reviewer : Humans, at : Times]
\* Every document of a registry carries who reviewed it and when.
Registries == [submission : Submissions, sources : Sources, reviewer : Humans, at : Times]

\* The split plan that is exported with a registry: splits, categories and URLs are
\* those of the cycle's plan, so what varies is the contents of the families and
\* created_at.  Its digest is the dataset_sha256 of scores and policies.
Datasets == [sources : Sources, at : Times]
DatasetOf(exported) == [sources |-> exported.sources, at |-> exported.at]

\* Scores name their dataset; of which registry they are no file tells.
Scorings == [of : Registries, dataset : Datasets]

\* load_submission accepts a submission only with the packet it was written for.
Fits(s, p) == s # None /\ p # None /\ s.packet = p

Approvals(s, h, as) == {r \in reviews : r.by = h /\ r.submission = s /\ r.as = as}

\* The review whose URL and time a seal gives: the author's own one will do.
Reviewing(s, h) == Approvals(s, h, IF h = s.author THEN "human-authored" ELSE "independent")

\* The author attested this submission in a review; the reviewer, if it is somebody
\* else, approved it.
Attested(s, reviewer) ==
    /\ Approvals(s, s.author, "human-authored") # {}
    /\ Reviewing(s, reviewer) # {}

\* load_authoring_seal compares the seal's digests with the files.
Binds(c, p, s) ==
    /\ Fits(s, p)
    /\ c # None
    /\ c.packet = p
    /\ c.submission = s

-----------------------------------------------------------------------------
(* Sources, packet and seal                                                *)

\* A manufacturer replaces or withdraws a datasheet.
Publish ==
    /\ publications < MaxPublications
    /\ publications' = publications + 1
    /\ \E split \in Splits, c \in Contents \cup {None} :
           /\ c # official[split]
           /\ official' = [official EXCEPT ![split] = c]
    /\ UNCHANGED <<manifest, sealing, cache, results, running>>

\* A family that cannot be downloaded is invalidated; the manifest is written all
\* the same, as an incomplete one.
Acquire ==
    /\ manifest' = IF official \in Sources THEN official ELSE None
    /\ UNCHANGED <<world, sealing, cache, results, running>>

\* build_authoring_packet refuses an incomplete manifest.
Prepare ==
    /\ manifest # None
    /\ \E r \in Renderers : packet' = [sources |-> manifest, renderer |-> r]
    /\ UNCHANGED <<world, manifest, submission, edits, reviews, seal, cache, results, running>>

FinalizeSubmission(h, t) ==
    /\ packet # None
    /\ edits < MaxEdits
    /\ edits' = edits + 1
    /\ submission' = [packet |-> packet, author |-> h, text |-> t]
    /\ UNCHANGED <<world, manifest, packet, reviews, seal, cache, results, running>>

Review(h) ==
    /\ submission # None
    /\ Cardinality(reviews) < MaxReviews
    /\ \E as \in {"human-authored", "independent"}, at \in Times :
           reviews' = reviews \cup
               {[by |-> h, submission |-> submission, as |-> as, at |-> at]}
    /\ UNCHANGED <<world, manifest, packet, submission, edits, seal, cache, results, running>>

SealSubmission(reviewer) ==
    /\ Fits(submission, packet)
    /\ Attested(submission, reviewer)
    /\ \E r \in Reviewing(submission, reviewer) :
           seal' = [packet |-> packet, submission |-> submission, reviewer |-> reviewer,
                    at |-> r.at]
    /\ UNCHANGED <<world, manifest, packet, submission, edits, reviews, cache, results, running>>

-----------------------------------------------------------------------------
(* A run of the evaluation                                                 *)

Goto(r, step) == pc' = [pc EXCEPT ![r] = step]

\* inspect_cycle_v5 and assert_score_access_authorized.  A packet that drifted from
\* the frozen one is a blocker, and the blockers are cleared when the seal binds.
Authorize(r) ==
    /\ pc[r] = "inspect"
    /\ manifest = FrozenSources
    /\ Binds(seal, packet, submission)
    /\ admitted' = [admitted EXCEPT ![r] = packet]
    /\ Goto(r, "materialize")
    /\ UNCHANGED <<world, manifest, sealing, cache, results, inMemory>>

\* materialize_sealed_cycle_pdfs reads the manifest again and takes each PDF from the
\* cache or from its URL, which must still serve the bytes of the manifest.
Materialize(r) ==
    /\ pc[r] = "materialize"
    /\ manifest # None
    /\ Pdfs(manifest) \subseteq cache \cup Pdfs(official)
    /\ cache' = cache \cup Pdfs(manifest)
    /\ Goto(r, "export")
    /\ UNCHANGED <<world, manifest, sealing, results, inMemory, admitted>>

\* The registry is written first, the split plan last.
Exported(r) ==
    /\ registry' = [submission |-> submission, sources |-> manifest,
                    reviewer |-> seal.reviewer, at |-> seal.at]
    /\ inMemory' = [inMemory EXCEPT ![r] = registry']
    /\ Goto(r, "plan")
    /\ UNCHANGED <<world, manifest, sealing, cache, splitPlan, bench, policy, verdict, admitted>>

\* Faulty: the exporter trusts score_access_authorized and does not bind the files.
ExportUnbound(r) ==
    /\ pc[r] = "export"
    /\ seal # None
    /\ manifest # None
    /\ Exported(r)

\* All files are read again; the seal must bind, the manifest need not be the frozen one.
Export(r) ==
    /\ pc[r] = "export"
    /\ Binds(seal, packet, submission)
    /\ manifest # None
    /\ Exported(r)

ExportSplitPlan(r) ==
    /\ pc[r] = "plan"
    /\ splitPlan' = DatasetOf(inMemory[r])
    /\ inMemory' = [inMemory EXCEPT ![r] = None]
    /\ Goto(r, "calibration")
    /\ UNCHANGED <<world, manifest, sealing, cache, registry, bench, policy, verdict, admitted>>

\* evaluate_visual.py reads the registry and scores the cases of one split, offline ...
LoadCases(r) ==
    /\ pc[r] \in Splits
    /\ inMemory[r] = None
    /\ registry # None
    /\ <<pc[r], registry.sources[pc[r]]>> \in cache
    /\ inMemory' = [inMemory EXCEPT ![r] = registry]
    /\ UNCHANGED <<world, manifest, sealing, cache, results, pc, admitted>>

Scored(r) ==
    /\ bench' = [bench EXCEPT ![pc[r]] = [of |-> inMemory[r], dataset |-> splitPlan]]
    /\ inMemory' = [inMemory EXCEPT ![r] = None]
    /\ Goto(r, IF pc[r] = "calibration" THEN "evaluation" ELSE "freeze")
    /\ UNCHANGED <<world, manifest, sealing, cache, registry, splitPlan, policy, verdict, admitted>>

\* Faulty: the scores are not bound to the split plan that they name.
BenchmarkUnbound(r) ==
    /\ pc[r] \in Splits
    /\ inMemory[r] # None
    /\ splitPlan # None
    /\ Scored(r)

\* ... and reads the split plan when it has scored them: for this split the plan must list
\* the documents that were scored, with these contents.  The digest of the whole plan is
\* given to the scores.
Benchmark(r) ==
    /\ pc[r] \in Splits
    /\ inMemory[r] # None
    /\ splitPlan # None
    /\ inMemory[r].sources[pc[r]] = splitPlan.sources[pc[r]]
    /\ Scored(r)

Freeze(r) ==
    /\ pc[r] = "freeze"
    /\ bench["calibration"] # None
    /\ policy' = bench["calibration"]
    /\ Goto(r, "evaluate")
    /\ UNCHANGED <<world, manifest, sealing, cache, registry, splitPlan, bench, verdict, inMemory, admitted>>

\* Only the digests of the two datasets are compared.
Evaluate(r) ==
    /\ pc[r] = "evaluate"
    /\ bench["evaluation"] # None
    /\ policy # None
    /\ bench["evaluation"].dataset = policy.dataset
    /\ verdict' = [policy |-> policy, scores |-> bench["evaluation"]]
    /\ Goto(r, "done")
    /\ UNCHANGED <<world, manifest, sealing, cache, registry, splitPlan, bench, policy, inMemory, admitted>>

\* A command of the run fails or is killed: what it wrote stays, also some PDFs, and the
\* run may be started again from the beginning.
Abort(r) ==
    /\ pc[r] \notin {"inspect", "done"}
    /\ Goto(r, "inspect")
    /\ inMemory' = [inMemory EXCEPT ![r] = None]
    /\ admitted' = [admitted EXCEPT ![r] = None]
    /\ IF pc[r] = "materialize" /\ manifest # None
       THEN \E kept \in SUBSET (Pdfs(manifest) \cap Pdfs(official)) : cache' = cache \cup kept
       ELSE UNCHANGED cache
    /\ UNCHANGED <<world, manifest, sealing, results>>

-----------------------------------------------------------------------------

Init ==
    /\ official = FrozenSources
    /\ publications = 0
    /\ manifest = None
    /\ packet = None
    /\ submission = None
    /\ edits = 0
    /\ reviews = {}
    /\ seal = None
    /\ cache = {}
    /\ registry = None
    /\ splitPlan = None
    /\ bench = [split \in Splits |-> None]
    /\ policy = None
    /\ verdict = None
    /\ pc = [r \in Runs |-> "inspect"]
    /\ inMemory = [r \in Runs |-> None]
    /\ admitted = [r \in Runs |-> None]

Score(r) ==
    \/ Authorize(r) \/ Materialize(r) \/ Export(r) \/ ExportSplitPlan(r)
    \/ LoadCases(r) \/ Benchmark(r) \/ Freeze(r) \/ Evaluate(r) \/ Abort(r)

Next ==
    \/ Publish \/ Acquire \/ Prepare
    \/ \E h \in Humans : (\E t \in Texts : FinalizeSubmission(h, t)) \/ Review(h) \/ SealSubmission(h)
    \/ \E r \in Runs : Score(r)

Spec == Init /\ [][Next]_vars

-----------------------------------------------------------------------------
(* Properties                                                              *)

\* Files hold what their schemas say.
TypeOK ==
    /\ official \in [Splits -> Contents \cup {None}]
    /\ {publications, edits} \subseteq Nat
    /\ manifest \in Sources \cup {None}
    /\ packet \in Packets \cup {None}
    /\ submission \in Submissions \cup {None}
    /\ reviews \subseteq Reviews
    /\ seal \in Seals \cup {None}
    /\ cache \subseteq Splits \X Contents
    /\ registry \in Registries \cup {None}
    /\ splitPlan \in Datasets \cup {None}
    /\ bench \in [Splits -> Scorings \cup {None}]
    /\ policy \in Scorings \cup {None}
    /\ verdict \in [policy : Scorings, scores : Scorings] \cup {None}
    /\ pc \in [Runs -> {"inspect", "materialize", "export", "plan", "freeze", "evaluate", "done"}
                       \cup Splits]
    /\ inMemory \in [Runs -> Registries \cup {None}]
    /\ admitted \in [Runs -> Packets \cup {None}]

\* Seals, registries and scores: where the work of the humans is relied upon.
Sealed(relied) == relied # None => Attested(relied.submission, relied.reviewer)
SealedScores(scores) == scores # None => Sealed(scores.of)

\* Nothing is scored, calibrated or evaluated that its author did not attest and its
\* reviewer did not approve, however packets are prepared again and submissions edited
\* after a seal, after the authorization or between two runs
\* (cycle_eval_export.py 177-181).
ScoresRestOnAttestedWork ==
    /\ Sealed(registry)
    /\ \A split \in Splits : SealedScores(bench[split])
    /\ SealedScores(policy)
    /\ verdict # None => SealedScores(verdict.policy) /\ SealedScores(verdict.scores)

\* A policy was calibrated on the calibration part of the split plan it names, and is
\* judged by scores of the evaluation part of the same one, although two runs and aborted
\* ones replace each other's registry, split plan, scores and policy between any two
\* reads, the manifest changes meanwhile, and nothing but the digests of two split plans
\* is compared in the end (visual_split_plan.py 36-56, evaluate_visual.py 96-100,
\* evaluate_visual_policy.py 67).
VerdictIsOfOneDataset ==
    verdict # None =>
        LET plan == verdict.policy.dataset.sources
        IN  /\ verdict.policy.of.sources["calibration"] = plan["calibration"]
            /\ verdict.scores.of.sources["evaluation"] = plan["evaluation"]

\* "benchmark does not bind the full dataset digest" (evaluate_visual_policy.py 39): the
\* digest that the policy is compared by says of which annotations the scores are.
VerdictIsOfOneSubmission ==
    verdict # None => verdict.policy.of.submission = verdict.scores.of.submission

\* Scores are opened for the packet of the frozen cycle only: "authoring packet digest
\* drifted from the frozen cycle" (cycle_execution.py 282).
AdmittedPacketIsFrozen ==
    \A r \in Runs : admitted[r] # None => admitted[r] = FrozenPacket

=============================================================================
