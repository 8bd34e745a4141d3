----------------------------- MODULE OfflineWork -----------------------------
(***************************************************************************)
(* The components that work on files and on derived state, outside the job *)
(* service: the object store, the vector index, downloads and models,      *)
(* training runs, annotation reviews, sources of retrieval cycles, and the *)
(* runner that publishes a symbol.  They share nothing, so a behaviour is  *)
(* one of any of them: subject names it, and the others stay in a state of *)
(* no account.                                                             *)
(***************************************************************************)
EXTENDS Naturals, Sequences, FiniteSets

CONSTANTS LocalCalls, RemoteCalls, Keys, MaxObjectDamage,            \* ObjectStore
          Rebuilders, Droppers, PackBatches, MaxCallerStarts,        \* VectorIndex
          Fetchers, OfflineFetchers, MaxAttempts, Acquirers, ModelFiles, \* ModelStore
          Documents, HeldOut, Facets,                 \* TrainingRun and AnnotationReview
          TrainingBatches, MaxSteps, MaxTrainingStarts,
          People, Agent, Appliers, MaxVersion, MaxPackets, MaxReviews,
          Commands, PlanFamilies, Registered, Answers, MaxFileDamage, \* SourceSeal
          Evidence, Readings, MaxRuns, MaxRevisions, absent           \* SymbolSlice

ASSUME ObjectCallsAssumption ==
    /\ LocalCalls \cap RemoteCalls = {}
    /\ MaxObjectDamage \in Nat

ASSUME IndexCallersAssumption ==
    /\ Rebuilders \cap Droppers = {}
    /\ "absent" \notin Rebuilders \cup Droppers
    /\ PackBatches \in Nat \ {0}
    /\ MaxCallerStarts \in Nat

ASSUME DownloadsAssumption == MaxAttempts \in Nat \ {0} /\ "absent" \notin Acquirers

ASSUME TrainingAssumption ==
    /\ MaxSteps \in Nat /\ MaxTrainingStarts \in Nat
    /\ TrainingBatches \in Seq(SUBSET Documents)
    /\ Facets \in [Documents -> SUBSET {"url", "source", "hash", "family", "marker"}]

ASSUME ReviewersAssumption == Agent # "none" /\ "none" \notin People

\* A plan names families; PlanLoads() looks whether it names one twice.
ASSUME PlansAssumption ==
    \A p \in DOMAIN PlanFamilies : PlanFamilies[p] \in Seq(STRING) /\ PlanFamilies[p] # <<>>

VARIABLES subject,
          object, call, temporary, damage,
          payloadIndexes, points, caller, alone,
          cached, fetch, destination, acquire,
          sealed, holdout, cache, audited, process, files,
          registry, packets, reviews, applier,
          directory, command, store, manifests, harm,
          fixture, outputs, catalogue, served, todo, runs, report

Obj == INSTANCE ObjectStore WITH Local <- LocalCalls, Remote <- RemoteCalls,
           MaxDamage <- MaxObjectDamage
Vec == INSTANCE VectorIndex WITH Batches <- PackBatches, MaxStarts <- MaxCallerStarts
Mod == INSTANCE ModelStore WITH Offline <- OfflineFetchers, Attempts <- MaxAttempts,
           Files <- ModelFiles
Trn == INSTANCE TrainingRun WITH Hashed <- HeldOut, Batches <- TrainingBatches,
           MaxStarts <- MaxTrainingStarts
Rev == INSTANCE AnnotationReview WITH HeldOutDocuments <- HeldOut
Src == INSTANCE SourceSeal WITH Families <- PlanFamilies, Attempts <- MaxAttempts,
           MaxDamage <- MaxFileDamage, cache <- store, damage <- harm
Slc == INSTANCE SymbolSlice WITH Bundles <- Evidence, files <- outputs

objects == <<object, call, temporary, damage>>
vectors == <<payloadIndexes, points, caller, alone>>
models == <<cached, fetch, destination, acquire>>
training == <<sealed, holdout, cache, audited, process, files>>
annotations == <<registry, packets, reviews, applier>>
sources == <<directory, command, store, manifests, harm>>
symbols == <<fixture, outputs, catalogue, served, todo, runs, report>>

vars == <<subject, objects, vectors, models, training, annotations, sources, symbols>>

Init ==
    /\ subject \in {"objects", "vectors", "models", "training", "annotations", "sources",
                   "symbols"}
    /\ Obj!Init
    /\ Vec!Init
    /\ Mod!Init
    /\ Trn!Init
    /\ Rev!Init
    /\ Src!Init
    /\ Slc!Init
    /\ subject # "models" => cached = "absent"
    /\ subject # "symbols" => fixture = CHOOSE bundle \in Evidence : TRUE

Next ==
    /\ UNCHANGED subject
    /\ \/ /\ subject = "objects" /\ Obj!Next
          /\ UNCHANGED <<vectors, models, training, annotations, sources, symbols>>
       \/ /\ subject = "vectors" /\ Vec!Next
          /\ UNCHANGED <<objects, models, training, annotations, sources, symbols>>
       \/ /\ subject = "models" /\ Mod!Next
          /\ UNCHANGED <<objects, vectors, training, annotations, sources, symbols>>
       \/ /\ subject = "training" /\ Trn!Next
          /\ UNCHANGED <<objects, vectors, models, annotations, sources, symbols>>
       \/ /\ subject = "annotations" /\ Rev!Next
          /\ UNCHANGED <<objects, vectors, models, training, sources, symbols>>
       \/ /\ subject = "sources" /\ Src!Next
          /\ UNCHANGED <<objects, vectors, models, training, annotations, symbols>>
       \/ /\ subject = "symbols" /\ Slc!Next
          /\ UNCHANGED <<objects, vectors, models, training, annotations, sources>>

Spec == Init /\ [][Next]_vars

----------------------------------------------------------------------------

\* object_store.py: a returned reference resolves, and nobody reads part of a payload.
ReturnedReferencesResolve == Obj!ReturnedReferencesResolve

\* accelerators.py: a rebuild restores the derived index.
RebuildRestoresTheIndex == Vec!RebuildRestoresTheIndex

\* eval_download.py: unverified bytes are never accepted.
OnlyPinnedBytesAreAccepted == Mod!OnlyPinnedBytesAreAccepted

\* model_manifest.py: one of several materializations of a model installs it whole.
OneModelIsInstalled == Mod!OneModelIsInstalled

\* training_runtime.py, sealed_holdout.py: a checkpoint's samples were not sealed.
CheckpointsAreUntainted == Trn!CheckpointsAreUntainted

\* training_runtime.py: latest.json names a checkpoint that exists.
LatestNamesACheckpoint == Trn!LatestNamesACheckpoint

\* visual_review.py: what is marked as reviewed was attested in that very version.
ReviewsAreAttested == Rev!ReviewsAreAttested

\* retrieval_source_seal.py: the cache holds the bytes a family is sealed with.
SealedBytesAreWhole == Src!SealedBytesAreWhole

\* retrieval_preregistration.py, retrieval_source_seal.py: a family is sealed for one
\* cycle, a document for one family of it.
SourcesServeOnce == Src!SourcesServeOnce

\* scripts/demo_run.py, scripts/verify.py: a verified slice is of its present evidence.
VerifiedSlicesAgree == Slc!VerifiedSlicesAgree

\* scripts/verify.py:512: a resolved symbol "must match the compiled spec identity".
ResolvedSymbolsMatch == Slc!ResolvedSymbolsMatch

\* scripts/verify.py:421: "provenance's region_ids/manufacturer/mpn match".
ProvenanceMakersMatch == Slc!ProvenanceMakersMatch
=============================================================================
