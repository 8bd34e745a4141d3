----------------------------- MODULE TrainingRun -----------------------------
(***************************************************************************)
(* The training corpus, the sealed evaluation material it must not touch,  *)
(* and a training run with its files (training_corpus.py,                  *)
(* sealed_holdout.py, training_runtime.py).                                *)
(*                                                                         *)
(* The evaluation directory grows while corpora are built and runs go on;  *)
(* a process loads it once, at its start.  A process may be killed between *)
(* any two of its atomic file writes and be started again.                 *)
(***************************************************************************)
EXTENDS Naturals, FiniteSets, Sequences

CONSTANTS Documents,    \* records of corpus.jsonl, one digest each
          Facets,       \* [document -> what of it could be sealed: "url", "source", "hash",
                        \*              "family" or "marker"]
          Hashed,       \* documents whose digest the caller of run_steps passes along
          Batches,      \* the batches of the run: a sequence of sets of documents
          MaxSteps,     \* max_steps
          MaxStarts     \* how often the process is started

VARIABLES sealed,   \* [document -> its facets that the evaluation directory seals]
          holdout,  \* what the running process loaded of it
          cache,    \* [document -> its PDF is absent, refused or admitted in the raw cache]
          audited,  \* the holdouts under which corpus-audit passed
          process,  \* pc, step, starts and the documents this process trained on
          files     \* checkpoints [step -> the holdout and samples behind it], latest, heartbeat

vars == <<sealed, holdout, cache, audited, process, files>>

Nothing == [d \in Documents |-> {}]
NoCheckpoint == [holdout |-> Nothing, samples |-> {}, written |-> FALSE]

TypeOK ==
    /\ sealed \in [Documents -> SUBSET {"url", "source", "hash", "family", "marker"}]
    /\ holdout \in [Documents -> SUBSET {"url", "source", "hash", "family", "marker"}]
    /\ cache \in [Documents -> {"absent", "refused", "admitted"}]
    /\ process.pc \in {"down", "check", "train", "heartbeat", "checkpoint", "latest",
                       "ended"}
    /\ process.step \in 0..(Len(Batches) + 1)
    /\ process.starts \in 0..MaxStarts
    /\ files.latest \in 0..MaxSteps
    /\ files.heartbeat \in 0..MaxSteps

Init ==
    /\ sealed = Nothing
    /\ holdout = Nothing
    /\ cache = [d \in Documents |-> "absent"]
    /\ audited = {}
    /\ process = [pc |-> "down", step |-> 0, starts |-> 0, samples |-> {}]
    /\ files = [checkpoint |-> [s \in 1..MaxSteps |-> NoCheckpoint], latest |-> 0, heartbeat |-> 0]

----------------------------------------------------------------------------
(* Sealed evaluation material. *)

\* People preregister a family, acquire its source or annotate it: the URL as
\* requested, the digest, the family and the markers in its names become sealed.
Seal(d) ==
    /\ \E facet \in Facets[d] \ sealed[d] : sealed' = [sealed EXCEPT ![d] = @ \cup {facet}]
    /\ UNCHANGED <<holdout, cache, audited, process, files>>

\* load_sealed_holdout: everything the plans, manifests and the registry name now.
LoadSealedHoldout == sealed

\* bind_run: what of a holdout its digest, which every checkpoint carries, tells.
HoldoutDigest(h) == [d \in Documents |-> h[d] \ {"marker"}]

LeakageHits(h, d, facets) == h[d] \cap facets

\* admit_pdf looks at the final URL, the digest, manufacturer and symbols;
\* audit_corpus at the URL the source was requested from, too.
AdmitPdf(d) == LeakageHits(LoadSealedHoldout, d, {"url", "hash", "marker"}) = {}

\* Faulty: the URL a source was requested from is not looked at.
FaultyAuditCorpus(h) == \A d \in Documents : LeakageHits(h, d, {"url", "hash", "marker"}) = {}

AuditCorpus(h) ==
    \A d \in Documents : LeakageHits(h, d, {"url", "source", "hash", "marker"}) = {}

\* reject_leaked_samples as run_steps calls it: digests where the caller has them,
\* the sample's name as family and as text, no URLs.
RejectLeakedSamples(h, batch) ==
    \A d \in batch :
        LeakageHits(h, d, {"family", "marker"} \cup (IF d \in Hashed THEN {"hash"} ELSE {})) = {}

----------------------------------------------------------------------------
(* The corpus. *)

\* materialize_record: the pinned bytes are in the cache before they are admitted,
\* and stay there if they are refused.
MaterializeRecord(d) ==
    /\ cache' = [cache EXCEPT ![d] = IF AdmitPdf(d) THEN "admitted" ELSE "refused"]
    /\ UNCHANGED <<sealed, holdout, audited, process, files>>

\* corpus-audit, for all records at once.
CorpusAudit ==
    /\ AuditCorpus(LoadSealedHoldout)
    /\ audited' = audited \cup {LoadSealedHoldout}
    /\ UNCHANGED <<sealed, holdout, cache, process, files>>

----------------------------------------------------------------------------
(* The run.  bind_run has accepted its scale, accelerator and digests. *)

Batch == Batches[process.step]

Goto(from, to) == process.pc = from /\ process' = [process EXCEPT !.pc = to]

\* A process loads the holdout, binds its digest into the run and begins with the
\* first batch, whatever an earlier process of the run id left.
Start ==
    /\ process.pc \in {"down", "ended"}
    /\ process.starts < MaxStarts
    /\ holdout' = LoadSealedHoldout
    /\ process' = [pc |-> "check", step |-> 1, starts |-> process.starts + 1, samples |-> {}]
    /\ UNCHANGED <<sealed, cache, audited, files>>

\* The end of the batches or of max_steps, a leaked sample, or the next step.
CheckBatch ==
    /\ process.pc = "check"
    /\ IF /\ process.step <= Len(Batches)
          /\ process.step <= MaxSteps
          /\ RejectLeakedSamples(holdout, Batch)
       THEN Goto("check", "train")
       ELSE Goto("check", "ended")
    /\ UNCHANGED <<sealed, holdout, cache, audited, files>>

TrainStep ==
    /\ process.pc = "train"
    /\ process' = [process EXCEPT !.pc = "heartbeat", !.samples = @ \cup Batch]
    /\ UNCHANGED <<sealed, holdout, cache, audited, files>>

WriteHeartbeat ==
    /\ Goto("heartbeat", "checkpoint")
    /\ files' = [files EXCEPT !.heartbeat = process.step]
    /\ UNCHANGED <<sealed, holdout, cache, audited>>

\* Faulty: latest.json is written first.
FaultyWriteCheckpoint ==
    /\ Goto("checkpoint", "latest")
    /\ files' = [files EXCEPT !.latest = process.step]
    /\ UNCHANGED <<sealed, holdout, cache, audited>>

\* write_checkpoint: step-N.json with the digest of the holdout, then latest.json.
WriteCheckpoint ==
    /\ Goto("checkpoint", "latest")
    /\ files' = [files EXCEPT !.checkpoint[process.step] =
                    [holdout |-> HoldoutDigest(holdout), samples |-> process.samples, written |-> TRUE]]
    /\ UNCHANGED <<sealed, holdout, cache, audited>>

WriteLatest ==
    /\ process.pc = "latest"
    /\ files' = [files EXCEPT !.latest = process.step]
    /\ process' = [process EXCEPT !.pc = "check", !.step = @ + 1]
    /\ UNCHANGED <<sealed, holdout, cache, audited>>

\* The process is killed, or its step function or a write raises.
Stop ==
    /\ process.pc \notin {"down", "ended"}
    /\ process' = [process EXCEPT !.pc = "ended"]
    /\ UNCHANGED <<sealed, holdout, cache, audited, files>>

Next ==
    \/ \E d \in Documents : Seal(d) \/ MaterializeRecord(d)
    \/ CorpusAudit \/ Start \/ CheckBatch \/ TrainStep
    \/ WriteHeartbeat \/ WriteCheckpoint \/ WriteLatest \/ Stop

Spec == Init /\ [][Next]_vars

----------------------------------------------------------------------------
(* Properties. *)

\* A checkpoint vouches for its samples: none was recognizable, by its family or
\* a digest that was passed along, as sealed in the holdout whose digest it carries,
\* although the evaluation directory grew and earlier processes wrote under the same
\* run id.  If the corpus passed its audit under a holdout of that digest, nothing of
\* any sample was sealed: the two checks leave no gap between them.
CheckpointsAreUntainted ==
    \A s \in 1..MaxSteps :
        LET c == files.checkpoint[s]
        IN  \A d \in c.samples :
                /\ LeakageHits(c.holdout, d, {"family"}) = {}
                /\ d \in Hashed => LeakageHits(c.holdout, d, {"hash"}) = {}
                /\ (\E h \in audited : HoldoutDigest(h) = c.holdout) => c.holdout[d] = {}

\* latest.json names a checkpoint that is there, whenever the writer was killed, and
\* the last one of the running process as soon as that has written one.
LatestNamesACheckpoint ==
    /\ files.latest > 0 => files.checkpoint[files.latest].written
    /\ process.pc \notin {"down", "ended"} /\ process.step > 1 => files.latest = process.step - 1
=============================================================================
