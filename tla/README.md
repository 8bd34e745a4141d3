# DS-ViRe: a verification development

TLA+ models of DS-ViRe, the evidence-retrieval service of this repository, with
TLC configurations that check them on small instances and TLAPS proofs of what
matters most for every instance. `PROJECT.json` is the index: components, runs,
the source lines behind each definition, hazards, findings and theorems.

Paths below are relative to `src/src/dsvire/` unless they name another directory.

## 1. The system

| Part | State it keeps | Operations | What is hard about it |
|---|---|---|---|
| Job store (`platform_db.py`, `sql/001_platform.sql`) | `dsvire_job`, `dsvire_job_event`, `dsvire_document`, `dsvire_outbox` | `submit`, `lease_next`, `heartbeat`, `finish`, `request_cancel`, `events`, `claim_outbox`, `acknowledge_outbox` | transactions of API processes and workers interleave; leases expire; event ids are drawn before they are visible |
| Durable worker (`platform_worker.py`) | the lease it works on | `run_forever`, `process_lease` | takeover, death, restart, cancellation between any two awaits |
| Submission endpoint (`platform_api.py` 58-100) | - | `submit_job` | idempotency keys raced by clients, lost answers |
| Event stream (`platform_api.py` 187-231, `accelerators.py` 46-63) | cursor per connection, Last-Event-ID at the client | `job_events`, `RedisEvents.subscribe` | lost hints, pages, early close, reconnection, Redis outage |
| Outbox dispatcher (`accelerators.py` 66-89, `api.py` 334-342) | locks on outbox rows | `dispatch_outbox`, start, stop | at-least-once with two dispatchers, shutdown in the middle of a batch |
| Evidence packs (`pipeline.py` 566-752, `worker.py`, `platform_worker.py` 35-45) | pack directory, staging, file lock | `retrieve_symbol_evidence`, `run_pdf_job`, `_artifacts` | the child is killed anywhere; the parent reads without the lock; the disk decays |
| Admission and killable workers (`api.py`, `worker.py`, `query_worker.py`) | two semaphores, executor threads, scratch directories | three synchronous endpoints | deadline against late answer, cancellation against wake-up, slots given back once |
| Identity and page retrieval (`pipeline.py`, `evaluation.py`) | - | `prove_identity`, discovery, candidates, identity benchmark | rows that wrap, numbers that contain others |
| Object store (`object_store.py`) | immutable objects | `put_immutable`, `read_verified`, `presign_get` | concurrent writers of one key, kills, lost answers |
| Vector index (`accelerators.py` 91-314) | Qdrant collection and payload indexes | `ensure_collection`, `index_pack`, `drop_pack`, `rebuild_pack`, `search_dense` | several requests that are not one step |
| Hybrid queries (`retrieval_pack.py`, `hybrid_query.py`, `query_worker.py`) | retrieval packs | load, route, fuse, cut off, rescore | bounds, ties, vector budget |
| Downloads and models (`eval_download.py`, `model_acquire.py`, `model_manifest.py`) | hash-pinned cache, model destination | fetch, verify, materialize | two processes, a remote end that lies, kills |
| Training (`training_corpus.py`, `sealed_holdout.py`, `training_runtime.py`) | corpus cache, checkpoints, heartbeat, `latest.json` | admit, audit, bind, step, checkpoint | evaluation material grows during a run; kills between two atomic writes |
| Annotation review (`visual_review.py`, `scripts/review_visual_annotations.py`) | registry, packets, GitHub reviews | export, attest, apply, apply-agent | the registry that a decision is applied to is not the one it was made on |
| Source acquisition (`retrieval_preregistration.py`, `retrieval_source_seal.py`) | shared cache, manifests, plans | acquire, seal, write | retries, sites that answer differently, a damaged cache, two commands |
| Evaluation cycle (`retrieval_authoring.py`, `cycle_*.py`, `scripts/run_cycle_v5_eval.py`) | manifest, packet, submission, seal, registries, scores, policy | prepare, finalize, review, seal, admit, export, score, freeze, evaluate | commands of several people and two runs replace files that a run reads again and again |
| Visual registry and benchmark (`visual_registry.py`, `visual_split_plan.py`, `visual_metrics.py`, `egvv_campaign.py`, ...) | registries, artifacts, frozen policy | load, benchmark, freeze, evaluate | thresholds at ties and zeros, leakage between splits |
| Query ranking and coverage (`query_ranking.py`, `corpus_coverage.py`) | rankings, ledger | load, metrics, pool | what a metric of a judged pool means |
| Layout and figures (`dsff.py`, `layout_detect.py`, `region_corpus.py`) | - | content streams, association, records | graphics state, duplicates |
| Symbols (`symbol_*.py`, `scripts/demo_run.py`, `scripts/verify.py`) | a directory of files per part | extract, lay out, compile, publish, verify | stages of several runs mixed; evidence revised in between |

The remaining components (licence and release gates, learned encoders, the PDF backend,
configuration, the web console, other scripts, tests and data) are in section 7.

How they interact: a client posts a document; `submit_job` stores it and writes a
`queued` row, an event and an outbox row in one transaction. A worker leases the row,
extracts the evidence in a killable child that publishes a pack on disk, uploads
bundle and evidence to the object store and finishes the row. Every write of a row
appends one event; the dispatcher publishes a hint for it on Redis; the event stream
wakes up on hints or on its tick and pages the events out of PostgreSQL. The evaluation
cycle is apart from the service: a chain of commands over files under `evaluation/`.

What makes each part correct: the fence (only the newest attempt writes a row),
cancellation, retries and artifacts of the job store; exact replay of the log by the
stream; one binding per idempotency key; at-least-once publication with caused
duplicates only; slots that are given back once and answers that are the child's own;
complete packs; references that resolve; derived state that a rebuild restores;
checkpoints without evaluation material; reviews of what is in the registry; scores that
rest on attested work; policies judged by their own decisions; identities that prove; and
symbols that show the table and the evidence they come from.

## 2. Modules

| Module | Models | Used by |
|---|---|---|
| `PlatformJobs` | job table, event log, workers await by await, crashes, restarts | `MCPlatformJobs` |
| `JobLifecycle` | what the job service promises: claims with tokens, where only the newest token decides | refined by `PlatformJobs` |
| `JobMoves` | the (state, event kind, state) triples of the transactions | `MCPlatformJobs` checks that the job store makes only these; `EventStream`'s writers make exactly these |
| `MCPlatformJobs` | `PlatformJobs` composed with `JobMoves` | runs `jobs*`, `PlatformJobsProofs` |
| `EventStream` | writers that race for event ids, the SSE handler await by await, the reconnecting client, Redis | run `stream_replay`, `EventStreamProofs` |
| `Submission` | `submit_job` and `submit` statement by statement under READ COMMITTED | run `submissions`, `SubmissionProofs` |
| `SubmitOnce` | the atomic binding of a key to the first request | refined by `Submission` |
| `Outbox` | two dispatchers, locks, failures, shutdown | run `outbox`, `OutboxProofs` |
| `EvidencePacks` | children, file lock, directories, parents, decay | run `packs`, `EvidencePacksProofs` |
| `Admission` | semaphores, handlers await by await, children, executor threads, deadlines | run `admission`, `AdmissionProofs` |
| `EvaluationCycle` | files and commands of the cycle, two runs | run `cycle`, `EvaluationCycleProofs` |
| `ObjectStore` | writers and readers of one key, system call by system call | `OfflineWork` |
| `VectorIndex` | rebuilds and drops request by request | `OfflineWork` |
| `ModelStore` | the hash-pinned cache; the materialization of a model | `OfflineWork` |
| `TrainingRun` | holdout, corpus, a run with its files | `OfflineWork` |
| `AnnotationReview` | registry, packets, reviews, the commands that apply them | `OfflineWork` |
| `SourceSeal` | plans, acquiring commands, cache, manifests | `OfflineWork` |
| `SymbolSlice` | the stages of the runner, failures, revised evidence; uses `SymbolGate` | `OfflineWork` |
| `SymbolGate` | the checks of `scripts/verify.py`, as sets of what fails | `SymbolSlice`, `MCGates` |
| `VisualRegistry` | registries, split plans, query registries, the ledger | extended by `VisualPolicy`, `QueryRanking` |
| `VisualPolicy` | artifacts, freezing, decisions, the gate | `Gates` |
| `QueryRanking` | ranking artifacts and graded metrics | `Gates` |
| `HybridQuery` | packs, routing, fusion, cut-offs, rescoring | `Gates` |
| `DatasheetText` | identities in the text of a datasheet, pages, the identity benchmark | `Gates` |
| `RegionFusion` | content streams, image boxes, association, records | `MCGates` |
| `SymbolCompile` | pin tables, kinds, places, the compiled symbol | `MCGates` |
| `OfflineWork` | the seven components that work on files or derived state, composed: they share nothing, a behaviour is one of any of them | `MCOffline`, `OfflineProofs` |
| `MCOffline` | the data of an instance of `OfflineWork` | run `offline` |
| `Gates` | the data contracts and algorithms of evaluation, queries and datasheet texts, for any inputs, with what they promise | `MCGates`, `EvaluationCycleProofs` |
| `MCGates` | the inputs of an instance of `Gates`, and images, regions and symbols against reference definitions | runs `gates`, `image_matrix`, `pins_missing` |
| `...Proofs` | the theorems about the module they extend | - |

### How state and actions correspond to the code

**PlatformJobs.** `job[j]` is the row: `state`, `attempt`, `max` (`max_attempts`),
`owner`, `lease` (`none`, `live`, `expired` for `lease_expires_at` against the clock),
`cancel`, `result`, `error`, `completed`; `stage` is only displayed and left out.
`log[j]` is the row's events. `worker[w].pc` names the await of `process_lease` that
comes next. Each transaction is one action: all of them lock the job's row before they
write. `finish()` compares the owner's name and nothing else, `heartbeat()` the expiry
too; that difference is in `Holds` and `Renewable`. The owner's name is
`hostname:id(task)`; the model gives a restarted worker the name it had before, the
hardest case, since the fence would be plain if names were never used again. SKIP
LOCKED is "any candidate may be returned". Exceptions that `process_lease` does not
catch (S3 `ClientError`, `ObjectIntegrityError`, a lost connection) are `Crash`;
`JobNotFound` from `finish()` is an action of its own, `FinishRefused`, because it needs
no fault of the environment.

**EventStream.** A writing transaction takes three steps (row lock, insert that draws
the id, commit), because the order of ids and the order of visibility are what a
paging reader depends on. The handler is split at its awaits. The client behaves as an
`EventSource`: it reconnects with its Last-Event-ID. The stream of a job without
further events idles for ever; the early `return` of a terminal job with more than one
page left is in the model, and the reconnection makes up for it.

**Submission.** Two locks: the document's row, which `ON CONFLICT DO UPDATE` takes, and
the key, for which `ON CONFLICT DO NOTHING` waits. A fault ends a transaction at any
statement or loses the answer after the commit; the client then sends the same
request again. The endpoint's answer says `"state": "queued"` whatever the state is
(`platform_api.py` 97), so the answer modelled is created, existing or conflict.

**Outbox.** One action per awaited call. A lock lapses under a working dispatcher
(bounded) or after it is gone; RETURNING has no order, so a batch is a set.

**EvidencePacks.** One document, several leases of it. A directory is `none`, `partial`
(being written), `good` or `bad` (decayed). Extraction is deterministic: whether the
document holds the evidence is chosen at the start. Crops are read in two steps, because
a swap may come between them; they are not compared with the bundle's hashes, although
`docs/SERVICE_ARCHITECTURE.md` section 9.4 asks to "verify content hashes on every
worker boundary", which is why a bundle may hold decayed crops in the model.

**EvaluationCycle.** A digest equals another one exactly if the contents do, so a file
that names a digest contains the file it names. Commands are atomic, except the run of
the evaluation, which reads the files at every stage; `evaluate_visual.py` also reads its
registry first and the split plan after it has scored the cases (`LoadCases`, `Benchmark`).
What the scripts bind is modelled at its strength: a benchmark compares the contents of its
own split with the split plan, and scores and policies carry and compare the digest of the
plan only, which knows the contents of the families and the time of the review but neither
regions nor queries. A seal is made by `seal_submission`; a seal typed by hand is not
considered.

**Admission.** Three endpoints, two semaphores. A handler is split at its awaits:
waiting for a slot, woken, reading the body, joining the child. The semaphore is CPython's:
a released slot is handed to the first request that still sleeps, which runs later, and a
request that leaves `acquire()`, with its slot or cancelled, wakes more sleepers as long as a
slot is spare. The versions that `pyproject.toml` allows differ in how many (3.11 wakes one,
3.12 as many as there are slots; in 3.11 a request cancelled in its sleep wakes nobody), so
the model allows either. The child is a process of its own that may
hang, end with any status, or die while it writes; `process.join` runs in an executor
thread that is shared with the other requests. Both deadlines and the cancellation of a
handler may strike at every await.

**ObjectStore.** One action per system call or request. A local write tests, writes a
temporary file and replaces; a put to S3 is conditional, its answer may be lost and the
SDK then repeats it, and a conflict is verified by a read. A key is the payload's own
digest, so the state of an object is whether it is absent, whole or damaged.

**VectorIndex.** The collection, its payload indexes and the points of one pack; rebuild is
drop, ensure, batches, with other callers and deaths between any two requests.

**ModelStore.** The cache of `fetch_hash_pinned_file` (found, verified, fetched with
retries, hashed while it is written, renamed) and the destination of
`materialize_offline_model` (staged, verified, installed by one rename, and its adapter
configuration verified again where it then stands).

**TrainingRun.** A process loads the sealed holdout when it starts; the directory grows
meanwhile. Heartbeat, checkpoint and `latest.json` are three writes.

**AnnotationReview.** An annotation's digest is its version and reviewer. People edit the
registry, GitHub reviews come and are dismissed, several commands read and write.

**SourceSeal.** Families one after the other, attempts, answers that bring known bytes or
known URLs, the cache with its test and its later replacement. A command's record holds
everything it carries from one step to the next (plan, sources, attempt, answer), and is the
idle one when it has ended.

**SymbolSlice, SymbolGate.** Every stage of a run reads the files of earlier ones, of this
run or of an earlier one; a failing stage ends the run and leaves its files. The identity of
a part is manufacturer, number and package; the gate compares what `verify_provenance`
compares, which leaves the manufacturer out (section 5).

**Pure algorithms.** `VisualRegistry`, `VisualPolicy`, `QueryRanking`, `HybridQuery`,
`DatasheetText`, `RegionFusion` and `SymbolCompile` have no variables: each function of the
code is an operator. Scores are integers, quotients are compared by cross multiplication,
`1 / log2(rank + 1)` is a table of integers in the right order, a word of a datasheet is the
sequence of its alphanumeric runs, a matrix has integer entries. `Gates` has one state per
input: its constant `Inputs` gives each `subject` the inputs that are judged, and its
properties say what the operators promise of them. They are the subject of theorems, over any
inputs that satisfy its assumptions (section 6). `MCGates` extends it with sets of registries,
artifacts, rankings, packs and texts, and with the properties that compare with reference
definitions of its own (which images are painted, which parts a listing lists, what a pin
table says).

## 3. Runs

All runs fit two TLC workers; the longest takes about three minutes.

| Run | Instance | Distinct states | Shows |
|---|---|---|---|
| `jobs` | 1 job, 2 workers, 1 or 3 attempts, 1 crash, 1 cancel | 141 835 | fence, cancellation, retries, artifacts, replayable log; refinement of `JobLifecycle`; only the moves of `JobMoves`; every job and cancellation ends unless stranded |
| `stream_replay` | 2 writers, 4 event ids, pages of 2, 2 breaks | 16 770 | the client's copy is the exact prefix of the log, in order, and complete in the end |
| `submissions` | 3 submissions, 2 keys, 2 documents, 1 fault | 58 128 | documents before jobs, one creation, right answers, no endless lock wait; refinement of `SubmitOnce` |
| `outbox` | 2 dispatchers, 2 messages, 1 fault, 1 stop, 1 lapse | 32 042 | at least once, duplicates have causes, nothing is delayed for ever, shutdown ends |
| `packs` | 3 jobs, 1 kill, 1 system error, 2 decays | 241 735 | exclusion, complete packs, leftovers have causes, every job ends |
| `admission` | 3 requests, 1 slot per pool, 1 thread | 36 257 | slots are conserved, answers are the child's, waits end |
| `cycle` | 2 people, 2 contents of 2 splits, 1 change of them, 2 edits, 2 reviews, 2 runs | 2 688 331 | only attested work is scored; policy and scores of a verdict are of the two parts of one split plan |
| `offline` | 2 or 3 callers per component, 4 states of a part's evidence | 1 663 204 | references resolve, rebuilds restore, checkpoints are untainted and named, only pinned bytes, one model, reviews are attested, seals are whole, sources serve once, slices agree |
| `gates` | 14 families of inputs | 378 624 | registries, policies, metrics, queries, identities, images, regions and symbols against reference definitions |
| `jobs_stranded`, `image_matrix`, `pins_missing` | as `jobs`, `gates` | - | the violations of section 5 |

### Why the bounds are enough

- `jobs`: jobs share nothing but the workers, so one job with two workers has every race
  of a row: two workers hold attempts of the row while the third attempt is leased, and
  one of them may be dead or restarted under the old name. An attempt limit of 1 makes
  the first attempt the last; of 3 allows two takeovers after each other. The theorems
  of section 6 hold for any number of each.
- `stream_replay`: two writers are needed for two ids in the wrong order, three events
  for a page with a rest, a second break for a reconnection after a reconnection.
- `submissions`: two submissions race for a key while a third one holds a document's
  lock; the fault is put anywhere.
- `outbox`: a batch of two splits into an acknowledged and a failed part.
- `packs`: one inside, one waiting, one collecting; a second decay hits a repaired pack. The
  system error may also hit the removal of the staging directory, which then stays.
- `admission`: one request holds the slot, the second is woken while the third waits; one
  thread makes a join wait for a thread; one of the three may use either pool. With one slot
  a pool never has a spare one beside a sleeper that was woken; four requests for two slots
  (461 668 states) were checked apart from the index, with the inductive invariant, and
  the theorems hold for any number of slots.
- `cycle`: an edit after a seal needs two edits, a solo and an independent review two
  people, overwritten results two runs. Reviews all read the same second: the digests of two
  split plans are then equal as often as they can be, so the comparisons refuse least.
- `offline`: two callers race at every test-and-replace, a third one (or a second start of
  one of them) finds what the others left. Two files, batches or families make the half
  of a whole. Three runs of a symbol: one completes, the evidence is revised, one fails, one
  more reads what both have left; a revision changes the content, the number or the
  manufacturer of the part.
- `gates`: two documents for every relation between documents, the cut-off of 5 is below the
  6 ranked cases, four regions have every pair of rankings, scores include both ends,
  streams have two transformations, and of the manufacturers that texts offer one is a byte
  longer than a request may name.

Runs with `CHECK_DEADLOCK FALSE` end: jobs are terminal with all workers idle, all pack
jobs have ended, or the bounds of the cycle and of the commands are used up. `Submission`
and `Admission` end in a stuttering action instead, so a lock cycle or a lost wake-up would
be a deadlock TLC reports; `Outbox` and `EventStream` poll for ever, and `MCGates` has
nothing to do after `Init`.

### Fairness

- A process that runs takes its next step: weak fairness of `WorkerStep`, `Serve`,
  `Run`, `Advance`, and of `Loop` and `Thread` in `Admission` (the event loop runs what is
  ready, deadlines pass, the executor runs joins). A child is not fair: it may hang, and the
  deadline is what ends the request. Nothing forces a process to stay alive (`Crash`, `Kill`, `Drop` are
  never fair).
- Time passes: a lease that nobody renews expires (`LeaseExpires`), an abandoned outbox
  lock too.
- `lease_next` orders by `created_at`, so a job that stays a candidate becomes the
  oldest one: fairness for each job, not for leasing as a whole.
- Restarts of dead workers are fair only in `SupervisedSpec` (`Supervised`): the
  repository ships no restart policy, and the run says so in its name for the
  specification. API processes are replaced by the server's parent process
  (`server.py` starts two), hence `FairSpec` of `Outbox`.
- Clients reconnect (`Connect`); they owe nothing else. Users, cancellations, edits and
  reviews are never fair.

## 4. Properties worth a second look

A run's property is often the conjunction of several named parts, each with its own
comment in the module: `JobsAreSound` of seven, `SubmissionsAreSound`, `PacksAreSound`,
`PublicationsHaveCauses`, `TheBestAreServed` and others of two to six.

- `LeaseIsCurrent`, `OnlyNewestAttemptEnds`: owner names are compared, attempts are not,
  and names return. It works because `lease_next` never leases a row that its
  owner still works on without changing the owner, and a restarted worker has forgotten
  what it did.
- `LogReplaysRow`: a client that reads events only can compute the row, although a job
  that is cancelled while queued logs `cancel_requested` and never `cancelled`.
- `DeliveredIsReplay`: holds because each writer locks the row before it draws an id. The
  mutant that reads without the lock loses an event for ever.
- `PublicationsHaveCauses`: each duplicate is paid for by a failure or a lapse.
- `SlotsAreConserved`: a waiter that is cancelled after it has been handed a slot must pass it
  on; the mutant that forgets it leaks one slot, in a pool of one for ever.
- `RebuildRestoresTheIndex`: rebuilds overlap, so none of them alone decides what is left;
  the statement is about the moment when nothing is under way. A search before that may
  find part of a pack: the code deletes it and upserts in batches, call by call.
- `CheckpointsAreUntainted`: a checkpoint vouches for its samples under the holdout whose
  digest it carries. The check of a batch knows families and the digests passed along only,
  the audit of the corpus the rest; the evaluation directory grows between the two.
- `SourcesServeOnce`: two families of a plan may be answered with the same bytes, or from
  the same URL; the manifest is what refuses it.
- `PackOutlivesTheLock`: the parent reads without the lock; it is safe because no child
  swaps a pack that validates.
- `ScoresRestOnAttestedWork`: files are edited after the seal and between stages; the
  digests of the seal are compared again at the export.
- `VerdictIsOfOneDataset`: another run may replace the registry, the split plan, the scores
  and the policy between any two reads, and only digests of split plans are compared. The
  calibration and the evaluation part still are those of one plan, because each benchmark
  compared its part with the plan whose digest it wrote. That both are of one submission
  does not follow, and is violated (section 5).
- `OfferedIdentitiesProve`: `discover_identities` offers what it reads without asking
  whether a request for it may be made; those that may are proved.
- `PoliciesJudgeTheirDecisions`: the threshold that is frozen is the best harmless one
  although candidates are observed scores only, and the gate counts what the policy
  decides, ties at the threshold and splits without positives included.
- `ClosedPoolFlatters`: metrics of the judged pool are upper bounds of those of the full ranking.
- `OnlyListedPartsProve`: of a listing whose rows begin with the part number. With another
  first column it does not hold (section 5).

Each property has a mutant in `PROJECT.json`: a definition changed as a plausible bug
would change it, under which TLC finds the property violated. The faulty variants stand
before the definitions they replace, marked `Faulty`.

## 5. Where code and documents disagree

With a run:

| Run | What it shows |
|---|---|
| `jobs_stranded` | A worker that dies on its last attempt (or after a cancellation was requested) leaves the row `running` for ever: `lease_next` asks for `attempt < max_attempts AND NOT cancel_requested`, and nothing else ends such a row. The module says "safe under duplicates, crashes, and reconnects". |
| `image_matrix` | `dsff.py` composes a `cm` as current times new; in PDF the new matrix applies first, so an image under a translation and a scale is found elsewhere than where it is painted. |
| `pins_missing` | `parse_pin_table` passes over lines that its pattern does not match, and the pattern of names has neither `+` nor `-`, so the row of `V-` is lost where the module promises to fail closed. |

Without a run in the index; each has a configuration beside the others that TLC violates
(`tlc -config X.cfg M`):

| Configuration (module) | What it shows |
|---|---|
| `PlatformJobs_lapsed.cfg` (`MCPlatformJobs`) | `heartbeat()` answers False for an expired lease as for a cancellation. The worker then calls `finish()` with nothing, and the job fails for good, without an error code and with attempts left. |
| `PlatformJobs_displaced.cfg` (`MCPlatformJobs`) | A worker whose job was taken over gets `JobNotFound` from `finish()`; nothing catches it and the process ends. |
| `EventStream_redis_down.cfg` (`EventStream`) | The stream subscribes to Redis before its first query; while Redis does not answer, events in PostgreSQL reach nobody, though the log promises that they "remain replayable". |
| `EvidencePacks_busy.cfg` (`EvidencePacks`) | "evidence pack is busy; retry the request" is a `RetrievalError`, which `process_lease` treats as a final `invalid_or_unsupported_pdf`. |
| `EvaluationCycle_drift.cfg` (`EvaluationCycle`) | A packet that drifted from the frozen digest is only a blocker, and the blockers are cleared when a seal binds the drifted packet (`AdmittedPacketIsFrozen`). The scripts speak of "the full dataset digest" and compare that of the split plan, so a policy calibrated on the annotations of one submission may be judged by scores of another's, reviewed in the same second (`VerdictIsOfOneSubmission`). TLC stops at the first of the two; remove its line for the second. |
| `AnnotationReview_growth.cfg` (`AnnotationReview`) | `apply_review_decision` allows "append-only corpus growth", but loads the result strictly, so a new draft document of a held-out split blocks every earlier decision. |
| `MCGates_rows.cfg` (`MCGates`) | Rows that begin with the manufacturer do not end the row before them, so a part proves with the package of the next row, which `docs/CONTRACTS.md` forbids. |
| `MCOffline_resolved.cfg` (`MCOffline`) | `verify_resolved_symbol` compares prefix and pin numbers, never the identity that its docstring names, so a symbol resolved before the evidence was corrected to another part passes (`ResolvedSymbolsMatch`). `verify_provenance` says that it compares the manufacturer and does not, so the provenance of the first maker's part passes after the evidence was corrected to another maker (`ProvenanceMakersMatch`). TLC stops at the first of the two; remove its line for the second. |

Met while modelling, without a configuration: the evaluation split is scored before the
policy is frozen (`scripts/run_cycle_v5_eval.py` 157), while the preregistration's execution
order freezes first; the export takes the manifest as it is then and does not compare it
with the packet's (`cycle_eval_export.py` 39-43), so regions may be paired with other bytes
than those they were drawn on; it states `independently_reviewed: True` also if the
author was the reviewer (`cycle_eval_export.py` 236-240); `discover_identities` offers a
manufacturer of more than 160 or a part number or package of more than 120 bytes
(`pipeline.py` 463-473), which `retrieve_symbol_evidence` then refuses as invalid
(`pipeline.py` 649, 105-114).

## 6. Proofs

TLAPS checks every theorem to the last leaf, `EvaluationCycleProofs` in about twelve minutes
and the other modules in about eight together; constants are arbitrary within the named
assumptions: nulls are not members of the sets they stand beside, bounds are naturals,
at least one worker, attempt limits in 1..20 as the table's CHECK says; requests of
`Admission`, dispatchers and messages of `Outbox` are finitely many, since their invariants
count them; slots, threads, pages and batches are at least one; a plan is a nonempty
sequence of families. The bounds on crashes, faults and so on stay in the guards but are
arbitrary numbers, so they bound nothing. Each inductive invariant was an invariant of a TLC
run before it was proved.

Every safety and action property of the runs `jobs`, `stream_replay`, `submissions`,
`outbox`, `packs`, `admission`, `cycle` and `offline` is a theorem, and so are the two
refinements; of the run `gates`, what `Gates` states.

**PlatformJobsProofs.** `IInv` strengthens the checked invariants by
`AttemptsAreTokens` (a worker's attempt is at most the row's, and no two workers carry
the same one), `ResultsAreStored` (a worker that carries a result has stored the
artifacts) and `OwnersArePresent` (without crashes a running row's owner works on it).
Without the first, `LeaseIsCurrent` is not inductive: a step of one worker could
otherwise give another the owner's name and an old attempt. From it follow the safety
invariants (`Soundness`, that is all of `JobsAreSound`), `TerminalRowsAreFrozen`,
`OnlyNewestAttemptEnds` and the refinement of
`JobLifecycle`. Also proved, and not among the runs' properties: without crashes some
worker always survives the takeovers (`ServiceSurvives`), a job is stranded only by a
crash (`StrandingIsCrash`), a cancelled job is never leased (`CancelledJobsAreNotLeased`).

The event log rests on one lemma about every step, `LogWrites`: a step logs nothing and changes nothing
that the log tells, or appends one event whose kind makes a move of `JobMoves` and accounts
for the attempt and the cancellation. `WritersMove` states both directions: a step that
writes a row, or changes its log, appends exactly one event and makes its move. A row is
written if anything but the expiry of its lease changes, which is the clock's doing; `LogIsEnough`
(`LogReplaysRow`) adds what a reader computes. `Replayed` is a recursive function of the
position in the log, so the proof needs induction over the log's length. The library states
induction with an operator as parameter, which the provers here cannot instantiate; `Smallest`
states it as "every nonempty set of numbers has a smallest one", derived from
the well-foundedness of `<`, and then a smallest counterexample is what the lemmas
`KnowledgeExists` and `KnowledgeIsUnique` refute.

**EventStreamProofs.** `LockIsHeld` (open transactions belong to the holder of the row
lock), `IdsAscend` (the open transaction's id is above every committed one) and
`HandlerAtClient` (the handler's cursor and batch against what the client has) make
`DeliveredIsReplay` inductive.

**SubmissionProofs.** The invariant follows a submission through its statements: the
document is stored, then the key is reserved, then the row is there. `Soundness` is all of
`SubmissionsAreSound`. The refinement
maps the commit to the binding and every other statement to a stutter.

**EvidencePacksProofs.** The lock names the child that is inside (`LockNamesTheOneInside`);
only that child writes the disk, so what it found at its check holds until it publishes
(`NoSoundPackIsSwapped`) and what it staged is complete (`StagedIsComplete`). `Soundness`
is the whole invariant of the run `packs`.

**EvaluationCycleProofs.** Reviews are never taken back, so an attestation lasts; the
seal carries it to the registry, and each command hands it on. `VerdictsAreOfOneDataset`
rests on what scores and policies keep: whatever was written to `bench` or `policy` agrees,
in the part of its split, with the split plan that it names, and it stays what it was when
others overwrite the files; equal digests then mean one plan.

The same module proves the promises of `Gates`. There every behaviour stays at its input, so
a theorem `GatesSpec => []P` is a statement about the operators for inputs of any size. What
is assumed of inputs is what the loaders have typed before the modelled checks begin: a JSON
array is a list; scores of predictions are within 0..1 (`visual_metrics.py` 60) and rates are
fractions (`PolicyAssumption`); hard negatives and splits are finitely many
(`RankingAssumption`, `LedgerAssumption`); each region has integer scores
(`CascadeAssumption`); a page is lines of words, a word is alphanumeric runs, at least one
if it has a letter or a digit, which names of packages have (`TextAssumption`).

- *Policies* (`JudgedPolicies`). Acceptance depends only on the largest observed score at or
  below a threshold, so no threshold does better than the candidates, which are observed
  scores; what accepts more counts more (`MoreAcceptedMoreCounted`), so the lowest harmless
  one covers most.
- *Held-out evaluation* (`HeldOut`). An artifact fits a policy only if the plans agree, and the
  plan binds each registry's split to its families; one family has one split.
- *Registries and ledgers* (`ServedRegistries`). The ledger's tables are sums over the
  classes of a partition (`DisjointParts`, `ListPlaces`).
- *Queries* (`ServedQueries`). A sorted set is defined by how many are ahead of each, so
  that the r-th exists and is unique (`SortedPlaces`, a bijection by counting); what has
  fewer than n ahead is among the n best (`BestAreIn`). An earlier place is worth more
  after integer division too (`EarlierIsMore`), hence no region that both rankings and the
  routing put first is left out.
- *Rankings* (`RankedJudgments`, `FlatteringPools`). The n-th case of the pool is the n-th
  judged case of the ranking, at the same place or a later one; of each kind of case the
  first r of the pool hold at least as many (`PoolHasMore`). The discounted gain is
  rewritten from a sum over places into one over the gain up to each place, whose
  coefficients, the falls of the discount, are positive (`DcgByPlace`), so more up to
  every place is more in the sum; the precision is compared term by term.
- *Texts* (`ProvedOffers`). Of the parts that are offered those within the limits of a request
  are proved and the others refused as invalid. What lists are joined into holds each of them from some place on
  (`JoinHolds`), so the tokens of a row hold those of its line, which hold those of the
  package named in it, consecutively and therefore in order: the proof, which reads rows,
  finds what discovery has read in a line.

Sums, sorted sets and joined lists are recursive in the library. A sum is unfolded by
`SumAdd`: a function that solves the fold's equations exists (`FoldExists`) and any two agree
(`FoldIsUnique`), both by the smallest counterexample (`CountingUp`), and likewise for
joined lists (`JoinExists`). With them the algorithms need no induction of their own.

**OutboxProofs.** An account is kept for each message: what was published, the dispatchers
that have claimed it and not yet published it, and one if it may be claimed again. It starts
at one; claims, publications and acknowledgements never raise it, and a failed
call, a death in the middle of a batch or a lapsed lock raises it by at most one (`Accounted`, per kind of
step). Hence no publication without a cause (`CausedPublications`), and an acknowledged row
has been published.

**AdmissionProofs.** `PoolsOK` relates the three parts of a semaphore: the queue names the
requests inside `acquire()`, each once; free slots and holders add up to the pool, a woken
request being a holder already; and a free slot beside a sleeper means that a woken request is on
its way, which wakes it. All three are disturbed by `release()`, by a request that
leaves and by a cancellation in any state; `PassKeepsPools` is the common lemma, over any
set of sleepers that are handed slots. The third part was proved only after a correction of the
model: the step that leaves `acquire()` did not wake others. `ChildrenOK` relates a handler to
its child, its join and its directory, and makes `ChildrenAnswer`.

**OfflineProofs.** One invariant per component and the composition of them, since a step is
of one component and leaves the others alone (`StepsOf`).

- Object store: who compares, unlinks or returns a key finds an object there; damage has
  a cause.
- Vector index: without drops, a batch is missing only while a rebuild still writes it or
  because one died (`MissingOK`); only one caller creates payload indexes, and one that is
  missing has a creator that works, is dead or has begun again; whoever started alone left
  every batch of its own.
- Models: only a complete staging directory is moved, and whoever verifies a model that is
  installed has put it there. `OnlyPinnedBytesAreAccepted` and
  `OneModelIsInstalled` are action properties on top of it.
- Training: a batch is trained after it was checked under the holdout of this process, so
  samples are untainted when they enter a checkpoint; what the check of a batch cannot see
  the audit of the corpus has seen, with the same holdout (`AuditsOK`).
- Annotations: a command that will write has a packet that the registry it read matches, and a
  review of that very version behind it.
- Sources: the sources of a running command are of families it has done, each once; two
  plans in use, by a command or by a manifest, share no family (`PlansApart`): the directory
  only grows, so of two commands the one that started later has seen the plan of the other.
- Symbols: every file is of some revision in the catalogue and was whole when it was written;
  a report of success refers to evidence that has not changed since, because a revision
  withdraws it.

**Only model-checked:** liveness and what rests on fairness (`JobsSettleOrStrand` and its like
in the other runs), which is out of the prover's reach; the four properties of `MCGates` that
compare with reference definitions: `ImagesAreFound` and `EveryFigureHasARegion`, whose
operators fold over streams and boxes by recursion, `SymbolsShowTheirTable`, whose operators
sort and filter lists with `SortSeq` and `SelectSeq`, which the provers cannot expand, and
`OnlyListedPartsProve`, which holds of the listings that its inputs are made from; and the
three violations, which are counterexamples.

## 7. Not modelled

- Authorization beyond its yes or no, tenants, quotas, migrations and read-only endpoints.
- Logging and tracing, configuration, canonical JSON, entry points: no state after start-up.
- Learned encoders, layout detectors and training steps: floating-point tensor code. Their
  outputs are the inputs of the modelled parts.
- Rendering and the PDF backend; the layout of the JSON
  and SVG of symbols and of reports; the limits of a crop's size (`pipeline.py` 538-545).
- Licence, release and robustness gates: single passes over texts and sizes, in which
  nothing is concurrent and no state is kept.
- The console page and scripts that only run tools.
- Field formats of JSON documents: that fields are present, of their type and in their
  range is one guard or taken as given, relations between fields are modelled.

Two hazards have no property in a passing run: the lock of a pack that is waited for in vain
(`pipeline.py` 751), and the packet that drifted from its frozen digest
(`cycle_execution.py` 308). For both the property that would cover them is violated and
reported in section 5.

## 8. Plan

Written, most important behaviour first: `PlatformJobs` with `JobLifecycle`, `EventStream`,
`Submission` with `SubmitOnce`, `Outbox`, `EvidencePacks`, `EvaluationCycle`; then
`Admission`, the components of `OfflineWork`, and the algorithms of `Gates` and `MCGates`.
Proved: every safety and action property of the state machines, and every promise of
`Gates`. What could follow:

1. `OnlyListedPartsProve` for listings of any length: what a row may take from the lines after
   it. The association of image boxes, written as a recursive function, for any stream.
2. An abstract immutable map that both back ends of `ObjectStore` implement, and an abstract
   policy gate for `EvaluationCycle`, with refinements.
3. Composition: `EvidencePacks`' child as an instance of `Admission`'s, `PlatformJobs` over
   `ObjectStore` instead of its steps that may fail.
4. Larger instances of `offline`, one configuration per component.

Runs are kept few: one passing run per component of the service, one for what works on files,
one for the algorithms. New properties replace shallower ones where the two say nearly the
same.
