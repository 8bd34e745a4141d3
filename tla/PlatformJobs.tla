---------------------------- MODULE PlatformJobs ----------------------------
(***************************************************************************)
(* The durable job service of DS-ViRe: the dsvire_job table and its event  *)
(* log in PostgreSQL (platform_db.py, sql/001_platform.sql) and the        *)
(* workers that lease, process and finish jobs (platform_worker.py).       *)
(*                                                                         *)
(* One action is one database transaction, or one awaited call of          *)
(* process_lease.  Every transaction that touches a job takes that job's   *)
(* row lock before it writes anything, so each is atomic per job; between  *)
(* two of them any other process may run.  A lease is "live" until the     *)
(* clock passes lease_expires_at, which the environment decides.           *)
(***************************************************************************)
EXTENDS Integers, Sequences, FiniteSets, SequencesExt

CONSTANTS
    Jobs,            \* jobs, one per (tenant, idempotency key)
    Workers,         \* worker processes; a worker's name is its lease owner
    NoJob,           \* an idle worker's job
    NoWorker,        \* the NULL of lease_owner
    AttemptLimits,   \* the values of max_attempts a submission may carry
    MaxCrashes,      \* bound: process deaths the environment may cause
    MaxCancels       \* bound: accepted cancel requests per job

ASSUME NullsAreFresh == NoJob \notin Jobs /\ NoWorker \notin Workers
ASSUME SomeWorker == Workers # {}
ASSUME LimitsInTableRange == AttemptLimits \subseteq 1..20
ASSUME BoundsAreNaturals == MaxCrashes \in Nat /\ MaxCancels \in Nat

VARIABLES
    job,      \* the job table
    log,      \* the event log, one sequence of kinds per job in event_id order
    stored,   \* the artifacts in the object store
    worker,   \* each worker process: where it is in process_lease
    crashes   \* process deaths caused by the environment so far

vars == <<job, log, stored, worker, crashes>>

-----------------------------------------------------------------------------
(* Rows, events and worker states                                          *)

Terminal == {"succeeded", "failed", "cancelled"}
States == {"queued", "running"} \cup Terminal

\* Codes that the exception handlers of process_lease report.
RetryableErrors == {"worker_timeout", "worker_failed"}
Errors == RetryableErrors \cup {"invalid_or_unsupported_pdf"}

Row == [state: States \cup {"absent"}, attempt: Nat, max: Nat,
        owner: Workers \cup {NoWorker}, lease: {"none", "live", "expired"},
        cancel: BOOLEAN, result: BOOLEAN, error: Errors \cup {"none"},
        completed: BOOLEAN]

EventKinds == Terminal \cup
    {"queued", "leased", "progress", "retrying", "cancel_requested"}

NoRow == [state |-> "absent", attempt |-> 0, max |-> 0, owner |-> NoWorker,
          lease |-> "none", cancel |-> FALSE, result |-> FALSE,
          error |-> "none", completed |-> FALSE]

NewRow(limit) == [NoRow EXCEPT !.state = "queued", !.max = limit]

Artifacts == {"bundle", "evidence"}

\* Where a worker stands; the steps of InTry are inside the try block.
InTry == {"download", "report", "extract", "putBundle", "putEvidence", "finish"}
Finishing == {"giveUp", "finish", "handle"}
Busy == InTry \cup Finishing \cup {"start"}

\* What a pending finish() call carries: "nothing" is finish(job, owner).
Calls == Errors \cup {"none", "nothing", "result"}

Polling == [pc |-> "poll", job |-> NoJob, attempt |-> 0, call |-> "none"]
Dead == [Polling EXCEPT !.pc = "down"]

\* A worker has a job exactly while it is inside process_lease.
Working == [pc: Busy, job: Jobs, attempt: Nat, call: Calls]
Process == Working \cup {Polling, Dead}

-----------------------------------------------------------------------------
(* Database transactions                                                   *)

Record(j, kind) == log' = [log EXCEPT ![j] = Append(@, kind)]

\* submit() for a key the table does not hold yet.
Submit(j) ==
    /\ job[j].state = "absent"
    /\ \E limit \in AttemptLimits : job' = [job EXCEPT ![j] = NewRow(limit)]
    /\ Record(j, "queued")
    /\ UNCHANGED <<stored, worker, crashes>>

\* Faulty: an expired lease is not taken over.
CandidateOnlyQueued(row) ==
    row.state = "queued" /\ row.attempt < row.max /\ ~row.cancel

\* SKIP LOCKED lets a poll pass over an older row that another transaction
\* holds, so any candidate may be the one returned.
Candidate(row) ==
    /\ row.state = "queued" \/ (row.state = "running" /\ row.lease = "expired")
    /\ row.attempt < row.max
    /\ ~row.cancel

\* Faulty: a takeover leaves the previous owner in place.
LeasedToFirstOwner(row, w) ==
    [row EXCEPT !.state = "running", !.attempt = @ + 1, !.lease = "live",
                !.owner = IF @ = NoWorker THEN w ELSE @]

Leased(row, w) ==
    [row EXCEPT !.state = "running", !.attempt = @ + 1,
                !.owner = w, !.lease = "live"]

LeaseNext(w, j) ==
    /\ worker[w].pc = "poll"
    /\ Candidate(job[j])
    /\ job' = [job EXCEPT ![j] = Leased(@, w)]
    /\ worker' = [worker EXCEPT ![w] =
           [pc |-> "start", job |-> j, attempt |-> job[j].attempt + 1,
            call |-> "none"]]
    /\ Record(j, "leased")
    /\ UNCHANGED <<stored, crashes>>

\* The rows heartbeat() and finish() may write.  Only heartbeat() asks
\* whether the lease has expired.
Holds(w, row) == row.state = "running" /\ row.owner = w
Renewable(w, row) == Holds(w, row) /\ row.lease = "live"

AfterHeartbeat(pc) == IF pc = "start" THEN "download" ELSE "extract"
GiveUpAfter(pc) == IF pc = "start" THEN "giveUp" ELSE "finish"

\* The renewal moves lease_expires_at of a lease that is live anyway.
Heartbeat(w) ==
    LET j == worker[w].job
        pc == worker[w].pc
        renewed == Renewable(w, job[j])
    IN  /\ pc \in {"start", "report"}
        /\ IF renewed THEN Record(j, "progress") ELSE UNCHANGED log
        /\ worker' = [worker EXCEPT ![w] =
               IF renewed /\ ~job[j].cancel
               THEN [@ EXCEPT !.pc = AfterHeartbeat(pc)]
               ELSE [@ EXCEPT !.pc = GiveUpAfter(pc), !.call = "nothing"]]
        /\ UNCHANGED <<job, stored, crashes>>

\* Faulty: a result overrides a cancellation.
OutcomeResultFirst(row, call) ==
    IF call = "result" THEN "succeeded"
    ELSE IF row.cancel THEN "cancelled"
    ELSE IF call \in RetryableErrors /\ row.attempt < row.max THEN "queued"
    ELSE "failed"

Outcome(row, call) ==
    IF row.cancel THEN "cancelled"
    ELSE IF call = "result" THEN "succeeded"
    ELSE IF call \in RetryableErrors /\ row.attempt < row.max THEN "queued"
    ELSE "failed"

OutcomeEvent(outcome) == IF outcome = "queued" THEN "retrying" ELSE outcome

Finished(row, call) ==
    [row EXCEPT !.state = Outcome(row, call), !.owner = NoWorker,
                !.lease = "none", !.result = (call = "result"),
                !.error = IF call \in Errors THEN call ELSE "none",
                !.completed = Outcome(row, call) \in Terminal]

\* finish() by the owner: the worker returns to its polling loop.
Finish(w) ==
    LET j == worker[w].job
        call == worker[w].call
    IN  /\ worker[w].pc \in Finishing
        /\ Holds(w, job[j])
        /\ job' = [job EXCEPT ![j] = Finished(@, call)]
        /\ Record(j, OutcomeEvent(Outcome(job[j], call)))
        /\ worker' = [worker EXCEPT ![w] = Polling]
        /\ UNCHANGED <<stored, crashes>>

\* finish() without the lease raises JobNotFound, which nothing catches:
\* run_forever() ends and with it the process.
FinishRefused(w) ==
    /\ worker[w].pc \in Finishing
    /\ ~Holds(w, job[worker[w].job])
    /\ worker' = [worker EXCEPT ![w] = Dead]
    /\ UNCHANGED <<job, log, stored, crashes>>

CancelsOf(j) == Len(SelectSeq(log[j], LAMBDA kind : kind = "cancel_requested"))

\* Faulty: the event tells the outcome, not the request.
RequestCancelLogsOutcome(j) ==
    /\ job[j].state = "queued"
    /\ job' = [job EXCEPT ![j].cancel = TRUE, ![j].state = "cancelled",
                          ![j].completed = TRUE]
    /\ Record(j, "cancelled")
    /\ UNCHANGED <<stored, worker, crashes>>

\* Faulty: a running job is marked without an event.
RequestCancelMarksSilently(j) ==
    /\ job[j].state \in {"queued", "running"}
    /\ job' = [job EXCEPT ![j].cancel = TRUE,
                          ![j].state = IF @ = "queued" THEN "cancelled" ELSE @,
                          ![j].completed = job[j].state = "queued"]
    /\ IF job[j].state = "queued" THEN Record(j, "cancel_requested") ELSE UNCHANGED log
    /\ UNCHANGED <<stored, worker, crashes>>

\* A queued job is cancelled at once, a running one is only marked.
RequestCancel(j) ==
    /\ job[j].state \in {"queued", "running"}
    /\ CancelsOf(j) < MaxCancels
    /\ job' = [job EXCEPT ![j] =
           IF @.state = "queued"
           THEN [@ EXCEPT !.cancel = TRUE, !.state = "cancelled",
                          !.completed = TRUE]
           ELSE [@ EXCEPT !.cancel = TRUE]]
    /\ Record(j, "cancel_requested")
    /\ UNCHANGED <<stored, worker, crashes>>

-----------------------------------------------------------------------------
(* The rest of process_lease                                               *)

Advance(w, from, to) ==
    /\ worker[w].pc = from
    /\ worker' = [worker EXCEPT ![w].pc = to]
    /\ UNCHANGED <<job, log, crashes>>

Download(w) == Advance(w, "download", "report") /\ UNCHANGED stored

\* run_pdf_job, _artifacts and build_bundle have all returned.
Extract(w) == Advance(w, "extract", "putBundle") /\ UNCHANGED stored

PutBundle(w) ==
    /\ Advance(w, "putBundle", "putEvidence")
    /\ stored' = stored \cup {<<worker[w].job, "bundle">>}

PutEvidence(w) ==
    /\ worker[w].pc = "putEvidence"
    /\ stored' = stored \cup {<<worker[w].job, "evidence">>}
    /\ worker' = [worker EXCEPT ![w].pc = "finish", ![w].call = "result"]
    /\ UNCHANGED <<job, log, crashes>>

\* The exceptions the handlers catch: OSError from any awaited call, and
\* RetrievalError and WorkerTimeout from the extraction alone.
Raises(pc) == IF pc = "extract" THEN Errors ELSE {"worker_failed"}

StepFails(w) ==
    /\ worker[w].pc \in InTry
    /\ \E error \in Raises(worker[w].pc) :
           worker' = [worker EXCEPT ![w].pc = "handle", ![w].call = error]
    /\ UNCHANGED <<job, log, stored, crashes>>

-----------------------------------------------------------------------------
(* The environment                                                         *)

\* A row whose lease_expires_at has passed: the clock moved, no column was written.
Lapsed(row) == [row EXCEPT !.lease = "expired"]

LeaseExpires(j) ==
    /\ job[j].lease = "live"
    /\ job' = [job EXCEPT ![j] = Lapsed(@)]
    /\ UNCHANGED <<log, stored, worker, crashes>>

\* A host failure, a kill, or an exception that process_lease does not catch
\* (ObjectIntegrityError, an S3 ClientError, a lost database connection).
Crash(w) ==
    /\ worker[w].pc # "down"
    /\ crashes < MaxCrashes
    /\ crashes' = crashes + 1
    /\ worker' = [worker EXCEPT ![w] = Dead]
    /\ UNCHANGED <<job, log, stored>>

Restart(w) ==
    /\ worker[w].pc = "down"
    /\ worker' = [worker EXCEPT ![w] = Polling]
    /\ UNCHANGED <<job, log, stored, crashes>>

-----------------------------------------------------------------------------

Init ==
    /\ job = [j \in Jobs |-> NoRow]
    /\ log = [j \in Jobs |-> <<>>]
    /\ stored = {}
    /\ worker = [w \in Workers |-> Polling]
    /\ crashes = 0

\* The steps that a running worker takes by itself.
WorkerStep(w) ==
    \/ Heartbeat(w)
    \/ Download(w)
    \/ Extract(w)
    \/ PutBundle(w)
    \/ PutEvidence(w)
    \/ StepFails(w)
    \/ Finish(w)
    \/ FinishRefused(w)

Next ==
    \/ \E j \in Jobs : Submit(j) \/ RequestCancel(j) \/ LeaseExpires(j)
    \/ \E w \in Workers : \E j \in Jobs : LeaseNext(w, j)
    \/ \E w \in Workers : WorkerStep(w) \/ Crash(w) \/ Restart(w)

Spec == Init /\ [][Next]_vars

\* A running worker keeps going and time passes.  ORDER BY created_at makes
\* every candidate the oldest one in the end, hence fairness for each job.
Fairness ==
    /\ \A w \in Workers : WF_vars(WorkerStep(w))
    /\ \A w \in Workers : \A j \in Jobs : WF_vars(LeaseNext(w, j))
    /\ \A j \in Jobs : WF_vars(LeaseExpires(j))

FairSpec == Spec /\ Fairness

\* What a deployment adds: a supervisor that restarts dead processes.
Supervised == \A w \in Workers : WF_vars(Restart(w))

SupervisedSpec == FairSpec /\ Supervised

-----------------------------------------------------------------------------
(* Safety                                                                  *)

\* Every variable has its type: the columns of dsvire_job, the kinds of
\* dsvire_job_event and the points where process_lease awaits.
TypeOK ==
    /\ job \in [Jobs -> Row]
    /\ log \in [Jobs -> Seq(EventKinds)]
    /\ stored \subseteq Jobs \X Artifacts
    /\ worker \in [Workers -> Process]
    /\ crashes \in Nat

\* The CHECK constraints of dsvire_job (001_platform.sql:73-74), and more:
\* no transaction leaves a row that PostgreSQL would reject, no row is
\* leased more often than its submission allowed, and a row has a completion
\* time only if it is terminal.
TableChecks ==
    \A j \in Jobs :
        /\ job[j].attempt <= job[j].max
        /\ (job[j].state = "running") <=> (job[j].owner # NoWorker)
        /\ (job[j].state = "running") <=> (job[j].lease # "none")
        /\ job[j].completed <=> job[j].state \in Terminal
        /\ job[j].state = "absent" => job[j] = NoRow

\* The fence: finish() and heartbeat() compare owner names only, never the
\* attempt, yet a worker that passes the comparison always carries the
\* row's current attempt, however often leases expired, were taken over, or
\* were won back by a restarted process of the same name.
LeaseIsCurrent ==
    \A w \in Workers :
        worker[w].pc \in Busy /\ Holds(w, job[worker[w].job])
            => worker[w].attempt = job[worker[w].job].attempt

\* Once request_cancel() has answered True the job can only end cancelled:
\* a result or an error that arrives later does not override it.
CancelWins ==
    \A j \in Jobs : job[j].cancel => job[j].state \in {"running", "cancelled"}

\* A succeeded row has a result whose bundle and evidence can be downloaded,
\* also when an earlier attempt of the job died half way (platform_api.py
\* serves the bundle of every succeeded job).
SuccessIsBacked ==
    \A j \in Jobs : job[j].state = "succeeded" =>
        /\ job[j].result /\ job[j].error = "none"
        /\ \A artifact \in Artifacts : <<j, artifact>> \in stored

\* A retryable error ends a job only when its attempts are spent.
RetriesAreUsed ==
    \A j \in Jobs : job[j].state = "failed" /\ job[j].error \in RetryableErrors
        => job[j].attempt = job[j].max

\* What a client of the event stream knows of a row, and learns from one event.  What a
\* kind means depends on the state before it, for a job that is cancelled while queued
\* logs "cancel_requested" and never "cancelled".
Unheard == [state |-> "absent", attempt |-> 0, cancel |-> FALSE]

Hears(known, kind) ==
    [state |-> IF kind \in {"queued", "retrying"} THEN "queued"
               ELSE IF kind = "leased" THEN "running"
               ELSE IF kind \in Terminal THEN kind
               ELSE IF kind = "cancel_requested" /\ known.state = "queued" THEN "cancelled"
               ELSE known.state,
     attempt |-> IF kind = "leased" THEN known.attempt + 1 ELSE known.attempt,
     cancel |-> known.cancel \/ kind = "cancel_requested"]

Replayed(events) ==
    LET known[n \in 0..Len(events)] ==
            IF n = 0 THEN Unheard ELSE Hears(known[n - 1], events[n])
    IN  known[Len(events)]

\* A client that reads the event stream and nothing else can compute the row.
LogReplaysRow ==
    \A j \in Jobs : Replayed(log[j]) = [state |-> job[j].state, attempt |-> job[j].attempt,
                                        cancel |-> job[j].cancel]

\* A running row that lease_next() refuses and whose owner is gone: nothing
\* in the service will ever write its state again.
Stranded(j) ==
    /\ job[j].state = "running"
    /\ job[j].attempt = job[j].max \/ job[j].cancel
    /\ \A w \in Workers : Holds(w, job[j]) => worker[w].job # j

\* Expired leases, takeovers, cancels and caught errors never strand a job:
\* only the death of a process does.
StrandingNeedsCrash == (\E j \in Jobs : Stranded(j)) => crashes > 0

\* A worker that is down, or that will be refused by finish() and go down.
Doomed(w) ==
    \/ worker[w].pc = "down"
    \/ worker[w].pc \in Busy /\ ~Holds(w, job[worker[w].job])

\* Taking over an expired lease kills the worker that lost it, but as long
\* as the environment kills none the service cannot lose its last worker.
SomeWorkerSurvives == crashes = 0 => \E w \in Workers : ~Doomed(w)

\* What every interleaving of workers, expiries, retries and cancellations
\* leaves behind: a fenced lease, a row that PostgreSQL accepts, a cancel
\* that won, results that are stored, attempts that were used, and a worker.
JobsAreSound ==
    /\ TableChecks
    /\ LeaseIsCurrent
    /\ CancelWins
    /\ SuccessIsBacked
    /\ RetriesAreUsed
    /\ StrandingNeedsCrash
    /\ SomeWorkerSurvives

-----------------------------------------------------------------------------
(* The inductive invariant behind the safety properties                    *)

\* No worker is ahead of the table, and no two carry the same attempt.
AttemptsAreTokens ==
    \A w \in Workers : worker[w].job \in Jobs =>
        /\ worker[w].attempt \in 1..job[worker[w].job].attempt
        /\ \A v \in Workers \ {w} :
               worker[v].job = worker[w].job => worker[v].attempt # worker[w].attempt

\* Artifacts are stored before the result that names them is reported.
ResultsAreStored ==
    \A w \in Workers :
        /\ worker[w].pc = "putEvidence" => <<worker[w].job, "bundle">> \in stored
        /\ worker[w].call = "result" =>
               \A artifact \in Artifacts : <<worker[w].job, artifact>> \in stored

\* Without crashes the owner of every running row is still working on it.
OwnersArePresent ==
    crashes = 0 =>
        \A j \in Jobs : job[j].state = "running" => worker[job[j].owner].job = j

\* What every reachable state satisfies; preserved by each step on its own.
IInv ==
    /\ TypeOK
    /\ TableChecks
    /\ AttemptsAreTokens
    /\ LeaseIsCurrent
    /\ CancelWins
    /\ RetriesAreUsed
    /\ ResultsAreStored
    /\ SuccessIsBacked
    /\ OwnersArePresent
    /\ SomeWorkerSurvives

-----------------------------------------------------------------------------
(* What a step may never do                                                *)

\* A terminal row is never written again: not by a late worker, a cancel
\* that arrives after the end, or a takeover.
TerminalRowsAreFrozen ==
    [][\A j \in Jobs : job[j].state \in Terminal => job'[j] = job[j]]_vars

\* A job whose cancellation was requested is not handed to another worker.
NoLeaseAfterCancel ==
    [][\A j \in Jobs : job[j].cancel => job'[j].attempt = job[j].attempt]_vars

\* Only the worker whose attempt is the row's newest can end that attempt.
OnlyNewestAttemptEnds ==
    [][\A j \in Jobs :
          job[j].state = "running" /\ job'[j].state # "running"
              => \E w \in Workers :
                     /\ worker[w].job = j /\ worker[w].attempt = job[j].attempt
                     /\ worker'[w].pc = "poll"]_vars

-----------------------------------------------------------------------------
(* Liveness                                                                *)

Settled(j) == job[j].state \in Terminal

\* Every accepted job ends.
JobsSettle == \A j \in Jobs : job[j].state = "queued" ~> Settled(j)

\* Every accepted job ends, and every accepted cancellation ends it as
\* cancelled, unless a crash has stranded it.
JobsSettleOrStrand ==
    \A j \in Jobs :
        /\ job[j].state = "queued" ~> (Settled(j) \/ Stranded(j))
        /\ job[j].cancel ~> (job[j].state = "cancelled" \/ Stranded(j))

-----------------------------------------------------------------------------
(* Refinement                                                              *)

\* The service keeps the promise of JobLifecycle: the token of a claim is
\* the attempt number that lease_next() returned to the worker.
Lifecycle == INSTANCE JobLifecycle WITH
    phase <- [j \in Jobs |-> job[j].state],
    limit <- [j \in Jobs |-> job[j].max],
    claims <- [j \in Jobs |-> job[j].attempt],
    tokens <- [j \in Jobs |->
                  {worker[w].attempt : w \in {v \in Workers : worker[v].job = j}}],
    revoked <- {j \in Jobs : job[j].cancel}

\* A job goes on only as its newest claim decides; a stale one is lost.
ImplementsLifecycle == Lifecycle!Spec

-----------------------------------------------------------------------------
(* What the documentation says and the code does not do                    *)

\* A failed job has met a permanent error or used every attempt.
FailedOnlyWhenSpent ==
    \A j \in Jobs : job[j].state = "failed" =>
        \/ job[j].error = "invalid_or_unsupported_pdf"
        \/ job[j].attempt = job[j].max

\* Losing a lease to a duplicate worker does not end a worker process.
OnlyCrashesStopWorkers ==
    Cardinality({w \in Workers : worker[w].pc = "down"}) <= crashes

=============================================================================
