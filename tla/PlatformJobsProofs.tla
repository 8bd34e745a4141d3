------------------------- MODULE PlatformJobsProofs -------------------------
(***************************************************************************)
(* Proofs about PlatformJobs, for any jobs, workers, attempt limits and    *)
(* bounds.  The inductive invariant IInv is proved one conjunct at a time, *)
(* each conjunct one action at a time.                                     *)
(***************************************************************************)
EXTENDS MCPlatformJobs, WellFoundedInduction, TLAPS

\* The sets and records that describe rows and workers.
LEMMA RowConstants ==
    /\ NoRow \in Row
    /\ \A l \in 1..20 : NewRow(l) \in Row
    /\ Polling \in Process /\ Dead \in Process
<1>1. NoRow \in Row
  BY DEF NoRow, Row, States, Terminal
<1>2. \A l \in 1..20 : NewRow(l) \in Row
  <2> TAKE l \in 1..20
  <2>1. l \in Nat /\ "queued" \in States \cup {"absent"}
    BY DEF States
  <2>2. QED
    BY <1>1, <2>1 DEF NewRow, Row
<1>3. Polling \in Process /\ Dead \in Process
  BY DEF Process
<1>4. QED
  BY <1>1, <1>2, <1>3

\* The initial state satisfies the type invariant.
LEMMA InitTypeOK == Init => TypeOK
BY RowConstants, SMT DEF Init, TypeOK

\* Appending an event keeps the log a log.
LEMMA RecordType ==
    ASSUME TypeOK, NEW j \in Jobs, NEW kind \in EventKinds, Record(j, kind)
    PROVE  log' \in [Jobs -> Seq(EventKinds)]
<1>1. log[j] \in Seq(EventKinds)
  BY DEF TypeOK
<1>2. Append(log[j], kind) \in Seq(EventKinds)
  BY <1>1
<1>3. QED
  BY <1>2 DEF TypeOK, Record

\* finish() turns a row into a row, and names the event it logs.
LEMMA FinishedType ==
    ASSUME NEW row \in Row, NEW call \in Calls
    PROVE  /\ Outcome(row, call) \in Terminal \cup {"queued"}
           /\ Finished(row, call) \in Row
           /\ OutcomeEvent(Outcome(row, call)) \in EventKinds
<1>1. Outcome(row, call) \in Terminal \cup {"queued"}
  BY DEF Outcome, Terminal
<1>2. (call = "result") \in BOOLEAN /\ (Outcome(row, call) \in Terminal) \in BOOLEAN
  OBVIOUS
<1>3. (IF call \in Errors THEN call ELSE "none") \in Errors \cup {"none"}
  OBVIOUS
<1>4. Finished(row, call) \in Row
  BY <1>1, <1>2, <1>3 DEF Finished, Row, States
<1>5. OutcomeEvent(Outcome(row, call)) \in EventKinds
  BY <1>1 DEF OutcomeEvent, EventKinds, Terminal
<1>6. QED
  BY <1>1, <1>4, <1>5

\* The columns that the proofs compute with have their types.
LEMMA RowFields ==
    ASSUME NEW row \in Row
    PROVE  /\ row.attempt \in Nat /\ row.max \in Nat
           /\ row.owner \in Workers \cup {NoWorker}
           /\ row.cancel \in BOOLEAN
BY DEF Row

\* lease_next() turns a row into a row.
LEMMA LeasedType ==
    ASSUME NEW row \in Row, NEW w \in Workers
    PROVE  Leased(row, w) \in Row
<1>1. "running" \in States \cup {"absent"} /\ row.attempt + 1 \in Nat
  BY RowFields DEF States
<1>2. QED
  BY <1>1 DEF Leased, Row

\* A worker inside process_lease has a job, any other one has none.
LEMMA BusyWorkersHaveJobs ==
    ASSUME TypeOK, NEW w \in Workers
    PROVE  /\ worker[w].pc \in Busy \cup {"poll", "down"}
           /\ worker[w].pc \in Busy => worker[w] \in Working
           /\ worker[w].pc \in Busy <=> worker[w].job \in Jobs
           /\ worker[w].pc \notin Busy => worker[w].job = NoJob /\ worker[w].call = "none"
<1>1. worker[w] \in Process
  BY DEF TypeOK
<1>2. {"poll", "down"} \cap Busy = {}
  BY DEF Busy, InTry, Finishing
<1>3. Polling.pc = "poll" /\ Polling.job = NoJob /\ Polling.call = "none"
  BY DEF Polling
<1>4. Dead.pc = "down" /\ Dead.job = NoJob /\ Dead.call = "none"
  BY DEF Dead, Polling
<1>5. QED
  BY <1>1, <1>2, <1>3, <1>4, NullsAreFresh DEF Process, Working

\* Every step preserves the type invariant.
LEMMA NextTypeOK == TypeOK /\ [Next]_vars => TypeOK'
<1> SUFFICES ASSUME TypeOK, [Next]_vars PROVE TypeOK'
  OBVIOUS
<1>a. job \in [Jobs -> Row] /\ worker \in [Workers -> Process]
  BY DEF TypeOK
<1>b. Working \subseteq Process /\ Polling \in Process /\ Dead \in Process
  BY DEF Process
<1>1. ASSUME NEW j \in Jobs, Submit(j) PROVE TypeOK'
  <2>1. PICK limit \in AttemptLimits : job' = [job EXCEPT ![j] = NewRow(limit)]
    BY <1>1 DEF Submit
  <2>2. job' \in [Jobs -> Row]
    BY <1>a, <2>1, LimitsInTableRange, RowConstants
  <2>3. log' \in [Jobs -> Seq(EventKinds)]
    BY <1>1, RecordType DEF Submit, EventKinds
  <2>4. QED
    BY <1>1, <2>2, <2>3 DEF Submit, TypeOK
<1>2. ASSUME NEW j \in Jobs, RequestCancel(j) PROVE TypeOK'
  <2>1. log' \in [Jobs -> Seq(EventKinds)]
    BY <1>2, RecordType DEF RequestCancel, EventKinds
  <2>2. /\ [job[j] EXCEPT !.cancel = TRUE] \in Row
        /\ [job[j] EXCEPT !.cancel = TRUE, !.state = "cancelled",
                          !.completed = TRUE] \in Row
    BY <1>a DEF Row, States, Terminal
  <2>3. job' \in [Jobs -> Row]
    BY <1>a, <1>2, <2>2 DEF RequestCancel
  <2>4. QED
    BY <1>2, <2>1, <2>3 DEF RequestCancel, TypeOK
<1>3. ASSUME NEW j \in Jobs, LeaseExpires(j) PROVE TypeOK'
  <2>1. [job[j] EXCEPT !.lease = "expired"] \in Row
    BY <1>a DEF Row
  <2>2. QED
    BY <1>3, <2>1 DEF LeaseExpires, Lapsed, TypeOK
<1>4. ASSUME NEW w \in Workers, NEW j \in Jobs, LeaseNext(w, j) PROVE TypeOK'
  <2>1. log' \in [Jobs -> Seq(EventKinds)]
    BY <1>4, RecordType DEF LeaseNext, EventKinds
  <2>2. job' \in [Jobs -> Row]
    BY <1>4, <1>a, LeasedType DEF LeaseNext
  <2>3. job[j].attempt + 1 \in Nat
    BY <1>a, RowFields
  <2>4. [pc |-> "start", job |-> j, attempt |-> job[j].attempt + 1,
         call |-> "none"] \in Working
    BY <2>3 DEF Working, Busy, Calls
  <2>5. QED
    BY <1>4, <1>b, <2>1, <2>2, <2>4 DEF LeaseNext, TypeOK
<1>5. ASSUME NEW w \in Workers, WorkerStep(w) PROVE TypeOK'
  <2>1. worker[w] \in Working
    <3>1. worker[w].pc \in Busy
      BY <1>5 DEF WorkerStep, Heartbeat, Download, Extract, PutBundle, PutEvidence,
         StepFails, Finish, FinishRefused, Advance, Busy, InTry, Finishing
    <3>2. QED
      BY <3>1, BusyWorkersHaveJobs
  <2> DEFINE j == worker[w].job
             call == worker[w].call
  <2>2. j \in Jobs /\ call \in Calls
    BY <2>1 DEF Working
  <2>3. ASSUME NEW pc \in Busy, NEW c \in Calls
        PROVE  [worker[w] EXCEPT !.pc = pc, !.call = c] \in Working
    BY <2>1 DEF Working
  <2>4. ASSUME NEW pc \in Busy
        PROVE  [worker[w] EXCEPT !.pc = pc] \in Working
    BY <2>1 DEF Working
  <2>5. InTry \cup Finishing \subseteq Busy
    BY DEF Busy
  <2>6. CASE Heartbeat(w)
    <3>1. /\ AfterHeartbeat(worker[w].pc) \in Busy
          /\ GiveUpAfter(worker[w].pc) \in Busy
          /\ "nothing" \in Calls
      BY DEF AfterHeartbeat, GiveUpAfter, Busy, InTry, Finishing, Calls
    <3>2. worker' \in [Workers -> Process]
      BY <1>a, <1>b, <2>3, <2>4, <2>6, <3>1 DEF Heartbeat
    <3>3. log' \in [Jobs -> Seq(EventKinds)]
      BY <2>2, <2>6, RecordType DEF Heartbeat, EventKinds, TypeOK
    <3>4. QED
      BY <2>6, <3>2, <3>3 DEF Heartbeat, TypeOK
  <2>7. CASE Download(w) \/ Extract(w)
    <3>1. {"report", "putBundle"} \subseteq Busy
      BY DEF Busy, InTry
    <3>2. QED
      BY <1>a, <1>b, <2>4, <2>7, <3>1 DEF Download, Extract, Advance, TypeOK
  <2>8. CASE PutBundle(w) \/ PutEvidence(w)
    <3>1. {"putEvidence", "finish"} \subseteq Busy /\ "result" \in Calls
      BY DEF Busy, InTry, Calls
    <3>2. worker' \in [Workers -> Process]
      BY <1>a, <1>b, <2>3, <2>4, <2>8, <3>1 DEF PutBundle, PutEvidence, Advance
    <3>3. {<<j, "bundle">>, <<j, "evidence">>} \subseteq Jobs \X Artifacts
      BY <2>2 DEF Artifacts
    <3>4. QED
      BY <2>8, <3>2, <3>3 DEF PutBundle, PutEvidence, Advance, TypeOK
  <2>9. CASE StepFails(w)
    <3>1. Raises(worker[w].pc) \subseteq Calls /\ "handle" \in Busy
      BY DEF Raises, Calls, Errors, RetryableErrors, Busy, Finishing
    <3>2. QED
      BY <1>a, <1>b, <2>3, <2>9, <3>1 DEF StepFails, TypeOK
  <2>10. CASE Finish(w)
    <3>1. job' \in [Jobs -> Row]
      BY <1>a, <2>2, <2>10, FinishedType DEF Finish
    <3>2. log' \in [Jobs -> Seq(EventKinds)]
      BY <1>a, <2>2, <2>10, FinishedType, RecordType DEF Finish
    <3>3. QED
      BY <1>a, <1>b, <2>10, <3>1, <3>2 DEF Finish, TypeOK
  <2>11. CASE FinishRefused(w)
    BY <1>b, <2>11 DEF FinishRefused, TypeOK
  <2>12. QED
    BY <1>5, <2>6, <2>7, <2>8, <2>9, <2>10, <2>11 DEF WorkerStep
<1>6. ASSUME NEW w \in Workers, Crash(w) \/ Restart(w) PROVE TypeOK'
  BY <1>6, <1>b DEF Crash, Restart, TypeOK
<1>7. CASE UNCHANGED vars
  BY <1>7 DEF vars, TypeOK
<1>8. QED
  BY <1>1, <1>2, <1>3, <1>4, <1>5, <1>6, <1>7 DEF Next

\* Rows, events, artifacts and workers keep their types in every behaviour of
\* the service (platform_db.py, platform_worker.py).
THEOREM TypeCorrect == Spec => []TypeOK
BY InitTypeOK, NextTypeOK, PTL DEF Spec

-----------------------------------------------------------------------------
(* What a step can do to one row and to one worker                         *)

\* A row changes by one of the five transactions that write it.
LEMMA RowChanges ==
    ASSUME TypeOK, [Next]_vars, NEW j \in Jobs
    PROVE  \/ job'[j] = job[j]
           \/ job[j].state = "absent" /\ \E l \in AttemptLimits : job'[j] = NewRow(l)
           \/ RequestCancel(j)
           \/ LeaseExpires(j)
           \/ \E w \in Workers : LeaseNext(w, j)
           \/ \E w \in Workers : Finish(w) /\ worker[w].job = j
<1>1. ASSUME NEW i \in Jobs, Submit(i)
      PROVE  \/ job'[j] = job[j]
             \/ job[j].state = "absent" /\ \E l \in AttemptLimits : job'[j] = NewRow(l)
  BY <1>1 DEF Submit, TypeOK
<1>2. ASSUME NEW i \in Jobs, RequestCancel(i) PROVE i = j \/ job'[j] = job[j]
  BY <1>2 DEF RequestCancel, TypeOK
<1>3. ASSUME NEW i \in Jobs, LeaseExpires(i) PROVE i = j \/ job'[j] = job[j]
  BY <1>3 DEF LeaseExpires, TypeOK
<1>4. ASSUME NEW w \in Workers, NEW i \in Jobs, LeaseNext(w, i)
      PROVE  i = j \/ job'[j] = job[j]
  BY <1>4 DEF LeaseNext, TypeOK
<1>5. ASSUME NEW w \in Workers, WorkerStep(w)
      PROVE  (Finish(w) /\ worker[w].job = j) \/ job'[j] = job[j]
  BY <1>5 DEF WorkerStep, Heartbeat, Download, Extract, PutBundle, PutEvidence,
     StepFails, Finish, FinishRefused, Advance, TypeOK
<1>6. ASSUME NEW w \in Workers, Crash(w) \/ Restart(w) PROVE job'[j] = job[j]
  BY <1>6 DEF Crash, Restart
<1>7. CASE UNCHANGED vars
  BY <1>7 DEF vars
<1>8. QED
  BY <1>1, <1>2, <1>3, <1>4, <1>5, <1>6, <1>7 DEF Next

\* A worker's state changes by its own steps and by what befalls it.
LEMMA WorkerCases ==
    ASSUME TypeOK, [Next]_vars, NEW w \in Workers
    PROVE  \/ worker'[w] = worker[w]
           \/ \E j \in Jobs : LeaseNext(w, j)
           \/ WorkerStep(w) \/ Crash(w) \/ Restart(w)
<1>1. CASE \E j \in Jobs : Submit(j) \/ RequestCancel(j) \/ LeaseExpires(j)
  BY <1>1 DEF Submit, RequestCancel, LeaseExpires
<1>2. ASSUME NEW v \in Workers, NEW j \in Jobs, LeaseNext(v, j)
      PROVE  v = w \/ worker'[w] = worker[w]
  BY <1>2 DEF LeaseNext, TypeOK
<1>3. ASSUME NEW v \in Workers, v # w, WorkerStep(v) \/ Crash(v) \/ Restart(v)
      PROVE  worker'[w] = worker[w]
  BY <1>3 DEF WorkerStep, Heartbeat, Download, Extract, PutBundle, PutEvidence,
     StepFails, Finish, FinishRefused, Advance, Crash, Restart, TypeOK
<1>4. CASE UNCHANGED vars
  BY <1>4 DEF vars
<1>5. QED
  BY <1>1, <1>2, <1>3, <1>4 DEF Next

\* A worker takes a lease, goes on within process_lease, or leaves it; only
\* in the last case can it be finish() that ends the attempt.
LEMMA WorkerChanges ==
    ASSUME TypeOK, [Next]_vars, NEW w \in Workers
    PROVE  \/ worker'[w] = worker[w]
           \/ \E j \in Jobs : LeaseNext(w, j)
           \/ /\ worker[w].pc \in Busy /\ worker'[w].pc \in Busy
              /\ worker'[w].job = worker[w].job
              /\ worker'[w].attempt = worker[w].attempt
              /\ job' = job
              /\ crashes' = crashes
           \/ Finish(w) \/ FinishRefused(w) \/ Crash(w) \/ Restart(w)
<1>1. CASE Heartbeat(w)
  BY <1>1, BusyWorkersHaveJobs
     DEF Heartbeat, AfterHeartbeat, GiveUpAfter, Busy, InTry, Finishing, Working, TypeOK
<1>2. CASE Download(w) \/ Extract(w) \/ PutBundle(w) \/ PutEvidence(w) \/ StepFails(w)
  BY <1>2, BusyWorkersHaveJobs
     DEF Download, Extract, PutBundle, PutEvidence, StepFails, Advance,
         Busy, InTry, Finishing, Working, TypeOK
<1>3. QED
  BY <1>1, <1>2, WorkerCases DEF WorkerStep

\* The columns after each transaction that writes an existing row.
LEMMA LeaseNextEffect ==
    ASSUME TypeOK, NEW w \in Workers, NEW j \in Jobs, LeaseNext(w, j)
    PROVE  /\ job[j].attempt < job[j].max /\ ~job[j].cancel
           /\ job[j].state \in {"queued", "running"}
           /\ job'[j].state = "running" /\ job'[j].owner = w
           /\ job'[j].lease = "live" /\ job'[j].attempt = job[j].attempt + 1
           /\ job'[j].max = job[j].max /\ job'[j].cancel = job[j].cancel
           /\ job'[j].completed = job[j].completed
           /\ worker[w] \in {Polling, Dead} /\ worker[w].pc = "poll"
           /\ worker'[w].pc = "start" /\ worker'[w].job = j
           /\ worker'[w].attempt = job[j].attempt + 1
           /\ worker'[w].call = "none"
<1>1. job[j] \in Row /\ job \in [Jobs -> Row] /\ worker \in [Workers -> Process]
  BY DEF TypeOK
<1>2. job'[j] = Leased(job[j], w) /\ Candidate(job[j])
  BY <1>1 DEF LeaseNext
<1>3. worker[w].pc = "poll" /\ worker[w] \in {Polling, Dead}
  BY <1>1 DEF LeaseNext, Process, Working, Busy, InTry, Finishing
<1>4. QED
  BY <1>1, <1>2, <1>3 DEF LeaseNext, Leased, Candidate, Row

LEMMA FinishEffect ==
    ASSUME TypeOK, NEW w \in Workers, NEW j \in Jobs, Finish(w), worker[w].job = j
    PROVE  /\ job[j].state = "running" /\ job[j].owner = w
           /\ worker[w].pc \in Busy /\ worker'[w] = Polling
           /\ job'[j] = Finished(job[j], worker[w].call)
           /\ job'[j].state = Outcome(job[j], worker[w].call)
           /\ job'[j].owner = NoWorker /\ job'[j].lease = "none"
           /\ job'[j].attempt = job[j].attempt /\ job'[j].max = job[j].max
           /\ job'[j].cancel = job[j].cancel
           /\ job'[j].completed <=> job'[j].state \in Terminal
<1>1. job[j] \in Row /\ job \in [Jobs -> Row] /\ worker \in [Workers -> Process]
  BY DEF TypeOK
<1>2. job'[j] = Finished(job[j], worker[w].call)
  BY <1>1 DEF Finish
<1>3. QED
  BY <1>1, <1>2 DEF Finish, Finished, Holds, Row, Busy

LEMMA RequestCancelEffect ==
    ASSUME TypeOK, NEW j \in Jobs, RequestCancel(j)
    PROVE  /\ job[j].state \in {"queued", "running"} /\ job'[j].cancel
           /\ job[j].state = "queued" =>
                  job'[j].state = "cancelled" /\ job'[j].completed
           /\ job[j].state = "running" =>
                  job'[j].state = "running" /\ job'[j].completed = job[j].completed
           /\ job'[j].owner = job[j].owner /\ job'[j].lease = job[j].lease
           /\ job'[j].attempt = job[j].attempt /\ job'[j].max = job[j].max
           /\ worker' = worker
BY DEF RequestCancel, TypeOK, Row

LEMMA LeaseExpiresEffect ==
    ASSUME TypeOK, NEW j \in Jobs, LeaseExpires(j)
    PROVE  /\ job[j].lease = "live" /\ job'[j].lease = "expired"
           /\ job'[j].state = job[j].state /\ job'[j].owner = job[j].owner
           /\ job'[j].attempt = job[j].attempt /\ job'[j].max = job[j].max
           /\ job'[j].cancel = job[j].cancel
           /\ job'[j].completed = job[j].completed
           /\ job'[j].result = job[j].result /\ job'[j].error = job[j].error
           /\ worker' = worker
BY DEF LeaseExpires, Lapsed, TypeOK, Row

-----------------------------------------------------------------------------
(* The conjuncts of IInv                                                   *)

LEMMA InitIInv == Init => IInv
<1> SUFFICES ASSUME Init PROVE IInv
  OBVIOUS
<1>1. TypeOK
  BY InitTypeOK
<1>2. \A j \in Jobs : job[j] = NoRow
  BY DEF Init
<1>3. \A w \in Workers : worker[w] = Polling
  BY DEF Init
<1>4. NoRow.state = "absent" /\ NoRow.attempt = 0 /\ NoRow.max = 0
      /\ NoRow.owner = NoWorker /\ NoRow.lease = "none" /\ ~NoRow.cancel
      /\ ~NoRow.completed
  BY DEF NoRow
<1>5. TableChecks /\ CancelWins /\ RetriesAreUsed /\ SuccessIsBacked /\ OwnersArePresent
  BY <1>2, <1>4 DEF TableChecks, CancelWins, RetriesAreUsed, SuccessIsBacked,
                    OwnersArePresent, Terminal
<1>6. AttemptsAreTokens /\ LeaseIsCurrent /\ ResultsAreStored /\ SomeWorkerSurvives
  BY <1>3, NullsAreFresh, SomeWorker DEF AttemptsAreTokens, LeaseIsCurrent, ResultsAreStored,
     SomeWorkerSurvives, Doomed, Polling, Busy, InTry, Finishing
<1>7. QED
  BY <1>1, <1>5, <1>6 DEF IInv

LEMMA NextTableChecks == TypeOK /\ TableChecks /\ [Next]_vars => TableChecks'
<1> SUFFICES ASSUME TypeOK, TableChecks, [Next]_vars, NEW j \in Jobs
             PROVE  /\ job'[j].attempt <= job'[j].max
                    /\ (job'[j].state = "running") <=> (job'[j].owner # NoWorker)
                    /\ (job'[j].state = "running") <=> (job'[j].lease # "none")
                    /\ job'[j].completed <=> job'[j].state \in Terminal
                    /\ job'[j].state = "absent" => job'[j] = NoRow
  BY DEF TableChecks
<1>1. /\ job[j].attempt <= job[j].max
      /\ (job[j].state = "running") <=> (job[j].owner # NoWorker)
      /\ (job[j].state = "running") <=> (job[j].lease # "none")
      /\ job[j].completed <=> job[j].state \in Terminal
      /\ job[j].state = "absent" => job[j] = NoRow
      /\ job[j].attempt \in Nat /\ job[j].max \in Nat
  BY RowFields DEF TableChecks, TypeOK
<1>2. CASE job'[j] = job[j]
  BY <1>1, <1>2
<1>3. CASE \E l \in AttemptLimits : job'[j] = NewRow(l)
  BY <1>3, LimitsInTableRange DEF NewRow, NoRow, Terminal
<1>4. CASE RequestCancel(j)
  BY <1>1, <1>4, RequestCancelEffect DEF Terminal
<1>5. CASE LeaseExpires(j)
  BY <1>1, <1>5, LeaseExpiresEffect DEF Terminal
<1>6. CASE \E w \in Workers : LeaseNext(w, j)
  BY <1>1, <1>6, LeaseNextEffect, NullsAreFresh DEF Terminal
<1>7. CASE \E w \in Workers : Finish(w) /\ worker[w].job = j
  <2>1. PICK w \in Workers : Finish(w) /\ worker[w].job = j
    BY <1>7
  <2>2. job'[j].state \in Terminal \cup {"queued"}
    BY <2>1, FinishEffect DEF Outcome, Terminal
  <2>3. QED
    BY <1>1, <2>1, <2>2, FinishEffect DEF Terminal
<1>8. QED
  BY <1>2, <1>3, <1>4, <1>5, <1>6, <1>7, RowChanges

LEMMA NextCancelWins == TypeOK /\ CancelWins /\ [Next]_vars => CancelWins'
<1> SUFFICES ASSUME TypeOK, CancelWins, [Next]_vars, NEW j \in Jobs, job'[j].cancel
             PROVE  job'[j].state \in {"running", "cancelled"}
  BY DEF CancelWins
<1>1. job[j].cancel => job[j].state \in {"running", "cancelled"}
  BY DEF CancelWins
<1>2. CASE \E l \in AttemptLimits : job'[j] = NewRow(l)
  BY <1>2 DEF NewRow, NoRow
<1>3. CASE RequestCancel(j) \/ LeaseExpires(j)
  BY <1>1, <1>3, RequestCancelEffect, LeaseExpiresEffect
<1>4. CASE \E w \in Workers : LeaseNext(w, j)
  BY <1>4, LeaseNextEffect
<1>5. CASE \E w \in Workers : Finish(w) /\ worker[w].job = j
  BY <1>5, FinishEffect DEF Outcome
<1>6. QED
  BY <1>1, <1>2, <1>3, <1>4, <1>5, RowChanges

\* An attempt number changes only when it is handed out, and then by one.
LEMMA AttemptsGrow ==
    ASSUME TypeOK, TableChecks, [Next]_vars, NEW j \in Jobs
    PROVE  \/ job'[j].attempt = job[j].attempt
           \/ /\ \E w \in Workers : LeaseNext(w, j)
              /\ job'[j].attempt = job[j].attempt + 1
<1>1. CASE job[j].state = "absent" /\ \E l \in AttemptLimits : job'[j] = NewRow(l)
  BY <1>1 DEF TableChecks, NewRow, NoRow
<1>2. CASE RequestCancel(j) \/ LeaseExpires(j)
  BY <1>2, RequestCancelEffect, LeaseExpiresEffect
<1>3. CASE \E w \in Workers : LeaseNext(w, j)
  BY <1>3, LeaseNextEffect
<1>4. CASE \E w \in Workers : Finish(w) /\ worker[w].job = j
  BY <1>4, FinishEffect
<1>5. QED
  BY <1>1, <1>2, <1>3, <1>4, RowChanges

\* A worker that has job j after a step had it before, or has just leased it.
LEMMA HoldersOf ==
    ASSUME TypeOK, [Next]_vars, NEW w \in Workers, worker'[w].job \in Jobs
    PROVE  \/ LeaseNext(w, worker'[w].job)
           \/ /\ worker[w].job = worker'[w].job
              /\ worker[w].attempt = worker'[w].attempt
<1>1. CASE \E j \in Jobs : LeaseNext(w, j)
  BY <1>1, LeaseNextEffect
<1>2. CASE Finish(w) \/ FinishRefused(w) \/ Crash(w) \/ Restart(w)
  BY <1>2, NullsAreFresh
     DEF Finish, FinishRefused, Crash, Restart, Polling, Dead, TypeOK
<1>3. QED
  BY <1>1, <1>2, WorkerChanges

\* Two workers do not lease in the same step.
LEMMA OneLeaseAtATime ==
    ASSUME TypeOK, NEW v \in Workers, NEW w \in Workers, NEW i \in Jobs, NEW j \in Jobs,
           LeaseNext(v, i), LeaseNext(w, j)
    PROVE  v = w
<1>1. v # w => worker'[w] = worker[w]
  BY DEF LeaseNext, TypeOK
<1>2. worker[w].pc = "poll" /\ worker'[w].pc = "start"
  BY LeaseNextEffect
<1>3. QED
  BY <1>1, <1>2

\* The attempt numbers of working processes stay distinct, and none is ahead
\* of its row: only lease_next() hands out a number, and it is a new one.
LEMMA NextAttemptsAreTokens ==
    TypeOK /\ TableChecks /\ AttemptsAreTokens /\ [Next]_vars => AttemptsAreTokens'
<1> SUFFICES ASSUME TypeOK, TableChecks, AttemptsAreTokens, [Next]_vars,
                    NEW w \in Workers, worker'[w].job \in Jobs
             PROVE  /\ worker'[w].attempt \in 1..job'[worker'[w].job].attempt
                    /\ \A v \in Workers \ {w} : worker'[v].job = worker'[w].job
                           => worker'[v].attempt # worker'[w].attempt
  BY DEF AttemptsAreTokens
<1> DEFINE j == worker'[w].job
<1>1. job[j].attempt \in Nat
  BY RowFields DEF TypeOK
<1>2. \/ job'[j].attempt = job[j].attempt
      \/ job'[j].attempt = job[j].attempt + 1
  BY AttemptsGrow
<1>3. ASSUME NEW v \in Workers, worker[v].job = j
      PROVE  worker[v].attempt \in 1..job[j].attempt
  BY <1>3 DEF AttemptsAreTokens
<1>4. ASSUME NEW v \in Workers, LeaseNext(v, j)
      PROVE  /\ worker'[v].attempt = job[j].attempt + 1
             /\ job'[j].attempt = job[j].attempt + 1
  BY <1>4, LeaseNextEffect
<1>5. worker'[w].attempt \in 1..job'[j].attempt
  BY <1>1, <1>2, <1>3, <1>4, HoldersOf
<1>6. ASSUME NEW v \in Workers \ {w}, worker'[v].job = j
      PROVE  worker'[v].attempt # worker'[w].attempt
  <2>1. CASE LeaseNext(w, j)
    <3>1. ~LeaseNext(v, j)
      BY <2>1, OneLeaseAtATime
    <3>2. worker'[v].attempt = worker[v].attempt /\ worker[v].job = j
      BY <1>6, <3>1, HoldersOf
    <3>3. QED
      BY <1>1, <1>3, <1>4, <2>1, <3>2
  <2>2. CASE ~LeaseNext(w, j)
    <3>1. worker'[w].attempt = worker[w].attempt /\ worker[w].job = j
      BY <2>2, HoldersOf
    <3>2. CASE LeaseNext(v, j)
      BY <1>1, <1>3, <1>4, <3>1, <3>2
    <3>3. CASE ~LeaseNext(v, j)
      <4>1. worker'[v].attempt = worker[v].attempt /\ worker[v].job = j
        BY <1>6, <3>3, HoldersOf
      <4>2. QED
        BY <3>1, <4>1 DEF AttemptsAreTokens
    <3>4. QED
      BY <3>2, <3>3
  <2>3. QED
    BY <2>1, <2>2
<1>7. QED
  BY <1>5, <1>6

\* The fence is closed by lease_next() alone: it makes the taker the owner
\* with the number it returns, and nobody else passes the owner comparison.
LEMMA NextLeaseIsCurrent ==
    TypeOK /\ TableChecks /\ LeaseIsCurrent /\ [Next]_vars => LeaseIsCurrent'
<1> SUFFICES ASSUME TypeOK, TableChecks, LeaseIsCurrent, [Next]_vars, NEW w \in Workers,
                    worker'[w].pc \in Busy, Holds(w, job'[worker'[w].job])
             PROVE  worker'[w].attempt = job'[worker'[w].job].attempt
  BY DEF LeaseIsCurrent, Holds
<1> DEFINE j == worker'[w].job
<1>1. j \in Jobs
  BY NextTypeOK, BusyWorkersHaveJobs DEF TypeOK, Process, Working, Polling, Dead, Busy, InTry, Finishing
<1>2. CASE LeaseNext(w, j)
  BY <1>1, <1>2, LeaseNextEffect
<1>3. CASE ~LeaseNext(w, j)
  <2>1. worker[w].job = j /\ worker[w].attempt = worker'[w].attempt /\ worker[w].pc \in Busy
    BY <1>1, <1>3, HoldersOf, BusyWorkersHaveJobs
  <2>2. ASSUME NEW v \in Workers, LeaseNext(v, j) PROVE FALSE
    <3>1. v = w
      BY <1>1, <2>2, LeaseNextEffect DEF Holds
    <3>2. QED
      BY <1>3, <2>2, <3>1
  <2>3. job'[j].attempt = job[j].attempt
    BY <1>1, <2>2, AttemptsGrow
  <2>4. Holds(w, job[j])
    <3>1. CASE \E l \in AttemptLimits : job'[j] = NewRow(l)
      BY <3>1 DEF Holds, NewRow, NoRow
    <3>2. CASE RequestCancel(j) \/ LeaseExpires(j)
      BY <1>1, <3>2, RequestCancelEffect, LeaseExpiresEffect DEF Holds
    <3>3. CASE \E v \in Workers : Finish(v) /\ worker[v].job = j
      BY <1>1, <3>3, FinishEffect, NullsAreFresh DEF Holds
    <3>4. QED
      BY <1>1, <2>2, <3>1, <3>2, <3>3, RowChanges
  <2>5. QED
    BY <2>1, <2>3, <2>4 DEF LeaseIsCurrent
<1>4. QED
  BY <1>2, <1>3

\* A result is pending only after both put_immutable() calls of its attempt,
\* and objects are never removed.
LEMMA NextResultsAreStored ==
    TypeOK /\ ResultsAreStored /\ [Next]_vars => ResultsAreStored'
<1> SUFFICES ASSUME TypeOK, ResultsAreStored, [Next]_vars, NEW w \in Workers
             PROVE  /\ worker'[w].pc = "putEvidence"
                           => <<worker'[w].job, "bundle">> \in stored'
                    /\ worker'[w].call = "result" => \A artifact \in Artifacts :
                           <<worker'[w].job, artifact>> \in stored'
  BY DEF ResultsAreStored
<1>1. /\ worker[w].pc = "putEvidence" => <<worker[w].job, "bundle">> \in stored
      /\ worker[w].call = "result" =>
             \A artifact \in Artifacts : <<worker[w].job, artifact>> \in stored
  BY DEF ResultsAreStored
<1>2. stored \subseteq stored'
  BY DEF Next, WorkerStep, Submit, RequestCancel, LeaseExpires, LeaseNext, Heartbeat,
     Download, Extract, PutBundle, PutEvidence, StepFails, Finish, FinishRefused,
     Advance, Crash, Restart, vars
<1>3. worker \in [Workers -> Process] /\ worker[w] \in Process
  BY DEF TypeOK
<1>4. CASE worker'[w] = worker[w]
  BY <1>1, <1>2, <1>4
<1>5. CASE \E j \in Jobs : LeaseNext(w, j)
  BY <1>5, LeaseNextEffect
<1>6. CASE Finish(w) \/ FinishRefused(w) \/ Crash(w) \/ Restart(w)
  BY <1>3, <1>6 DEF Finish, FinishRefused, Crash, Restart, Polling, Dead
<1>7. CASE Heartbeat(w)
  <2>1. worker[w].pc \in Busy
    BY <1>7 DEF Heartbeat, Busy, InTry
  <2>2. worker[w] \in Working
    BY <2>1, BusyWorkersHaveJobs
  <2>3. QED
    BY <1>1, <1>2, <1>3, <1>7, <2>2 DEF Heartbeat, AfterHeartbeat, GiveUpAfter, Working
<1>8. CASE Download(w) \/ Extract(w) \/ PutBundle(w) \/ PutEvidence(w) \/ StepFails(w)
  <2>1. worker[w].pc \in Busy
    BY <1>8 DEF Download, Extract, PutBundle, PutEvidence, StepFails, Advance, Busy, InTry
  <2>2. worker[w] \in Working
    BY <2>1, BusyWorkersHaveJobs
  <2>3. CASE Download(w) \/ Extract(w)
    BY <1>1, <1>2, <1>3, <2>2, <2>3 DEF Download, Extract, Advance, Working
  <2>4. CASE PutBundle(w)
    BY <1>1, <1>2, <1>3, <2>2, <2>4 DEF PutBundle, Advance, Working
  <2>5. CASE PutEvidence(w)
    BY <1>1, <1>2, <1>3, <2>2, <2>5 DEF PutEvidence, Working, Artifacts
  <2>6. CASE StepFails(w)
    <3>1. "result" \notin Raises(worker[w].pc)
      BY DEF Raises, Errors, RetryableErrors
    <3>2. QED
      BY <1>3, <2>2, <2>6, <3>1 DEF StepFails, Working
  <2>7. QED
    BY <1>8, <2>3, <2>4, <2>5, <2>6
<1>9. QED
  BY <1>4, <1>5, <1>6, <1>7, <1>8, WorkerCases DEF WorkerStep

\* finish() writes "succeeded" only for a pending result.
LEMMA NextSuccessIsBacked ==
    TypeOK /\ TableChecks /\ ResultsAreStored /\ SuccessIsBacked /\ [Next]_vars
        => SuccessIsBacked'
<1> SUFFICES ASSUME TypeOK, TableChecks, ResultsAreStored, SuccessIsBacked, [Next]_vars,
                    NEW j \in Jobs, job'[j].state = "succeeded"
             PROVE  /\ job'[j].result /\ job'[j].error = "none"
                    /\ \A artifact \in Artifacts : <<j, artifact>> \in stored'
  BY DEF SuccessIsBacked
<1>1. stored \subseteq stored'
  BY DEF Next, WorkerStep, Submit, RequestCancel, LeaseExpires, LeaseNext, Heartbeat,
     Download, Extract, PutBundle, PutEvidence, StepFails, Finish, FinishRefused,
     Advance, Crash, Restart, vars
<1>2. job[j].state = "succeeded" =>
          /\ job[j].result /\ job[j].error = "none"
          /\ \A artifact \in Artifacts : <<j, artifact>> \in stored
  BY DEF SuccessIsBacked
<1>3. CASE job'[j] = job[j]
  BY <1>1, <1>2, <1>3
<1>4. CASE \E l \in AttemptLimits : job'[j] = NewRow(l)
  BY <1>4 DEF NewRow, NoRow
<1>5. CASE RequestCancel(j) \/ \E w \in Workers : LeaseNext(w, j)
  BY <1>5, RequestCancelEffect, LeaseNextEffect
<1>6. CASE LeaseExpires(j)
  BY <1>1, <1>2, <1>6, LeaseExpiresEffect
<1>7. CASE \E w \in Workers : Finish(w) /\ worker[w].job = j
  <2>1. PICK w \in Workers : Finish(w) /\ worker[w].job = j
    BY <1>7
  <2>2. job[j] \in Row /\ job'[j] = Finished(job[j], worker[w].call)
    BY <2>1, FinishEffect DEF TypeOK
  <2>3. worker[w].call = "result"
    BY <2>1, FinishEffect DEF Outcome
  <2>4. "result" \notin Errors
    BY DEF Errors, RetryableErrors
  <2>5. job'[j].result /\ job'[j].error = "none"
    BY <2>2, <2>3, <2>4 DEF Finished, Row
  <2>6. QED
    BY <1>1, <2>1, <2>3, <2>5 DEF ResultsAreStored
<1>8. QED
  BY <1>3, <1>4, <1>5, <1>6, <1>7, RowChanges

LEMMA NextRetriesAreUsed ==
    TypeOK /\ TableChecks /\ RetriesAreUsed /\ [Next]_vars => RetriesAreUsed'
<1> SUFFICES ASSUME TypeOK, TableChecks, RetriesAreUsed, [Next]_vars, NEW j \in Jobs,
                    job'[j].state = "failed", job'[j].error \in RetryableErrors
             PROVE  job'[j].attempt = job'[j].max
  BY DEF RetriesAreUsed
<1>1. job[j].state = "failed" /\ job[j].error \in RetryableErrors
          => job[j].attempt = job[j].max
  BY DEF RetriesAreUsed
<1>2. CASE \E l \in AttemptLimits : job'[j] = NewRow(l)
  BY <1>2 DEF NewRow, NoRow
<1>3. CASE RequestCancel(j) \/ \E w \in Workers : LeaseNext(w, j)
  BY <1>3, RequestCancelEffect, LeaseNextEffect
<1>4. CASE LeaseExpires(j)
  BY <1>1, <1>4, LeaseExpiresEffect
<1>5. CASE \E w \in Workers : Finish(w) /\ worker[w].job = j
  <2>1. PICK w \in Workers : Finish(w) /\ worker[w].job = j
    BY <1>5
  <2> DEFINE call == worker[w].call
  <2>2. job[j] \in Row /\ job'[j] = Finished(job[j], call)
    BY <2>1, FinishEffect DEF TypeOK
  <2>3. job'[j].error = IF call \in Errors THEN call ELSE "none"
    BY <2>2 DEF Finished, Row
  <2>4. call \in RetryableErrors
    BY <2>3 DEF RetryableErrors
  <2>5. ~(job[j].attempt < job[j].max)
    BY <2>1, <2>4, FinishEffect DEF Outcome, RetryableErrors
  <2>6. job[j].attempt <= job[j].max /\ job[j].attempt \in Nat /\ job[j].max \in Nat
    BY <2>2, RowFields DEF TableChecks
  <2>7. QED
    BY <2>1, <2>5, <2>6, FinishEffect
<1>6. QED
  BY <1>1, <1>2, <1>3, <1>4, <1>5, RowChanges

\* Crashes are counted and never forgotten.
LEMMA NoCrashYet ==
    ASSUME TypeOK, [Next]_vars, crashes' = 0
    PROVE  crashes = 0 /\ \A w \in Workers : ~Crash(w)
<1>1. \A w \in Workers : ~Crash(w)
  BY DEF Crash, TypeOK
<1>2. crashes' = crashes \/ \E w \in Workers : Crash(w)
  BY DEF Next, WorkerStep, Submit, RequestCancel, LeaseExpires, LeaseNext, Heartbeat,
     Download, Extract, PutBundle, PutEvidence, StepFails, Finish, FinishRefused,
     Advance, Restart, vars
<1>3. QED
  BY <1>1, <1>2

\* As long as nothing crashes, a worker leaves a job only by ending its
\* attempt, or when the row has another owner.
LEMMA NextOwnersArePresent ==
    TypeOK /\ TableChecks /\ OwnersArePresent /\ [Next]_vars => OwnersArePresent'
<1> SUFFICES ASSUME TypeOK, TableChecks, OwnersArePresent, [Next]_vars, crashes' = 0,
                    NEW j \in Jobs, job'[j].state = "running"
             PROVE  worker'[job'[j].owner].job = j
  BY DEF OwnersArePresent
<1>1. crashes = 0 /\ \A w \in Workers : ~Crash(w)
  BY NoCrashYet
<1>2. CASE \E w \in Workers : LeaseNext(w, j)
  BY <1>2, LeaseNextEffect
<1>3. CASE ~ \E w \in Workers : LeaseNext(w, j)
  <2>1. job[j].state = "running" /\ job'[j].owner = job[j].owner
    <3>1. CASE \E l \in AttemptLimits : job'[j] = NewRow(l)
      BY <3>1 DEF NewRow, NoRow
    <3>2. CASE RequestCancel(j) \/ LeaseExpires(j)
      BY <3>2, RequestCancelEffect, LeaseExpiresEffect
    <3>3. CASE \E w \in Workers : Finish(w) /\ worker[w].job = j
      BY <3>3, FinishEffect DEF Outcome
    <3>4. QED
      BY <1>3, <3>1, <3>2, <3>3, RowChanges
  <2> DEFINE w == job[j].owner
  <2>2. w \in Workers /\ worker[w].job = j
    BY <1>1, <2>1, RowFields DEF TableChecks, OwnersArePresent, TypeOK
  <2>3. worker[w].pc \in Busy
    BY <2>2, BusyWorkersHaveJobs
  <2>4. ~FinishRefused(w)
    BY <2>1, <2>2 DEF FinishRefused, Holds
  <2>5. ~Finish(w)
    BY <2>1, <2>2, FinishEffect, NullsAreFresh
  <2>6. \A i \in Jobs : ~LeaseNext(w, i)
    BY <2>2, <2>3 DEF LeaseNext, Busy, InTry, Finishing
  <2>7. ~Restart(w)
    BY <2>2, <2>3 DEF Restart, Busy, InTry, Finishing
  <2>8. worker'[w].job = worker[w].job
    BY <1>1, <2>2, <2>4, <2>5, <2>6, <2>7, WorkerChanges
  <2>9. QED
    BY <2>1, <2>2, <2>8
<1>4. QED
  BY <1>2, <1>3

\* The worker that takes a lease over survives the one that lost it.
LEMMA NextSomeWorkerSurvives ==
    TypeOK /\ TableChecks /\ SomeWorkerSurvives /\ [Next]_vars => SomeWorkerSurvives'
<1> SUFFICES ASSUME TypeOK, TableChecks, SomeWorkerSurvives, [Next]_vars, crashes' = 0
             PROVE  \E w \in Workers : ~Doomed(w)'
  BY DEF SomeWorkerSurvives
<1>1. crashes = 0 /\ \A w \in Workers : ~Crash(w)
  BY NoCrashYet
<1>2. CASE \E w \in Workers, j \in Jobs : LeaseNext(w, j)
  BY <1>2, LeaseNextEffect DEF Doomed, Holds
<1>3. CASE ~ \E w \in Workers, j \in Jobs : LeaseNext(w, j)
  <2>1. PICK w \in Workers : ~Doomed(w)
    BY <1>1 DEF SomeWorkerSurvives
  <2>2. CASE Finish(w)
    BY <2>2 DEF Finish, Doomed, Polling, Busy, InTry, Finishing, TypeOK
  <2>3. CASE ~Finish(w)
    <3>1. ~FinishRefused(w) /\ ~Restart(w)
      BY <2>1 DEF FinishRefused, Restart, Doomed, Busy
    <3>2. /\ worker'[w].job = worker[w].job
          /\ worker'[w].pc \in Busy <=> worker[w].pc \in Busy
          /\ worker'[w].pc # "down"
      BY <1>1, <1>3, <2>1, <2>3, <3>1, WorkerChanges
         DEF Doomed, Busy, InTry, Finishing
    <3>3. ASSUME worker[w].pc \in Busy
          PROVE  Holds(w, job'[worker[w].job])
      <4> DEFINE j == worker[w].job
      <4>1. j \in Jobs /\ Holds(w, job[j])
        BY <2>1, <3>3, BusyWorkersHaveJobs DEF Doomed
      <4>2. CASE \E l \in AttemptLimits : job[j].state = "absent"
        BY <4>1, <4>2 DEF Holds
      <4>3. CASE RequestCancel(j) \/ LeaseExpires(j)
        BY <4>1, <4>3, RequestCancelEffect, LeaseExpiresEffect DEF Holds
      <4>4. ASSUME NEW v \in Workers, Finish(v), worker[v].job = j PROVE FALSE
        BY <2>3, <4>1, <4>4, FinishEffect DEF Holds
      <4>5. QED
        BY <1>3, <4>1, <4>2, <4>3, <4>4, RowChanges DEF Holds
    <3>4. QED
      BY <3>2, <3>3 DEF Doomed
  <2>4. QED
    BY <2>2, <2>3
<1>4. QED
  BY <1>2, <1>3

-----------------------------------------------------------------------------
(* The theorems                                                            *)

\* The strengthened invariant holds in every reachable state.
THEOREM Invariance == Spec => []IInv
<1>1. Init => IInv
  BY InitIInv
<1>2. IInv /\ [Next]_vars => IInv'
  BY NextTypeOK, NextTableChecks, NextAttemptsAreTokens, NextLeaseIsCurrent,
     NextCancelWins, NextRetriesAreUsed, NextResultsAreStored, NextSuccessIsBacked,
     NextOwnersArePresent, NextSomeWorkerSurvives DEF IInv
<1>3. QED
  BY <1>1, <1>2, PTL DEF Spec

\* A worker that passes the owner comparison of heartbeat() and finish()
\* carries the row's current attempt.
THEOREM LeasesAreFenced == Spec => []LeaseIsCurrent
BY Invariance, PTL DEF IInv

\* The rows respect the CHECK constraints, max_attempts and completed_at.
THEOREM RowsAreConsistent == Spec => []TableChecks
BY Invariance, PTL DEF IInv

\* An accepted cancellation is never overridden by a result or an error.
THEOREM CancelsAreFinal == Spec => []CancelWins
BY Invariance, PTL DEF IInv

\* The objects that a succeeded job names are in the object store.
THEOREM SuccessesAreBacked == Spec => []SuccessIsBacked
BY Invariance, PTL DEF IInv

\* finish() gives up on a retryable error only after max_attempts.
THEOREM RetriesAreExhausted == Spec => []RetriesAreUsed
BY Invariance, PTL DEF IInv

\* Losing leases never takes the last worker down.
THEOREM ServiceSurvives == Spec => []SomeWorkerSurvives
BY Invariance, PTL DEF IInv

\* Only the death of a process leaves a running row that nobody will write.
THEOREM StrandingIsCrash == Spec => []StrandingNeedsCrash
<1>1. IInv => StrandingNeedsCrash
  <2> SUFFICES ASSUME TypeOK, TableChecks, OwnersArePresent, crashes = 0,
                      NEW j \in Jobs, Stranded(j)
               PROVE  FALSE
    BY DEF IInv, StrandingNeedsCrash, TypeOK
  <2>1. job[j].owner \in Workers /\ worker[job[j].owner].job = j
    BY RowFields DEF Stranded, TableChecks, OwnersArePresent, TypeOK
  <2>2. QED
    BY <2>1 DEF Stranded, Holds
<1>2. QED
  BY <1>1, Invariance, PTL

\* The five properties and what they say of takeovers and crashes, at once.
THEOREM Soundness == Spec => []JobsAreSound
BY RowsAreConsistent, LeasesAreFenced, CancelsAreFinal, SuccessesAreBacked,
   RetriesAreExhausted, StrandingIsCrash, ServiceSurvives, PTL DEF JobsAreSound

\* No transaction writes a terminal row.
THEOREM TerminalRowsStay == Spec => TerminalRowsAreFrozen
<1>1. ASSUME IInv, [Next]_vars, NEW j \in Jobs, job[j].state \in Terminal
      PROVE  job'[j] = job[j]
  <2>1. TypeOK /\ TableChecks
    BY <1>1 DEF IInv
  <2>2. job[j].state \notin {"absent", "queued", "running"} /\ job[j].lease = "none"
    BY <1>1, <2>1 DEF Terminal, TableChecks
  <2>3. QED
    BY <1>1, <2>1, <2>2, RowChanges, RequestCancelEffect, LeaseExpiresEffect,
       LeaseNextEffect, FinishEffect
<1>2. IInv /\ [Next]_vars
          => [\A j \in Jobs : job[j].state \in Terminal => job'[j] = job[j]]_vars
  BY <1>1
<1>3. QED
  BY <1>2, Invariance, PTL DEF Spec, TerminalRowsAreFrozen

\* lease_next() passes over every job whose cancellation was requested.
THEOREM CancelledJobsAreNotLeased == Spec => NoLeaseAfterCancel
<1>1. ASSUME IInv, [Next]_vars, NEW j \in Jobs, job[j].cancel
      PROVE  job'[j].attempt = job[j].attempt
  BY <1>1, AttemptsGrow, LeaseNextEffect DEF IInv
<1>2. IInv /\ [Next]_vars
          => [\A j \in Jobs : job[j].cancel => job'[j].attempt = job[j].attempt]_vars
  BY <1>1
<1>3. QED
  BY <1>2, Invariance, PTL DEF Spec, NoLeaseAfterCancel

\* An attempt is ended by finish() in the worker that was given its number.
THEOREM AttemptsEndInTheirWorker == Spec => OnlyNewestAttemptEnds
<1>1. ASSUME IInv, [Next]_vars, NEW j \in Jobs,
             job[j].state = "running", job'[j].state # "running"
      PROVE  \E w \in Workers :
                 /\ worker[w].job = j /\ worker[w].attempt = job[j].attempt
                 /\ worker'[w].pc = "poll"
  <2>1. TypeOK /\ TableChecks /\ LeaseIsCurrent
    BY <1>1 DEF IInv
  <2>2. \E w \in Workers : Finish(w) /\ worker[w].job = j
    BY <1>1, <2>1, RowChanges, RequestCancelEffect, LeaseExpiresEffect, LeaseNextEffect
  <2>3. PICK w \in Workers : Finish(w) /\ worker[w].job = j
    BY <2>2
  <2>4. Holds(w, job[j]) /\ worker[w].pc \in Busy /\ worker'[w] = Polling
    BY <2>1, <2>3, FinishEffect DEF Holds
  <2>5. QED
    BY <2>1, <2>3, <2>4 DEF LeaseIsCurrent, Polling
<1>2. IInv /\ [Next]_vars => [\A j \in Jobs :
          job[j].state = "running" /\ job'[j].state # "running"
              => \E w \in Workers :
                     /\ worker[w].job = j /\ worker[w].attempt = job[j].attempt
                     /\ worker'[w].pc = "poll"]_vars
  BY <1>1
<1>3. QED
  BY <1>2, Invariance, PTL DEF Spec, OnlyNewestAttemptEnds

-----------------------------------------------------------------------------
(* The event log                                                           *)

\* What the transaction that logs "kind" leaves of a row that a reader of the log
\* knows as "known".
IsHeard(row, kind, next) ==
    /\ [from |-> row.state, kind |-> kind, to |-> next.state] \in Moves
    /\ next.attempt = IF kind = "leased" THEN row.attempt + 1 ELSE row.attempt
    /\ next.cancel = (row.cancel \/ kind = "cancel_requested")

\* Every transaction logs the event of what it wrote; what logs nothing writes
\* nothing of the row, whose lease may have lapsed meanwhile.
LEMMA LogWrites ==
    ASSUME TypeOK, TableChecks, [Next]_vars, NEW j \in Jobs
    PROVE  \/ /\ log'[j] = log[j] /\ job'[j] \in {job[j], Lapsed(job[j])}
              /\ job'[j].state = job[j].state /\ job'[j].attempt = job[j].attempt
              /\ job'[j].cancel = job[j].cancel
           \/ \E kind \in EventKinds :
                  /\ log'[j] = Append(log[j], kind)
                  /\ IsHeard(job[j], kind, job'[j])
<1> DEFINE Heard == \E kind \in EventKinds : /\ log'[j] = Append(log[j], kind)
                                             /\ IsHeard(job[j], kind, job'[j])
           Silent == log'[j] = log[j] /\ job'[j] = job[j]
<1>a. /\ job \in [Jobs -> Row] /\ log \in [Jobs -> Seq(EventKinds)]
      /\ job[j].cancel \in BOOLEAN /\ job[j].attempt \in Nat
  BY RowFields DEF TypeOK
<1>b. \A i \in Jobs, kind \in EventKinds :
          Record(i, kind) => /\ log'[i] = Append(log[i], kind)
                             /\ i # j => log'[j] = log[j]
  BY <1>a DEF Record
<1>1. ASSUME NEW i \in Jobs, Submit(i) PROVE Heard \/ Silent
  <2>1. PICK limit \in AttemptLimits : job' = [job EXCEPT ![i] = NewRow(limit)]
    BY <1>1 DEF Submit
  <2>2. Record(i, "queued") /\ "queued" \in EventKinds /\ job[i].state = "absent"
    BY <1>1 DEF Submit, EventKinds
  <2>3. CASE i = j
    <3>1. /\ job'[j].state = "queued" /\ job'[j].attempt = 0 /\ job'[j].cancel = FALSE
          /\ job[j].state = "absent" /\ job[j].attempt = 0 /\ job[j].cancel = FALSE
      BY <1>a, <2>1, <2>2, <2>3 DEF NewRow, NoRow, TableChecks
    <3>2. IsHeard(job[j], "queued", job'[j])
      BY <3>1 DEF IsHeard, Moves
    <3>3. QED
      BY <1>b, <2>2, <2>3, <3>2
  <2>4. CASE i # j
    BY <1>a, <1>b, <2>1, <2>2, <2>4
  <2>5. QED
    BY <2>3, <2>4
<1>2. ASSUME NEW i \in Jobs, RequestCancel(i) PROVE Heard \/ Silent
  <2>1. Record(i, "cancel_requested") /\ "cancel_requested" \in EventKinds
    BY <1>2 DEF RequestCancel, EventKinds
  <2>2. CASE i = j
    <3>1. job'[j].cancel = TRUE
      BY <1>2, <1>a, <2>2 DEF RequestCancel, Row
    <3>2. IsHeard(job[j], "cancel_requested", job'[j])
      BY <1>2, <2>2, <3>1, RequestCancelEffect DEF IsHeard, Moves
    <3>3. QED
      BY <1>b, <2>1, <2>2, <3>2
  <2>3. CASE i # j
    BY <1>2, <1>a, <1>b, <2>1, <2>3 DEF RequestCancel
  <2>4. QED
    BY <2>2, <2>3
<1>3. ASSUME NEW w \in Workers, NEW i \in Jobs, LeaseNext(w, i) PROVE Heard \/ Silent
  <2>1. Record(i, "leased") /\ "leased" \in EventKinds
    BY <1>3 DEF LeaseNext, EventKinds
  <2>2. CASE i = j
    <3>1. IsHeard(job[j], "leased", job'[j])
      BY <1>3, <1>a, <2>2, LeaseNextEffect DEF IsHeard, Moves
    <3>2. QED
      BY <1>b, <2>1, <2>2, <3>1
  <2>3. CASE i # j
    BY <1>3, <1>a, <1>b, <2>1, <2>3 DEF LeaseNext
  <2>4. QED
    BY <2>2, <2>3
<1>4. ASSUME NEW w \in Workers, Heartbeat(w) PROVE Heard \/ Silent
  <2>1. job' = job /\ "progress" \in EventKinds
    BY <1>4 DEF Heartbeat, EventKinds
  <2>2. worker[w].job \in Jobs
    BY <1>4, BusyWorkersHaveJobs DEF Heartbeat, Busy, InTry
  <2>3. CASE Renewable(w, job[worker[w].job]) /\ worker[w].job = j
    <3>1. Record(j, "progress") /\ job[j].state = "running"
      BY <1>4, <2>3 DEF Heartbeat, Renewable, Holds
    <3>2. IsHeard(job[j], "progress", job'[j])
      BY <1>a, <2>1, <3>1 DEF IsHeard, Moves
    <3>3. QED
      BY <1>b, <2>1, <3>1, <3>2
  <2>4. CASE Renewable(w, job[worker[w].job]) /\ worker[w].job # j
    BY <1>4, <1>b, <2>1, <2>2, <2>4 DEF Heartbeat
  <2>5. CASE ~ Renewable(w, job[worker[w].job])
    BY <1>4, <2>1, <2>5 DEF Heartbeat
  <2>6. QED
    BY <2>3, <2>4, <2>5
<1>5. ASSUME NEW w \in Workers, Finish(w) PROVE Heard \/ Silent
  <2> DEFINE i == worker[w].job
             outcome == Outcome(job[i], worker[w].call)
  <2>1. worker[w] \in Working /\ i \in Jobs /\ worker[w].call \in Calls
    BY <1>5, BusyWorkersHaveJobs DEF Finish, Busy, Working
  <2>2. outcome \in Terminal \cup {"queued"} /\ OutcomeEvent(outcome) \in EventKinds
    BY <1>a, <2>1, FinishedType
  <2>3. Record(i, OutcomeEvent(outcome))
    BY <1>5 DEF Finish
  <2>4. CASE i = j
    <3>1. /\ job[j].state = "running" /\ job'[j].state = outcome
          /\ job'[j].attempt = job[j].attempt /\ job'[j].cancel = job[j].cancel
      BY <1>5, <2>4, FinishEffect
    <3>2. [from |-> "running", kind |-> OutcomeEvent(outcome), to |-> outcome] \in Moves
      <4>1. CASE outcome = "queued"
        BY <4>1 DEF OutcomeEvent, Moves
      <4>2. CASE outcome \in Terminal
        <5>1. OutcomeEvent(outcome) = outcome /\ outcome \in Ended
          BY <4>2 DEF OutcomeEvent, Terminal, Ended
        <5>2. [from |-> "running", kind |-> outcome, to |-> outcome]
                  \in [from: {"running"}, kind: {outcome}, to: {outcome}]
          OBVIOUS
        <5>3. QED
          BY <5>1, <5>2 DEF Endings, Moves
      <4>3. QED
        BY <2>2, <4>1, <4>2
    <3>3. OutcomeEvent(outcome) \notin {"leased", "cancel_requested"}
      BY <2>2 DEF OutcomeEvent, Terminal
    <3>4. IsHeard(job[j], OutcomeEvent(outcome), job'[j])
      BY <1>a, <3>1, <3>2, <3>3 DEF IsHeard
    <3>5. QED
      BY <1>b, <2>2, <2>3, <2>4, <3>4
  <2>5. CASE i # j
    BY <1>5, <1>a, <1>b, <2>1, <2>2, <2>3, <2>5 DEF Finish
  <2>6. QED
    BY <2>4, <2>5
<1>6. ASSUME NEW i \in Jobs, LeaseExpires(i)
      PROVE  /\ log' = log /\ job'[j] \in {job[j], Lapsed(job[j])}
             /\ job'[j].state = job[j].state /\ job'[j].attempt = job[j].attempt
             /\ job'[j].cancel = job[j].cancel
  <2>1. log' = log
    BY <1>6 DEF LeaseExpires
  <2>2. CASE i = j
    BY <1>6, <1>a, <2>1, <2>2, LeaseExpiresEffect DEF LeaseExpires
  <2>3. CASE i # j
    BY <1>6, <1>a, <2>1, <2>3 DEF LeaseExpires
  <2>4. QED
    BY <2>2, <2>3
<1>7. ASSUME NEW w \in Workers,
             Download(w) \/ Extract(w) \/ PutBundle(w) \/ PutEvidence(w) \/ StepFails(w)
                \/ FinishRefused(w) \/ Crash(w) \/ Restart(w)
      PROVE  Silent
  BY <1>7 DEF Download, Extract, PutBundle, PutEvidence, StepFails, FinishRefused,
              Advance, Crash, Restart
<1>8. CASE UNCHANGED vars
  BY <1>8 DEF vars
<1>9. QED
  BY <1>1, <1>2, <1>3, <1>4, <1>5, <1>6, <1>7, <1>8 DEF Next, WorkerStep

\* A reader who knew the row knows it again after the event of a write.
LEMMA WritesAreHeard ==
    ASSUME NEW row \in Row, NEW next \in Row, NEW kind \in EventKinds,
           IsHeard(row, kind, next)
    PROVE  Hears([state |-> row.state, attempt |-> row.attempt, cancel |-> row.cancel], kind)
               = [state |-> next.state, attempt |-> next.attempt, cancel |-> next.cancel]
<1>1. \/ row.state = "absent" /\ kind = "queued" /\ next.state = "queued"
      \/ kind = "leased" /\ next.state = "running"
      \/ row.state = "running" /\ kind = "progress" /\ next.state = "running"
      \/ kind = "retrying" /\ next.state = "queued"
      \/ kind \in Ended /\ next.state = kind
      \/ row.state = "queued" /\ kind = "cancel_requested" /\ next.state = "cancelled"
      \/ row.state = "running" /\ kind = "cancel_requested" /\ next.state = "running"
  BY DEF IsHeard, Moves, Endings
<1>2. next.attempt = IF kind = "leased" THEN row.attempt + 1 ELSE row.attempt
  BY DEF IsHeard
<1>3. next.cancel = (row.cancel \/ kind = "cancel_requested")
  BY DEF IsHeard
<1>4. QED
  BY <1>1, <1>2, <1>3 DEF Hears, Terminal, Ended

\* Every nonempty set of numbers has a smallest one: induction, in the form in which
\* it can be cited here.
LEMMA Smallest ==
    ASSUME NEW S \in SUBSET Nat, S # {}
    PROVE  \E n \in S : \A m \in S : n <= m
<1> DEFINE R == {p \in Nat \X Nat : p[1] < p[2]}
<1>1. IsWellFoundedOn(R, Nat)
  BY NatLessThanWellFounded DEF OpToRel
<1> HIDE DEF R
<1>2. PICK n \in S : \A m \in S : ~ (<<m, n>> \in R)
  BY <1>1, WFMin
<1>3. \A m \in S : ~ (m < n)
  <2> SUFFICES ASSUME NEW m \in S, m < n PROVE FALSE
    OBVIOUS
  <2>1. <<m, n>> \in Nat \X Nat /\ <<m, n>>[1] = m /\ <<m, n>>[2] = n
    OBVIOUS
  <2>2. <<m, n>> \in R
    BY <2>1 DEF R
  <2>3. QED
    BY <1>2, <2>2
<1>4. QED
  BY <1>3

\* What a reader knows after each of the first n events.
Knows(g, s, n) ==
    g = [i \in 0..n |-> IF i = 0 THEN Unheard ELSE Hears(g[i - 1], s[i])]

\* There is such a history of knowledge for every log,
LEMMA KnowledgeExists ==
    ASSUME NEW s \in Seq(EventKinds), NEW n \in 0..Len(s)
    PROVE  \E g : Knows(g, s, n)
<1> DEFINE Bad == {m \in 0..Len(s) : ~ \E g : Knows(g, s, m)}
<1> SUFFICES ASSUME Bad # {} PROVE FALSE
  OBVIOUS
<1>0. Bad \in SUBSET Nat
  OBVIOUS
<1> HIDE DEF Bad
<1>1. PICK m \in Bad : \A k \in Bad : m <= k
  BY <1>0, Smallest
<1> USE DEF Bad
<1>2. CASE m = 0
  <2> DEFINE g == [i \in 0..0 |-> Unheard]
  <2>1. Knows(g, s, 0)
    BY DEF Knows
  <2>2. QED
    BY <1>2, <2>1
<1>3. CASE m # 0
  <2>1. m - 1 \in 0..Len(s) /\ m - 1 \notin Bad /\ m \in 1..Len(s)
    BY <1>1, <1>3
  <2>2. PICK g : Knows(g, s, m - 1)
    BY <2>1
  <2> DEFINE h == [i \in 0..m |-> IF i = m THEN Hears(g[m - 1], s[m]) ELSE g[i]]
  <2>3. \A i \in 0..(m - 1) : h[i] = g[i]
                              /\ g[i] = IF i = 0 THEN Unheard ELSE Hears(g[i - 1], s[i])
    BY <2>1, <2>2 DEF Knows
  <2>4. \A i \in 0..m : h[i] = IF i = 0 THEN Unheard ELSE Hears(h[i - 1], s[i])
    <3> TAKE i \in 0..m
    <3>1. CASE i = m
      <4>1. h[m] = Hears(g[m - 1], s[m]) /\ h[m - 1] = g[m - 1] /\ m # 0
        BY <2>1, <2>3
      <4>2. QED
        BY <3>1, <4>1
    <3>2. CASE i # m
      <4>1. i \in 0..(m - 1) /\ (i # 0 => i - 1 \in 0..(m - 1))
        BY <2>1, <3>2
      <4>2. QED
        BY <2>3, <4>1
    <3>3. QED
      BY <3>1, <3>2
  <2>5. h = [i \in 0..m |-> h[i]]
    OBVIOUS
  <2> HIDE DEF h
  <2>6. Knows(h, s, m)
    BY <2>4, <2>5 DEF Knows
  <2>7. QED
    BY <1>1, <2>6
<1>4. QED
  BY <1>2, <1>3

\* and it is the same for two logs as far as they agree.
LEMMA KnowledgeIsUnique ==
    ASSUME NEW s, NEW t, NEW m \in Nat, NEW n \in m..(m + 1), NEW g, NEW h,
           Knows(g, s, m), Knows(h, t, n), \A i \in 1..m : s[i] = t[i]
    PROVE  g[m] = h[m]
<1> DEFINE Bad == {i \in 0..m : g[i] # h[i]}
<1> SUFFICES ASSUME Bad # {} PROVE FALSE
  OBVIOUS
<1>0. Bad \in SUBSET Nat
  OBVIOUS
<1> HIDE DEF Bad
<1>1. PICK k \in Bad : \A i \in Bad : k <= i
  BY <1>0, Smallest
<1> USE DEF Bad
<1>2. /\ g[k] = IF k = 0 THEN Unheard ELSE Hears(g[k - 1], s[k])
      /\ h[k] = IF k = 0 THEN Unheard ELSE Hears(h[k - 1], t[k])
  BY <1>1 DEF Knows
<1>3. CASE k = 0
  BY <1>1, <1>2, <1>3
<1>4. CASE k # 0
  <2>1. k - 1 \in 0..m /\ k - 1 \notin Bad /\ s[k] = t[k]
    BY <1>1, <1>4
  <2>2. QED
    BY <1>1, <1>2, <1>4, <2>1
<1>5. QED
  BY <1>3, <1>4

\* Replayed is what the history says last.
LEMMA ReplayedKnows ==
    ASSUME NEW s \in Seq(EventKinds)
    PROVE  \E g : Knows(g, s, Len(s)) /\ Replayed(s) = g[Len(s)]
<1> DEFINE g == CHOOSE f : Knows(f, s, Len(s))
<1>1. Len(s) \in 0..Len(s)
  OBVIOUS
<1>2. Knows(g, s, Len(s))
  BY <1>1, KnowledgeExists
<1>3. Replayed(s) = g[Len(s)]
  BY DEF Replayed, Knows
<1>4. QED
  BY <1>2, <1>3

\* A reader of an empty log knows nothing; one more event is heard by what was known.
LEMMA ReplayedByEvent ==
    /\ Replayed(<<>>) = Unheard
    /\ \A s \in Seq(EventKinds), kind \in EventKinds :
           Replayed(Append(s, kind)) = Hears(Replayed(s), kind)
<1>1. Replayed(<<>>) = Unheard
  <2>1. <<>> \in Seq(EventKinds) /\ Len(<<>>) = 0
    OBVIOUS
  <2>2. PICK g : Knows(g, <<>>, 0) /\ Replayed(<<>>) = g[0]
    BY <2>1, ReplayedKnows
  <2>3. QED
    BY <2>2 DEF Knows
<1>2. ASSUME NEW s \in Seq(EventKinds), NEW kind \in EventKinds
      PROVE  Replayed(Append(s, kind)) = Hears(Replayed(s), kind)
  <2> DEFINE t == Append(s, kind)
             m == Len(s)
  <2>1. /\ t \in Seq(EventKinds) /\ m \in Nat /\ Len(t) = m + 1
        /\ t[m + 1] = kind /\ \A i \in 1..m : s[i] = t[i]
    OBVIOUS
  <2> HIDE DEF t, m
  <2>2. PICK g : Knows(g, s, m) /\ Replayed(s) = g[m]
    BY ReplayedKnows DEF m
  <2>3. PICK h : Knows(h, t, m + 1) /\ Replayed(t) = h[m + 1]
    BY <2>1, ReplayedKnows
  <2>4. g[m] = h[m]
    BY <2>1, <2>2, <2>3, KnowledgeIsUnique
  <2>5. h[m + 1] = Hears(h[m], t[m + 1])
    BY <2>1, <2>3 DEF Knows
  <2>6. QED
    BY <2>1, <2>2, <2>3, <2>4, <2>5 DEF t
<1>3. QED
  BY <1>1, <1>2

\* A reader of the event log of a job computes its row: the log that platform_db.py
\* writes in the same transactions as the table is a complete record of it.
THEOREM LogIsEnough == Spec => []LogReplaysRow
<1>1. Init => LogReplaysRow
  <2> SUFFICES ASSUME Init, NEW j \in Jobs
               PROVE  Replayed(log[j]) = [state |-> job[j].state, attempt |-> job[j].attempt,
                                          cancel |-> job[j].cancel]
    BY DEF LogReplaysRow
  <2>1. log[j] = <<>> /\ job[j] = NoRow
    BY DEF Init
  <2>2. NoRow.state = "absent" /\ NoRow.attempt = 0 /\ NoRow.cancel = FALSE
    BY DEF NoRow
  <2>3. Replayed(<<>>) = Unheard
    BY ReplayedByEvent
  <2>4. QED
    BY <2>1, <2>2, <2>3 DEF Unheard
<1>2. ASSUME IInv, IInv', LogReplaysRow, [Next]_vars PROVE LogReplaysRow'
  <2> SUFFICES ASSUME NEW j \in Jobs
               PROVE  Replayed(log'[j]) = [state |-> job'[j].state,
                                           attempt |-> job'[j].attempt,
                                           cancel |-> job'[j].cancel]
    BY DEF LogReplaysRow
  <2>1. /\ TypeOK /\ TableChecks /\ job[j] \in Row /\ job'[j] \in Row
        /\ log[j] \in Seq(EventKinds)
    BY <1>2 DEF IInv, TypeOK
  <2>2. Replayed(log[j]) = [state |-> job[j].state, attempt |-> job[j].attempt,
                            cancel |-> job[j].cancel]
    BY <1>2 DEF LogReplaysRow
  <2>3. CASE /\ log'[j] = log[j]
             /\ job'[j].state = job[j].state /\ job'[j].attempt = job[j].attempt
             /\ job'[j].cancel = job[j].cancel
    BY <2>2, <2>3
  <2>4. ASSUME NEW kind \in EventKinds, log'[j] = Append(log[j], kind),
               IsHeard(job[j], kind, job'[j])
        PROVE  Replayed(log'[j]) = [state |-> job'[j].state,
                                    attempt |-> job'[j].attempt,
                                    cancel |-> job'[j].cancel]
    <3>1. Replayed(log'[j]) = Hears(Replayed(log[j]), kind)
      BY <2>1, <2>4, ReplayedByEvent
    <3>2. QED
      BY <2>1, <2>2, <2>4, <3>1, WritesAreHeard
  <2>5. QED
    BY <1>2, <2>1, <2>3, <2>4, LogWrites
<1>3. QED
  BY <1>1, <1>2, Invariance, PTL DEF Spec

\* Every write of a row appends one event and makes one of the moves that
\* EventStream's writers may make; no event is appended but with such a move.
THEOREM WritersMove == Spec => WritesAreMoves
<1>1. ASSUME IInv, [Next]_vars, NEW j \in Jobs, RowWritten(j) \/ log'[j] # log[j]
      PROVE  \E move \in Moves :
                 /\ move.from = job[j].state /\ move.to = job'[j].state
                 /\ log'[j] = Append(log[j], move.kind)
  <2>1. TypeOK /\ TableChecks
    BY <1>1 DEF IInv
  <2>2. PICK kind \in EventKinds : /\ log'[j] = Append(log[j], kind)
                                   /\ IsHeard(job[j], kind, job'[j])
    BY <1>1, <2>1, LogWrites DEF RowWritten
  <2> DEFINE move == [from |-> job[j].state, kind |-> kind, to |-> job'[j].state]
  <2>3. move \in Moves
    BY <2>2 DEF IsHeard
  <2>4. move.from = job[j].state /\ move.kind = kind /\ move.to = job'[j].state
    OBVIOUS
  <2>5. QED
    BY <2>2, <2>3, <2>4
<1>2. IInv /\ [Next]_vars => [\A j \in Jobs : RowWritten(j) \/ log'[j] # log[j] =>
          \E move \in Moves :
              /\ move.from = job[j].state /\ move.to = job'[j].state
              /\ log'[j] = Append(log[j], move.kind)]_vars
  BY <1>1
<1>3. QED
  BY <1>2, Invariance, PTL DEF Spec, WritesAreMoves

-----------------------------------------------------------------------------
(* The refinement of JobLifecycle                                          *)

\* The tokens of a job under the refinement mapping.
TokensOf(j) == {worker[w].attempt : w \in {v \in Workers : worker[v].job = j}}

\* A step that moves no job from one worker to another keeps the tokens.
LEMMA TokensStay ==
    ASSUME \A w \in Workers : /\ worker'[w].job = worker[w].job
                              /\ worker'[w].attempt = worker[w].attempt
    PROVE  \A j \in Jobs : TokensOf(j)' = TokensOf(j)
BY DEF TokensOf

\* A step in which one worker gives its job up removes its token only.
LEMMA TokenGiven ==
    ASSUME TypeOK, AttemptsAreTokens, NEW w \in Workers, worker[w].job \in Jobs,
           NEW p \in {Polling, Dead}, worker' = [worker EXCEPT ![w] = p]
    PROVE  \A j \in Jobs : TokensOf(j)' = IF j = worker[w].job
                                           THEN TokensOf(j) \ {worker[w].attempt}
                                           ELSE TokensOf(j)
<1> SUFFICES ASSUME NEW j \in Jobs
             PROVE  TokensOf(j)' = IF j = worker[w].job
                                   THEN TokensOf(j) \ {worker[w].attempt}
                                   ELSE TokensOf(j)
  OBVIOUS
<1>1. worker'[w].job # j
  BY NullsAreFresh DEF Polling, Dead, TypeOK
<1>2. \A v \in Workers \ {w} : worker'[v] = worker[v]
  BY DEF TypeOK
<1>3. TokensOf(j)' = {worker[v].attempt : v \in {u \in Workers \ {w} : worker[u].job = j}}
  BY <1>1, <1>2 DEF TokensOf
<1>4. \A v \in Workers \ {w} : worker[v].job = worker[w].job
          => worker[v].attempt # worker[w].attempt
  BY DEF AttemptsAreTokens
<1>5. QED
  BY <1>3, <1>4 DEF TokensOf

\* lease_next() adds the number it hands out.
LEMMA TokenTaken ==
    ASSUME TypeOK, NEW w \in Workers, NEW i \in Jobs, LeaseNext(w, i)
    PROVE  \A j \in Jobs : TokensOf(j)' = IF j = i
                                           THEN TokensOf(j) \cup {job[i].attempt + 1}
                                           ELSE TokensOf(j)
<1>1. worker[w].job \notin Jobs
  BY LeaseNextEffect, NullsAreFresh DEF Polling, Dead
<1>2. worker'[w].job = i /\ worker'[w].attempt = job[i].attempt + 1
  BY LeaseNextEffect
<1>3. \A v \in Workers \ {w} : worker'[v] = worker[v]
  BY DEF LeaseNext, TypeOK
<1>4. QED
  BY <1>1, <1>2, <1>3 DEF TokensOf

\* The columns that the refinement mapping shows, as functions of the job,
\* when a step writes one row only.
LEMMA MappedColumns ==
    ASSUME NEW j \in Jobs, \A i \in Jobs : i # j => job'[i] = job[i]
    PROVE  /\ [i \in Jobs |-> job'[i].state]
                  = [[i \in Jobs |-> job[i].state] EXCEPT ![j] = job'[j].state]
           /\ [i \in Jobs |-> job'[i].max]
                  = [[i \in Jobs |-> job[i].max] EXCEPT ![j] = job'[j].max]
           /\ [i \in Jobs |-> job'[i].attempt]
                  = [[i \in Jobs |-> job[i].attempt] EXCEPT ![j] = job'[j].attempt]
           /\ job'[j].max = job[j].max
                  => [i \in Jobs |-> job'[i].max] = [i \in Jobs |-> job[i].max]
           /\ job'[j].attempt = job[j].attempt
                  => [i \in Jobs |-> job'[i].attempt] = [i \in Jobs |-> job[i].attempt]
           /\ job'[j].cancel = job[j].cancel
                  => {i \in Jobs : job'[i].cancel} = {i \in Jobs : job[i].cancel}
<1>1. [i \in Jobs |-> job'[i].state]
          = [[i \in Jobs |-> job[i].state] EXCEPT ![j] = job'[j].state]
  OBVIOUS
<1>2. [i \in Jobs |-> job'[i].max]
          = [[i \in Jobs |-> job[i].max] EXCEPT ![j] = job'[j].max]
  OBVIOUS
<1>3. [i \in Jobs |-> job'[i].attempt]
          = [[i \in Jobs |-> job[i].attempt] EXCEPT ![j] = job'[j].attempt]
  OBVIOUS
<1>4. job'[j].max = job[j].max
          => [i \in Jobs |-> job'[i].max] = [i \in Jobs |-> job[i].max]
  OBVIOUS
<1>5. job'[j].attempt = job[j].attempt
          => [i \in Jobs |-> job'[i].attempt] = [i \in Jobs |-> job[i].attempt]
  OBVIOUS
<1>6. job'[j].cancel = job[j].cancel
          => {i \in Jobs : job'[i].cancel} = {i \in Jobs : job[i].cancel}
  OBVIOUS
<1>7. QED
  BY <1>1, <1>2, <1>3, <1>4, <1>5, <1>6

\* lease_next() is a claim.
LEMMA ClaimRefines ==
    ASSUME TypeOK, NEW w \in Workers, NEW j \in Jobs, LeaseNext(w, j)
    PROVE  Lifecycle!Claim(j)
<1>1. \A i \in Jobs : i # j => job'[i] = job[i]
  BY DEF LeaseNext, TypeOK
<1>2. /\ job'[j].state = "running" /\ job'[j].attempt = job[j].attempt + 1
      /\ job'[j].max = job[j].max /\ job'[j].cancel = job[j].cancel
  BY LeaseNextEffect
<1>3. [i \in Jobs |-> job'[i].state] = [[i \in Jobs |-> job[i].state] EXCEPT ![j] = "running"]
  BY <1>1, <1>2, MappedColumns
<1>4. [i \in Jobs |-> job'[i].attempt]
             = [[i \in Jobs |-> job[i].attempt] EXCEPT ![j] = job[j].attempt + 1]
  BY <1>1, <1>2, MappedColumns
<1>5. /\ [i \in Jobs |-> job'[i].max] = [i \in Jobs |-> job[i].max]
      /\ {i \in Jobs : job'[i].cancel} = {i \in Jobs : job[i].cancel}
  BY <1>1, <1>2, MappedColumns
<1>6. [i \in Jobs |-> TokensOf(i)']
          = [[i \in Jobs |-> TokensOf(i)] EXCEPT ![j] = TokensOf(j) \cup {job[j].attempt + 1}]
  BY TokenTaken
<1>7. QED
  BY <1>3, <1>4, <1>5, <1>6, LeaseNextEffect DEF Lifecycle!Claim, TokensOf

\* submit() accepts.
LEMMA AcceptRefines ==
    ASSUME TypeOK, TableChecks, NEW j \in Jobs, Submit(j) PROVE Lifecycle!Accept(j)
<1>1. PICK l \in AttemptLimits : job' = [job EXCEPT ![j] = NewRow(l)]
  BY DEF Submit
<1>2. \A i \in Jobs : i # j => job'[i] = job[i]
  BY <1>1 DEF TypeOK
<1>3. job[j].state = "absent" /\ job[j].attempt \in Nat /\ job'[j] = NewRow(l)
  BY <1>1, RowFields DEF Submit, TypeOK
<1>4. job'[j].state = "queued" /\ job'[j].max = l
      /\ job'[j].attempt = 0 /\ job'[j].cancel = FALSE
  BY <1>3 DEF NewRow, NoRow
<1>5. [i \in Jobs |-> job'[i].state] = [[i \in Jobs |-> job[i].state] EXCEPT ![j] = "queued"]
  BY <1>2, <1>4, MappedColumns
<1>6. [i \in Jobs |-> job'[i].max] = [[i \in Jobs |-> job[i].max] EXCEPT ![j] = l]
  BY <1>2, <1>4, MappedColumns
<1>7. job[j].attempt = job'[j].attempt /\ job[j].cancel = job'[j].cancel
  <2>1. job[j] = NoRow
    BY <1>3 DEF TableChecks
  <2>2. NoRow.attempt = 0 /\ NoRow.cancel = FALSE
    BY DEF NoRow
  <2>3. QED
    BY <1>4, <2>1, <2>2
<1>8. /\ [i \in Jobs |-> job'[i].attempt] = [i \in Jobs |-> job[i].attempt]
      /\ {i \in Jobs : job'[i].cancel} = {i \in Jobs : job[i].cancel}
  BY <1>2, <1>7, MappedColumns
<1>9. worker' = worker
  BY DEF Submit
<1>10. \E m \in AttemptLimits :
           [i \in Jobs |-> job'[i].max] = [[i \in Jobs |-> job[i].max] EXCEPT ![j] = m]
  BY <1>6
<1>11. [i \in Jobs |-> TokensOf(i)'] = [i \in Jobs |-> TokensOf(i)]
  BY <1>9, TokensStay
<1>12. QED
  BY <1>3, <1>5, <1>8, <1>10, <1>11 DEF Lifecycle!Accept, TokensOf

\* request_cancel() revokes.
LEMMA RevokeRefines ==
    ASSUME TypeOK, NEW j \in Jobs, RequestCancel(j) PROVE Lifecycle!Revoke(j)
<1>1. \A i \in Jobs : i # j => job'[i] = job[i]
  BY DEF RequestCancel, TypeOK
<1>2. /\ job[j].state \in {"queued", "running"} /\ job'[j].cancel
      /\ job'[j].state = IF job[j].state = "queued" THEN "cancelled" ELSE job[j].state
      /\ job'[j].attempt = job[j].attempt /\ job'[j].max = job[j].max
      /\ worker' = worker
  BY RequestCancelEffect
<1>3. [i \in Jobs |-> job'[i].state]
          = [[i \in Jobs |-> job[i].state] EXCEPT ![j] =
                 IF job[j].state = "queued" THEN "cancelled" ELSE job[j].state]
  BY <1>1, <1>2, MappedColumns
<1>4. /\ [i \in Jobs |-> job'[i].attempt] = [i \in Jobs |-> job[i].attempt]
      /\ [i \in Jobs |-> job'[i].max] = [i \in Jobs |-> job[i].max]
  BY <1>1, <1>2, MappedColumns
<1>5. {i \in Jobs : job'[i].cancel} = {i \in Jobs : job[i].cancel} \cup {j}
  BY <1>1, <1>2
<1>6. QED
  BY <1>2, <1>3, <1>4, <1>5 DEF Lifecycle!Revoke

\* finish() by the owner decides with the newest token.
LEMMA DecideRefines ==
    ASSUME IInv, NEW w \in Workers, NEW j \in Jobs, Finish(w), worker[w].job = j
    PROVE  Lifecycle!Decide(j)
<1> USE DEF IInv
<1>1. \A i \in Jobs : i # j => job'[i] = job[i]
  BY DEF Finish, TypeOK
<1>2. /\ job[j].state = "running" /\ job[j].owner = w /\ worker[w].pc \in Busy
      /\ job'[j].state = Outcome(job[j], worker[w].call)
      /\ job'[j].attempt = job[j].attempt /\ job'[j].max = job[j].max
      /\ job'[j].cancel = job[j].cancel
  BY FinishEffect
<1>3. worker[w].attempt = job[j].attempt
  BY <1>2 DEF LeaseIsCurrent, Holds
<1>4. [i \in Jobs |-> job'[i].state]
          = [[i \in Jobs |-> job[i].state] EXCEPT ![j] = job'[j].state]
  BY <1>1, MappedColumns
<1>5. /\ [i \in Jobs |-> job'[i].attempt] = [i \in Jobs |-> job[i].attempt]
      /\ [i \in Jobs |-> job'[i].max] = [i \in Jobs |-> job[i].max]
      /\ {i \in Jobs : job'[i].cancel} = {i \in Jobs : job[i].cancel}
  BY <1>1, <1>2, MappedColumns
<1>6. [i \in Jobs |-> TokensOf(i)']
          = [[i \in Jobs |-> TokensOf(i)] EXCEPT ![j] = TokensOf(j) \ {job[j].attempt}]
  BY <1>3, TokenGiven DEF Finish
<1>7. /\ job'[j].state \in {"queued", "succeeded", "failed", "cancelled"}
      /\ (job'[j].state = "cancelled") <=> job[j].cancel
      /\ job'[j].state = "queued" => job[j].attempt < job[j].max
  BY <1>2 DEF Outcome
<1>8. job[j].attempt \in TokensOf(j)
  BY <1>3 DEF TokensOf
<1>9. QED
  BY <1>2, <1>4, <1>5, <1>6, <1>7, <1>8 DEF Lifecycle!Decide, TokensOf

\* A refused finish() and a crash lose a token.
LEMMA LoseRefines ==
    ASSUME IInv, NEW w \in Workers, NEW j \in Jobs, worker[w].job = j,
           worker' = [worker EXCEPT ![w] = Dead], job' = job
    PROVE  Lifecycle!Next
<1>1. PICK t \in {worker[w].attempt} : TRUE
  OBVIOUS
<1>2. [i \in Jobs |-> TokensOf(i)'] = [[i \in Jobs |-> TokensOf(i)] EXCEPT ![j] = TokensOf(j) \ {t}]
  BY <1>1, TokenGiven DEF IInv
<1>3. t \in [i \in Jobs |-> TokensOf(i)][j]
  BY <1>1 DEF TokensOf
<1>4. Lifecycle!Lose(j, t)
  BY <1>2, <1>3 DEF Lifecycle!Lose, TokensOf
<1>5. \E s \in [i \in Jobs |-> TokensOf(i)][j] : Lifecycle!Lose(j, s)
  BY <1>3, <1>4
<1>6. QED
  BY <1>5 DEF Lifecycle!Next, TokensOf

\* A step that moves neither rows' mapped columns nor tokens is a stutter.
LEMMA StutterRefines ==
    ASSUME TypeOK,
           \A i \in Jobs : /\ job'[i].state = job[i].state
                           /\ job'[i].max = job[i].max
                           /\ job'[i].attempt = job[i].attempt
                           /\ job'[i].cancel = job[i].cancel,
           \A w \in Workers : /\ worker'[w].job = worker[w].job
                              /\ worker'[w].attempt = worker[w].attempt
    PROVE  UNCHANGED Lifecycle!vars
BY TokensStay DEF Lifecycle!vars, TokensOf

\* Every step of the service is a step of JobLifecycle or a stutter.
LEMMA StepRefines == IInv /\ [Next]_vars => [Lifecycle!Next]_(Lifecycle!vars)
<1> SUFFICES ASSUME IInv, [Next]_vars PROVE Lifecycle!Next \/ UNCHANGED Lifecycle!vars
  OBVIOUS
<1>a. TypeOK /\ TableChecks
  BY DEF IInv
<1>1. ASSUME NEW j \in Jobs, Submit(j) \/ RequestCancel(j) \/ \E w \in Workers : LeaseNext(w, j)
      PROVE  Lifecycle!Next
  BY <1>1, <1>a, AcceptRefines, RevokeRefines, ClaimRefines DEF Lifecycle!Next
<1>2. ASSUME NEW j \in Jobs, LeaseExpires(j) PROVE UNCHANGED Lifecycle!vars
  <2>1. \A i \in Jobs : /\ job'[i].state = job[i].state
                        /\ job'[i].max = job[i].max
                        /\ job'[i].attempt = job[i].attempt
                        /\ job'[i].cancel = job[i].cancel
    <3>1. \A i \in Jobs : i # j => job'[i] = job[i]
      BY <1>2, <1>a DEF LeaseExpires, TypeOK
    <3>2. QED
      BY <1>2, <1>a, <3>1, LeaseExpiresEffect
  <2>2. worker' = worker
    BY <1>2 DEF LeaseExpires
  <2>3. QED
    BY <1>a, <2>1, <2>2, StutterRefines
<1>3. ASSUME NEW w \in Workers, WorkerStep(w)
      PROVE  Lifecycle!Next \/ UNCHANGED Lifecycle!vars
  <2>1. worker[w].pc \in Busy
    BY <1>3 DEF WorkerStep, Heartbeat, Download, Extract, PutBundle, PutEvidence,
       StepFails, Finish, FinishRefused, Advance, Busy, InTry, Finishing
  <2>2. worker[w].job \in Jobs
    BY <1>a, <2>1, BusyWorkersHaveJobs
  <2>3. CASE Finish(w)
    BY <2>2, <2>3, DecideRefines DEF Lifecycle!Next
  <2>4. CASE FinishRefused(w)
    BY <2>2, <2>4, LoseRefines DEF FinishRefused
  <2>5. CASE Heartbeat(w) \/ Download(w) \/ Extract(w) \/ PutBundle(w) \/ PutEvidence(w)
             \/ StepFails(w)
    <3>1. job' = job
      BY <2>5 DEF Heartbeat, Download, Extract, PutBundle, PutEvidence, StepFails, Advance
    <3>2. worker[w] \in Working
      BY <1>a, <2>1, BusyWorkersHaveJobs
    <3>3. worker'[w].job = worker[w].job /\ worker'[w].attempt = worker[w].attempt
      <4>1. CASE Heartbeat(w)
        BY <1>a, <3>2, <4>1 DEF Heartbeat, Working, TypeOK
      <4>2. CASE Download(w) \/ Extract(w) \/ PutBundle(w)
        BY <1>a, <3>2, <4>2 DEF Download, Extract, PutBundle, Advance, Working, TypeOK
      <4>3. CASE PutEvidence(w) \/ StepFails(w)
        BY <1>a, <3>2, <4>3 DEF PutEvidence, StepFails, Working, TypeOK
      <4>4. QED
        BY <2>5, <4>1, <4>2, <4>3
    <3>4. \A v \in Workers : v # w => worker'[v] = worker[v]
      BY <1>a, <2>5 DEF Heartbeat, Download, Extract, PutBundle, PutEvidence,
         StepFails, Advance, TypeOK
    <3>5. QED
      BY <1>a, <3>1, <3>3, <3>4, StutterRefines
  <2>6. QED
    BY <1>3, <2>3, <2>4, <2>5 DEF WorkerStep
<1>4. ASSUME NEW w \in Workers, Crash(w) PROVE Lifecycle!Next \/ UNCHANGED Lifecycle!vars
  <2>1. CASE worker[w].job \in Jobs
    BY <1>4, <2>1, LoseRefines DEF Crash
  <2>2. CASE worker[w].job \notin Jobs
    <3>1. worker[w] \in {Polling, Dead}
      BY <1>a, <2>2 DEF TypeOK, Process, Working
    <3>2. \A v \in Workers : /\ worker'[v].job = worker[v].job
                             /\ worker'[v].attempt = worker[v].attempt
      BY <1>4, <1>a, <3>1 DEF Crash, Polling, Dead, TypeOK
    <3>3. job' = job
      BY <1>4 DEF Crash
    <3>4. QED
      BY <1>a, <3>2, <3>3, StutterRefines
  <2>3. QED
    BY <2>1, <2>2
<1>5. ASSUME NEW w \in Workers, Restart(w) PROVE UNCHANGED Lifecycle!vars
  <2>1. worker[w] \in {Polling, Dead}
    BY <1>5, <1>a DEF Restart, TypeOK, Process, Working, Busy, InTry, Finishing
  <2>2. \A v \in Workers : /\ worker'[v].job = worker[v].job
                           /\ worker'[v].attempt = worker[v].attempt
    BY <1>5, <1>a, <2>1 DEF Restart, Polling, Dead, TypeOK
  <2>3. job' = job
    BY <1>5 DEF Restart
  <2>4. QED
    BY <1>a, <2>2, <2>3, StutterRefines
<1>6. CASE UNCHANGED vars
  BY <1>a, <1>6, StutterRefines DEF vars
<1>7. QED
  BY <1>1, <1>2, <1>3, <1>4, <1>5, <1>6 DEF Next

\* The job service implements JobLifecycle: a job goes on only as the holder
\* of its newest claim decides, whatever leases expire and workers die.
THEOREM Refinement == Spec => ImplementsLifecycle
<1>1. Init => Lifecycle!Init
  <2> SUFFICES ASSUME Init PROVE Lifecycle!Init
    OBVIOUS
  <2>1. \A j \in Jobs : job[j].state = "absent" /\ job[j].max = 0
                        /\ job[j].attempt = 0 /\ job[j].cancel = FALSE
    BY DEF Init, NoRow
  <2>2. \A w \in Workers : worker[w].job \notin Jobs
    BY NullsAreFresh DEF Init, Polling
  <2>3. QED
    BY <2>1, <2>2 DEF Lifecycle!Init
<1>2. QED
  BY <1>1, StepRefines, Invariance, PTL DEF Spec, ImplementsLifecycle, Lifecycle!Spec

=============================================================================
