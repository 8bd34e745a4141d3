----------------------------- MODULE Submission -----------------------------
(***************************************************************************)
(* Concurrent submissions of jobs: submit_job (platform_api.py) stores the *)
(* document and calls PlatformDatabase.submit, a READ COMMITTED            *)
(* transaction of three statements (platform_db.py).                       *)
(*                                                                         *)
(* One action is one statement.  Between two of them other transactions    *)
(* run, subject to the locks that INSERT ... ON CONFLICT takes and waits   *)
(* for.  A client that gets no answer submits the same request again.      *)
(***************************************************************************)
EXTENDS Integers

CONSTANTS
    Submissions,   \* the clients' submissions
    Keys,          \* pairs of a tenant and an idempotency key
    Documents,     \* documents, by their digest
    Descriptions,  \* the other fields of a request
    NoRequest,     \* a key that no job has
    NoOne,         \* an index entry that no transaction holds
    MaxFaults      \* bound: lost connections, crashes and lost answers

Requests == [document: Documents, description: Descriptions]

ASSUME NoRequestIsFresh == NoRequest \notin Requests
ASSUME NoOneIsFresh == NoOne \notin Submissions
ASSUME FaultsAreBounded == MaxFaults \in Nat

VARIABLES
    key, request,  \* what each submission carries
    pc,            \* the next statement of each submission
    answer,        \* what the endpoint answered
    objects,       \* the documents in the object store
    documents,     \* committed rows of dsvire_document
    job,           \* committed rows of dsvire_job: the request of each key
    queued,        \* committed "queued" events (and outbox rows) of each key
    documentLock,  \* who has inserted or updated a document's row
    keyLock,       \* who has inserted a key that is not committed yet
    faults

asked == <<key, request>>
tables == <<documents, job, queued>>
locks == <<documentLock, keyLock>>
vars == <<asked, pc, answer, objects, tables, locks, faults>>

Doc(s) == request[s].document

-----------------------------------------------------------------------------

\* The transaction of s ends and gives up what it holds.
Release(s) ==
    /\ documentLock' = [d \in Documents |->
                           IF documentLock[d] = s THEN NoOne ELSE documentLock[d]]
    /\ keyLock' = [k \in Keys |-> IF keyLock[k] = s THEN NoOne ELSE keyLock[k]]

Goto(s, step) == pc' = [pc EXCEPT ![s] = step]

\* put_immutable; storing a document that is there already changes nothing.
Upload(s) ==
    /\ pc[s] = "upload"
    /\ objects' = objects \cup {Doc(s)}
    /\ Goto(s, "document")
    /\ UNCHANGED <<asked, answer, tables, locks, faults>>

\* INSERT INTO dsvire_document ... ON CONFLICT DO UPDATE waits for a transaction
\* that has touched the same row.
UpsertDocument(s) ==
    /\ pc[s] = "document"
    /\ documentLock[Doc(s)] = NoOne
    /\ documentLock' = [documentLock EXCEPT ![Doc(s)] = s]
    /\ Goto(s, "insert")
    /\ UNCHANGED <<asked, answer, objects, tables, keyLock, faults>>

\* Faulty: an uncommitted row with the same key is skipped, not waited for.
InsertWithoutWaiting(s) ==
    /\ pc[s] = "insert"
    /\ IF keyLock[key[s]] = NoOne /\ job[key[s]] = NoRequest
       THEN /\ keyLock' = [keyLock EXCEPT ![key[s]] = s]
            /\ Goto(s, "commit")
       ELSE /\ Goto(s, "select")
            /\ UNCHANGED keyLock
    /\ UNCHANGED <<asked, answer, objects, tables, documentLock, faults>>

\* INSERT INTO dsvire_job ... ON CONFLICT DO NOTHING waits for a transaction that
\* has inserted the key; a committed row sends it to the SELECT.
InsertJob(s) ==
    /\ pc[s] = "insert"
    /\ keyLock[key[s]] = NoOne
    /\ IF job[key[s]] = NoRequest
       THEN /\ keyLock' = [keyLock EXCEPT ![key[s]] = s]
            /\ Goto(s, "commit")
       ELSE /\ Goto(s, "select")
            /\ UNCHANGED keyLock
    /\ UNCHANGED <<asked, answer, objects, tables, documentLock, faults>>

\* The event and its outbox row commit with the job.
Commit(s) ==
    /\ pc[s] = "commit"
    /\ documents' = documents \cup {Doc(s)}
    /\ job' = [job EXCEPT ![key[s]] = request[s]]
    /\ queued' = [queued EXCEPT ![key[s]] = @ + 1]
    /\ answer' = [answer EXCEPT ![s] = "created"]
    /\ Release(s)
    /\ Goto(s, "answered")
    /\ UNCHANGED <<asked, objects, faults>>

\* Faulty: the key alone decides.
VerdictByKey(s) == IF job[key[s]] = NoRequest THEN "disappeared" ELSE "existing"

\* The row found under the key; only its absence or another request raise.
Verdict(s) ==
    IF job[key[s]] = NoRequest THEN "disappeared"
    ELSE IF job[key[s]] = request[s] THEN "existing"
    ELSE "conflict"

\* Faulty: a conflict leaves the transaction open.
SelectWithoutRollback(s) ==
    /\ pc[s] = "select"
    /\ answer' = [answer EXCEPT ![s] = Verdict(s)]
    /\ IF Verdict(s) = "existing" THEN Release(s) ELSE UNCHANGED locks
    /\ documents' = IF Verdict(s) = "existing" THEN documents \cup {Doc(s)} ELSE documents
    /\ Goto(s, "answered")
    /\ UNCHANGED <<asked, objects, job, queued, faults>>

\* SELECT, then commit, or roll back with JobConflict or RuntimeError.
Select(s) ==
    /\ pc[s] = "select"
    /\ answer' = [answer EXCEPT ![s] = Verdict(s)]
    /\ documents' = IF Verdict(s) = "existing" THEN documents \cup {Doc(s)} ELSE documents
    /\ Release(s)
    /\ Goto(s, "answered")
    /\ UNCHANGED <<asked, objects, job, queued, faults>>

\* The client has its answer.
Receive(s) ==
    /\ pc[s] = "answered"
    /\ Goto(s, "done")
    /\ UNCHANGED <<asked, answer, objects, tables, locks, faults>>

\* The API process or a connection dies before the client has its answer: an open
\* transaction rolls back, and the client starts again.
Fault(s) ==
    /\ pc[s] # "done"
    /\ faults < MaxFaults
    /\ faults' = faults + 1
    /\ Release(s)
    /\ answer' = [answer EXCEPT ![s] = "none"]
    /\ Goto(s, "upload")
    /\ UNCHANGED <<asked, objects, tables>>

-----------------------------------------------------------------------------

Init ==
    /\ key \in [Submissions -> Keys]
    /\ request \in [Submissions -> Requests]
    /\ pc = [s \in Submissions |-> "upload"]
    /\ answer = [s \in Submissions |-> "none"]
    /\ objects = {}
    /\ documents = {}
    /\ job = [k \in Keys |-> NoRequest]
    /\ queued = [k \in Keys |-> 0]
    /\ documentLock = [d \in Documents |-> NoOne]
    /\ keyLock = [k \in Keys |-> NoOne]
    /\ faults = 0

Advance(s) ==
    Upload(s) \/ UpsertDocument(s) \/ InsertJob(s) \/ Commit(s) \/ Select(s) \/ Receive(s)

\* All clients have their answers: the model's last state, not a deadlock.
Finished == (\A s \in Submissions : pc[s] = "done") /\ UNCHANGED vars

Next ==
    \/ \E s \in Submissions : Advance(s) \/ Fault(s)
    \/ Finished

Spec == Init /\ [][Next]_vars

\* Statements return, lock waits end with their holder, clients wait for answers.
FairSpec == Spec /\ \A s \in Submissions : WF_vars(Advance(s))

-----------------------------------------------------------------------------
(* Properties                                                              *)

Steps == {"upload", "document", "insert", "commit", "select", "answered", "done"}

\* Submissions, tables and locks keep their types.
TypeOK ==
    /\ key \in [Submissions -> Keys]
    /\ request \in [Submissions -> Requests]
    /\ pc \in [Submissions -> Steps]
    /\ answer \in [Submissions ->
                      {"none", "created", "existing", "conflict", "disappeared"}]
    /\ objects \in SUBSET Documents
    /\ documents \in SUBSET Documents
    /\ job \in [Keys -> Requests \cup {NoRequest}]
    /\ queued \in [Keys -> Nat]
    /\ documentLock \in [Documents -> Submissions \cup {NoOne}]
    /\ keyLock \in [Keys -> Submissions \cup {NoOne}]
    /\ faults \in Nat

\* A committed job's document has its row and is in the object store, whatever
\* crashed on the way (submit_job stores before it submits, platform_api.py 74-93).
JobsHaveDocuments ==
    \A k \in Keys : job[k] # NoRequest =>
        job[k].document \in documents \cap objects

\* submit() never raises "idempotent submission disappeared": a row that made its
\* INSERT do nothing is there for its SELECT (platform_db.py 187-196).
NothingDisappears == \A s \in Submissions : answer[s] # "disappeared"

\* One "queued" event and one outbox row for each job, and at most one submission
\* that was told it created the job (platform_db.py 183-186).
CreatedOnce ==
    /\ \A k \in Keys : queued[k] = IF job[k] = NoRequest THEN 0 ELSE 1
    /\ \A s, t \in Submissions :
           s # t /\ key[s] = key[t] => ~ (answer[s] = "created" /\ answer[t] = "created")

\* Whoever was told that the job exists sent the job's request, and whoever was
\* told of a conflict sent another one (platform_db.py 187-199).
AnswersFitTheJob ==
    \A s \in Submissions :
        /\ answer[s] \in {"created", "existing"} => job[key[s]] = request[s]
        /\ answer[s] = "conflict" => job[key[s]] \notin {NoRequest, request[s]}

\* What concurrent submissions under one key, faults between statements and
\* clients that submit again leave: jobs with documents, one creation each, and
\* answers that are about the job (platform_api.py 71-100, platform_db.py 143-199).
SubmissionsAreSound ==
    /\ JobsHaveDocuments
    /\ NothingDisappears
    /\ CreatedOnce
    /\ AnswersFitTheJob

Once == INSTANCE SubmitOnce WITH bound <- job

\* The endpoint binds each key atomically, once and for ever.
ImplementsSubmitOnce == Once!Spec

\* No submission waits for ever on the locks of others: the transactions take the
\* document's lock before the key's (platform_db.py 154-182).
EverySubmissionIsAnswered == \A s \in Submissions : <>(pc[s] = "done")

=============================================================================
