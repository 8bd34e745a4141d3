----------------------------- MODULE Admission -----------------------------
(***************************************************************************)
(* The three synchronous endpoints of api.py: a request takes a slot of    *)
(* its semaphore, reads its body, starts a child process (worker.py,       *)
(* query_worker.py), waits for it in a thread of the default executor, and *)
(* turns what the child left behind into an answer.                        *)
(*                                                                         *)
(* The handlers run on one event loop and are split at their awaits.  The  *)
(* children run beside them.  asyncio.Semaphore hands a released slot to   *)
(* the first waiter, which resumes later: between the two the admission    *)
(* deadline may still pass.                                                *)
(***************************************************************************)
EXTENDS Naturals, Sequences, FiniteSets, SequencesExt

CONSTANTS Evidence,     \* requests a client may send to /v1/evidence/symbol,
          Symbols,      \* to /v1/symbols
          Query,        \* and to /v1/query
          JobSlots,     \* max_concurrent_jobs
          QuerySlots,   \* max_concurrent_queries
          Threads       \* threads of the default executor

ASSUME RequestsAreFinite == IsFiniteSet(Evidence \cup Symbols \cup Query)

ASSUME LimitsAssumption ==
    /\ JobSlots \in Nat \ {0}
    /\ QuerySlots \in Nat \ {0}
    /\ Threads \in Nat \ {0}

VARIABLES free,      \* [pool -> slots nobody holds]
          waiters,   \* [pool -> requests inside acquire(), oldest first]
          task,      \* [request -> endpoint, pc and answer of its handler]
          child,     \* [request -> its process and the status in result.json]
          joiner,    \* [request -> the call of process.join in the executor]
          scratch    \* requests whose private directory exists

vars == <<free, waiters, task, child, joiner, scratch>>

Requests == Evidence \cup Symbols \cup Query
Endpoints == {"evidence", "symbols", "query"}
EndpointsOf(r) == {e \in Endpoints : \/ e = "evidence" /\ r \in Evidence
                                     \/ e = "symbols" /\ r \in Symbols
                                     \/ e = "query" /\ r \in Query}
Pools == {"jobs", "queries"}
Slots == [p \in Pools |-> IF p = "jobs" THEN JobSlots ELSE QuerySlots]
PoolOf(e) == IF e = "query" THEN "queries" ELSE "jobs"
Pool(r) == PoolOf(task[r].endpoint)

Holding == {"woken", "reading", "joining"}
Idle == [endpoint |-> "evidence", pc |-> "new", answer |-> "none"]
NoChild == [process |-> "none", status |-> "none"]

Statuses == {"ok", "ambiguous_identity", "retrieval_error", "rejected", "worker_error"}

\* "none" also stands for an end that says nothing of the document: 400, 401, 413,
\* 415, 500, or a handler that was cancelled.
Answers == {"none", "200", "409", "422", "502", "503", "504"}

Tasks == [endpoint : Endpoints, pc : {"new", "waiting", "done"} \cup Holding, answer : Answers]

TypeOK ==
    /\ free \in [Pools -> Nat]
    /\ waiters \in [Pools -> Seq(Requests)]
    /\ task \in [Requests -> Tasks]
    /\ child \in [Requests -> [process : {"none", "running", "exited", "failed"},
                               status : Statuses \cup {"none"}]]
    /\ joiner \in [Requests -> {"none", "queued", "blocked", "returned"}]
    /\ scratch \subseteq Requests

Init ==
    /\ free = Slots
    /\ waiters = [p \in Pools |-> <<>>]
    /\ task = [r \in Requests |-> Idle]
    /\ child = [r \in Requests |-> NoChild]
    /\ joiner = [r \in Requests |-> "none"]
    /\ scratch = {}

----------------------------------------------------------------------------
(* The semaphore. *)

\* Waiters are removed by identity and stand in the queue once.
Without(q, r) == RemoveAt(q, CHOOSE i \in DOMAIN q : q[i] = r)

Sleepers(q) == {r \in Range(q) : task[r].pc = "waiting"}

\* Up to n sleepers, the oldest first.
Eldest(q, n) ==
    {W \in SUBSET Sleepers(q) :
        /\ Cardinality(W) <= n
        /\ \A i, j \in DOMAIN q : i < j /\ q[j] \in W /\ q[i] \in Sleepers(q) => q[i] \in W}

\* r moves on, its pool is left with the queue q, and of its spare slots each
\* request of W is handed one.
Pass(r, pc, answer, q, spare, W) ==
    /\ free' = [free EXCEPT ![Pool(r)] = spare - Cardinality(W)]
    /\ waiters' = [waiters EXCEPT ![Pool(r)] = q]
    /\ LET handed == [x \in Requests |-> IF x \in W THEN [task[x] EXCEPT !.pc = "woken"]
                                                    ELSE task[x]]
       IN  task' = [handed EXCEPT ![r].pc = pc, ![r].answer = answer]

\* release(): the next sleeper is woken and the slot is its own from then on.
Release(r, answer) ==
    LET q == waiters[Pool(r)]
    IN  \E W \in Eldest(q, 1) :
          /\ W = {} => Sleepers(q) = {}
          /\ Pass(r, "done", answer, q, free[Pool(r)] + 1, W)

\* A woken waiter leaves acquire(), with its slot or, cancelled, without it, and
\* wakes others if a slot is spare: one in Python 3.11, as many as possible in 3.12.
Leave(r, pc, answer, spare) ==
    LET q == Without(waiters[Pool(r)], r)
    IN  \E W \in Eldest(q, spare) :
          /\ W = {} => spare = 0 \/ Sleepers(q) = {}
          /\ Pass(r, pc, answer, q, spare, W)

\* So does one cancelled in its sleep, in 3.12; in 3.11 it wakes nobody.
GiveUp(r, answer) ==
    LET q == Without(waiters[Pool(r)], r)
    IN  \E W \in Eldest(q, free[Pool(r)]) : Pass(r, "done", answer, q, free[Pool(r)], W)

\* A waiter cancelled after it was woken has a slot to give back.
GiveBack(r, answer) == Leave(r, "done", answer, free[Pool(r)] + 1)

----------------------------------------------------------------------------
(* What a child leaves and what the parent makes of it. *)

\* _worker_main, _symbol_worker_main and _query_worker_main write one of these.
PdfStatuses == {"ok", "retrieval_error", "worker_error"}
SymbolStatuses == PdfStatuses \cup {"ambiguous_identity"}
QueryStatuses == {"ok", "rejected", "worker_error"}

StatusesOf(e) == CASE e = "evidence" -> PdfStatuses
                   [] e = "symbols" -> SymbolStatuses
                   [] e = "query" -> QueryStatuses

\* Faulty: a status counts although its child was killed.
FaultyLeft(c) == c.status

\* The status the parent reads: exit code 0 and a result file, or a WorkerError.
Left(c) == IF c.process = "exited" /\ c.status # "none" THEN c.status ELSE "worker_error"

RunPdfJob(c) == IF Left(c) \in {"ok", "retrieval_error"} THEN Left(c) ELSE "worker_error"

RunSymbolJob(c) ==
    IF Left(c) \in {"ok", "ambiguous_identity", "retrieval_error"} THEN Left(c) ELSE "worker_error"

RunQueryJob(c) == IF Left(c) \in {"ok", "rejected"} THEN Left(c) ELSE "worker_error"

\* The HTTP status of the outcome of each endpoint's job.
SymbolEvidence(outcome) == CASE outcome = "ok" -> "200"
                             [] outcome = "retrieval_error" -> "422"
                             [] outcome = "worker_error" -> "502"

CompileUploadedSymbol(outcome) == CASE outcome = "ok" -> "200"
                                    [] outcome = "ambiguous_identity" -> "409"
                                    [] outcome = "retrieval_error" -> "422"
                                    [] outcome = "worker_error" -> "502"

QueryRegions(outcome) == CASE outcome = "ok" -> "200"
                           [] outcome = "rejected" -> "422"
                           [] outcome = "worker_error" -> "502"

Answer(r) == CASE task[r].endpoint = "evidence" -> SymbolEvidence(RunPdfJob(child[r]))
               [] task[r].endpoint = "symbols" -> CompileUploadedSymbol(RunSymbolJob(child[r]))
               [] task[r].endpoint = "query" -> QueryRegions(RunQueryJob(child[r]))

----------------------------------------------------------------------------
(* The handlers. *)

\* A wrong token or content type is answered before the semaphore is asked.
Refuse(r) ==
    /\ task[r].pc = "new"
    /\ task' = [task EXCEPT ![r].pc = "done"]
    /\ UNCHANGED <<free, waiters, child, joiner, scratch>>

\* acquire(): at once if a slot is free and nobody waits for it.
Acquire(r) ==
    /\ task[r].pc = "new"
    /\ \E e \in EndpointsOf(r) :
          LET p == PoolOf(e)
              open == free[p] > 0 /\ waiters[p] = <<>>
          IN  /\ task' = [task EXCEPT ![r] =
                             [endpoint |-> e, pc |-> IF open THEN "reading" ELSE "waiting",
                              answer |-> "none"]]
              /\ free' = [free EXCEPT ![p] = IF open THEN @ - 1 ELSE @]
              /\ waiters' = [waiters EXCEPT ![p] = IF open THEN @ ELSE Append(@, r)]
    /\ UNCHANGED <<child, joiner, scratch>>

Resume(r) ==
    /\ task[r].pc = "woken"
    /\ Leave(r, "reading", "none", free[Pool(r)])
    /\ UNCHANGED <<child, joiner, scratch>>

\* The admission deadline passes; a waiter that was woken gives its slot back.
AdmissionTimeout(r) ==
    /\ \/ task[r].pc = "waiting" /\ GiveUp(r, "503")
       \/ task[r].pc = "woken" /\ GiveBack(r, "503")
    /\ UNCHANGED <<child, joiner, scratch>>

\* The body is too large or its length a lie, the client goes away, or the
\* scratch directory or the process cannot be made.
BodyRefused(r) ==
    /\ task[r].pc = "reading"
    /\ Release(r, "none")
    /\ UNCHANGED <<child, joiner, scratch>>

\* The body is complete: scratch directory, upload, process.start(), and the
\* join is put into the executor's queue.
Spawn(r) ==
    /\ task[r].pc = "reading"
    /\ task' = [task EXCEPT ![r].pc = "joining"]
    /\ child' = [child EXCEPT ![r].process = "running"]
    /\ joiner' = [joiner EXCEPT ![r] = "queued"]
    /\ scratch' = scratch \cup {r}
    /\ UNCHANGED <<free, waiters>>

\* _terminate() returns when the process is dead, the finally clause removes
\* the directory, and a join that no thread has taken up is withdrawn.
CleanUp(r) ==
    /\ child' = [child EXCEPT ![r] = NoChild]
    /\ scratch' = scratch \ {r}
    /\ joiner' = [joiner EXCEPT ![r] = IF @ = "blocked" THEN @ ELSE "none"]

\* Faulty: no deadline for symbols.
FaultyJobTimeout(r) ==
    /\ task[r].pc = "joining"
    /\ task[r].endpoint # "symbols"
    /\ Release(r, "504")
    /\ CleanUp(r)

\* The deadline may pass although the child has ended: while the join waits for
\* a thread, or between the return of the join and the handler's next step.
JobTimeout(r) ==
    /\ task[r].pc = "joining"
    /\ Release(r, "504")
    /\ CleanUp(r)

Collect(r) ==
    /\ task[r].pc = "joining"
    /\ joiner[r] = "returned"
    /\ Release(r, Answer(r))
    /\ CleanUp(r)

\* Faulty: a waiter cancelled after its wake-up forgets that it has a slot.
FaultyCancel(r) ==
    \/ /\ task[r].pc \in {"waiting", "woken"}
       /\ GiveUp(r, "none")
       /\ UNCHANGED <<child, joiner, scratch>>
    \/ /\ task[r].pc = "reading"
       /\ Release(r, "none")
       /\ UNCHANGED <<child, joiner, scratch>>
    \/ /\ task[r].pc = "joining"
       /\ Release(r, "none")
       /\ CleanUp(r)

\* The handler is cancelled at the await it has reached.
Cancel(r) ==
    \/ /\ task[r].pc = "waiting"
       /\ GiveUp(r, "none")
       /\ UNCHANGED <<child, joiner, scratch>>
    \/ /\ task[r].pc = "woken"
       /\ GiveBack(r, "none")
       /\ UNCHANGED <<child, joiner, scratch>>
    \/ /\ task[r].pc = "reading"
       /\ Release(r, "none")
       /\ UNCHANGED <<child, joiner, scratch>>
    \/ /\ task[r].pc = "joining"
       /\ Release(r, "none")
       /\ CleanUp(r)

----------------------------------------------------------------------------
(* Threads and children. *)

JoinStarts(r) ==
    /\ joiner[r] = "queued"
    /\ Cardinality({x \in Requests : joiner[x] = "blocked"}) < Threads
    /\ joiner' = [joiner EXCEPT ![r] = "blocked"]
    /\ UNCHANGED <<free, waiters, task, child, scratch>>

\* process.join() returns; nobody hears of it if the handler has ended.
JoinReturns(r) ==
    /\ joiner[r] = "blocked"
    /\ child[r].process # "running"
    /\ joiner' = [joiner EXCEPT ![r] = IF task[r].pc = "joining" THEN "returned" ELSE "none"]
    /\ UNCHANGED <<free, waiters, task, child, scratch>>

\* result.json appears in one step: a temporary file and os.replace.
ChildWrites(r) ==
    /\ child[r] = [process |-> "running", status |-> "none"]
    /\ \E s \in StatusesOf(task[r].endpoint) : child' = [child EXCEPT ![r].status = s]
    /\ UNCHANGED <<free, waiters, task, joiner, scratch>>

ChildExits(r) ==
    /\ child[r].process = "running"
    /\ child[r].status # "none"
    /\ child' = [child EXCEPT ![r].process = "exited"]
    /\ UNCHANGED <<free, waiters, task, joiner, scratch>>

\* A resource limit or the kernel ends the child, before or after it wrote.
ChildDies(r) ==
    /\ child[r].process = "running"
    /\ child' = [child EXCEPT ![r].process = "failed"]
    /\ UNCHANGED <<free, waiters, task, joiner, scratch>>

----------------------------------------------------------------------------

Handler(r) == Refuse(r) \/ Acquire(r) \/ BodyRefused(r) \/ Spawn(r) \/ Cancel(r)
Loop(r) == Resume(r) \/ AdmissionTimeout(r) \/ JobTimeout(r) \/ Collect(r)
Thread(r) == JoinStarts(r) \/ JoinReturns(r)
Process(r) == ChildWrites(r) \/ ChildExits(r) \/ ChildDies(r)

Finished == \A r \in Requests : task[r].pc = "done" /\ joiner[r] = "none"

Next ==
    \/ \E r \in Requests : Handler(r) \/ Loop(r) \/ Thread(r) \/ Process(r)
    \/ Finished /\ UNCHANGED vars

Spec == Init /\ [][Next]_vars

\* The loop runs and its timers fire, the threads run.  Clients owe nothing, not
\* even the rest of a body; a child may hang.
FairSpec == Spec /\ \A r \in Requests : WF_vars(Loop(r)) /\ WF_vars(Thread(r))

----------------------------------------------------------------------------
(* Properties. *)

\* Every slot is free or held by one request, whichever way the requests before
\* it ended (refused, late, cancelled after the wake-up, answered: the finally
\* clauses of api.py); nobody sleeps in acquire() beside a free slot unless another
\* waiter has been woken, which will wake the sleeper when it leaves; an answered
\* request has left neither a child that would take the place of another
\* request's nor a scratch directory.
SlotsAreConserved ==
    /\ \A p \in Pools :
        /\ free[p] + Cardinality({r \in Requests : task[r].pc \in Holding /\ Pool(r) = p})
              = Slots[p]
        /\ free[p] > 0 /\ Sleepers(waiters[p]) # {} =>
              \E r \in Requests : task[r].pc = "woken" /\ Pool(r) = p
        /\ Cardinality({r \in Requests : child[r].process = "running" /\ Pool(r) = p}) <= Slots[p]
    /\ \A r \in Requests : task[r].pc = "done" => child[r].process # "running" /\ r \notin scratch

\* An answer about the document is the child's own: 200, 409 and 422 need a child
\* that ended normally with that status, never one that was killed while writing.
AnswersAreTheChilds ==
    [][\A r \in Requests :
          task[r].pc # "done" =>
            /\ task'[r].answer \in {"200", "409", "422"} => child[r].process = "exited"
            /\ task'[r].answer = "200" => child[r].status = "ok"
            /\ task'[r].answer = "409" => child[r].status = "ambiguous_identity"
            /\ task'[r].answer = "422" => child[r].status \in {"retrieval_error", "rejected"}]_vars

\* Whoever waits for a slot or for a child gets on: a hung child, a lost wake-up
\* or a busy executor costs at most the two deadlines.
WaitsEnd ==
    \A r \in Requests :
        (task[r].pc \in {"waiting", "woken", "joining"}) ~> (task[r].pc \in {"reading", "done"})
=============================================================================
