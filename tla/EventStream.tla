---------------------------- MODULE EventStream ----------------------------
(***************************************************************************)
(* The event stream of one job: the transactions that write its events     *)
(* (platform_db.py), the server-sent-events handler that replays them      *)
(* (job_events in platform_api.py) and a client that reconnects with the   *)
(* id of the last event it received.                                       *)
(*                                                                         *)
(* A writing transaction has three steps, because an event gets its id     *)
(* from the identity sequence when it is inserted and becomes visible when *)
(* the transaction commits: it locks the job's row, inserts the event, and *)
(* commits or rolls back.  The handler is split at its awaits.             *)
(***************************************************************************)
EXTENDS Integers, FiniteSets, JobMoves

CONSTANTS
    Writers,      \* connections that write events of the job
    NoWriter,     \* the row is not locked
    PageLimit,    \* the LIMIT of events(), 500 in the code
    MaxEvents,    \* bound: ids drawn from the identity sequence
    MaxDrops      \* bound: connections that break

ASSUME NoWriterIsFresh == NoWriter \notin Writers
ASSUME PagesHoldEvents == PageLimit \in Nat \ {0}
ASSUME EventBounds == MaxEvents \in Nat /\ MaxDrops \in Nat

VARIABLES
    state,      \* the committed state of the job
    events,     \* the ids of the committed events
    nextId,     \* the identity sequence of dsvire_job_event
    lock,       \* the writer that holds the row lock
    tx,         \* the open transaction of each writer
    stream,     \* the handler of the client's connection
    seen,       \* the ids of the events the client has received
    last,       \* the client's Last-Event-ID
    redis,      \* whether the Redis server answers
    drops       \* connections broken so far

writing == <<state, events, nextId, lock, tx>>
reading == <<stream, seen, last>>
vars == <<writing, reading, redis, drops>>

NoTx == [pc |-> "idle", to |-> "absent", id |-> 0]
Closed == [pc |-> "closed", cursor |-> 0, batch |-> {}]

-----------------------------------------------------------------------------
(* The writers                                                             *)

\* Faulty: the row is read without FOR UPDATE.
UnlockedRow(w) == TRUE

\* The first statement of every writing transaction updates the job's row or
\* selects it FOR UPDATE.  (A row that submit() inserts is invisible to the
\* others until it commits, which excludes them as a lock does.)
RowLocked(w) == lock = NoWriter

Lock(w) ==
    /\ tx[w].pc = "idle"
    /\ RowLocked(w)
    /\ \E move \in Moves :
           /\ move.from = state
           /\ tx' = [tx EXCEPT ![w] = [pc |-> "locked", to |-> move.to, id |-> 0]]
    /\ lock' = w
    /\ UNCHANGED <<state, events, nextId, reading, redis, drops>>

\* _event(): the INSERT draws an id.
InsertEvent(w) ==
    /\ tx[w].pc = "locked"
    /\ nextId <= MaxEvents
    /\ tx' = [tx EXCEPT ![w] = [pc |-> "logged", to |-> @.to, id |-> nextId]]
    /\ nextId' = nextId + 1
    /\ UNCHANGED <<state, events, lock, reading, redis, drops>>

Commit(w) ==
    /\ tx[w].pc = "logged"
    /\ state' = tx[w].to
    /\ events' = events \cup {tx[w].id}
    /\ tx' = [tx EXCEPT ![w] = NoTx]
    /\ lock' = NoWriter
    /\ UNCHANGED <<nextId, reading, redis, drops>>

\* The process dies or loses its connection; the id it drew is never used.
Rollback(w) ==
    /\ tx[w].pc # "idle"
    /\ tx' = [tx EXCEPT ![w] = NoTx]
    /\ lock' = NoWriter
    /\ UNCHANGED <<state, events, nextId, reading, redis, drops>>

-----------------------------------------------------------------------------
(* The handler                                                             *)

StartCursor == last

\* The client connects: get_job finds the job, the handler subscribes to the
\* Redis channel before it asks PostgreSQL for the first page.
Connect ==
    /\ stream.pc = "closed"
    /\ state # "absent"
    /\ redis
    /\ stream' = [pc |-> "query", cursor |-> StartCursor, batch |-> {}]
    /\ UNCHANGED <<writing, seen, last, redis, drops>>

After(cursor) == {e \in events : e > cursor}

\* ORDER BY event_id LIMIT: a page holds the oldest events after the cursor.
Pages(cursor) ==
    {p \in SUBSET After(cursor) :
        /\ Cardinality(p) <= PageLimit
        /\ \A e \in p, f \in After(cursor) \ p : e < f
        /\ p # After(cursor) => Cardinality(p) = PageLimit}

\* An empty page leads back to the wait for the next tick.
Query ==
    /\ stream.pc = "query"
    /\ \E page \in Pages(stream.cursor) :
           stream' = [stream EXCEPT !.pc = IF page = {} THEN "wait" ELSE "send",
                                    !.batch = page]
    /\ UNCHANGED <<writing, seen, last, redis, drops>>

\* The event reaches the client, whose Last-Event-ID moves with it.
Send ==
    /\ stream.pc = "send"
    /\ \E e \in stream.batch :
           /\ \A f \in stream.batch : e <= f
           /\ stream' = [pc |-> IF stream.batch = {e} THEN "check" ELSE "send",
                         cursor |-> e, batch |-> stream.batch \ {e}]
           /\ seen' = seen \cup {e}
           /\ last' = e
    /\ UNCHANGED <<writing, redis, drops>>

\* get_job after a page: the handler returns once the job has ended.
Check ==
    /\ stream.pc = "check"
    /\ stream' = IF state \in Ended THEN Closed ELSE [stream EXCEPT !.pc = "wait"]
    /\ UNCHANGED <<writing, seen, last, redis, drops>>

\* Faulty: after the first page the handler waits for a message for ever.
TickLost == FALSE

\* A message on the channel, or the five seconds without one, end the wait.
TickArrives == TRUE

Tick ==
    /\ stream.pc = "wait"
    /\ TickArrives
    /\ stream' = [stream EXCEPT !.pc = "query"]
    /\ UNCHANGED <<writing, seen, last, redis, drops>>

\* The connection breaks, or the API process dies: what was not yet sent of the
\* page is lost with the handler.
Drop ==
    /\ stream.pc # "closed"
    /\ drops < MaxDrops
    /\ drops' = drops + 1
    /\ stream' = Closed
    /\ UNCHANGED <<writing, seen, last, redis>>

\* The subscription of an open stream breaks with the server.
RedisFails ==
    /\ redis
    /\ drops < MaxDrops
    /\ drops' = drops + 1
    /\ redis' = FALSE
    /\ stream' = Closed
    /\ UNCHANGED <<writing, seen, last>>

RedisRecovers ==
    /\ ~redis
    /\ redis' = TRUE
    /\ UNCHANGED <<writing, reading, drops>>

-----------------------------------------------------------------------------

Init ==
    /\ state = "absent"
    /\ events = {}
    /\ nextId = 1
    /\ lock = NoWriter
    /\ tx = [w \in Writers |-> NoTx]
    /\ stream = Closed
    /\ seen = {}
    /\ last = 0
    /\ redis = TRUE
    /\ drops = 0

Write == \E w \in Writers : Lock(w) \/ InsertEvent(w) \/ Commit(w) \/ Rollback(w)
Serve == Query \/ Send \/ Check \/ Tick

Next ==
    \/ Write
    \/ Connect
    \/ Serve
    \/ Drop
    \/ RedisFails
    \/ RedisRecovers

Spec == Init /\ [][Next]_vars

\* The event loop runs the handler; a client keeps reconnecting, as an
\* EventSource does.  Writers owe the reader nothing.
StreamSpec == Spec /\ WF_vars(Serve) /\ WF_vars(Connect)

\* The same with a Redis server that comes back.
FairSpec == StreamSpec /\ WF_vars(RedisRecovers)

-----------------------------------------------------------------------------
(* Properties                                                              *)

TxTypes == [pc: {"idle", "locked", "logged"},
            to: {"absent", "queued", "running"} \cup Ended, id: Nat]

\* Rows, transactions and the handler keep their types.
TypeOK ==
    /\ state \in {"absent", "queued", "running"} \cup Ended
    /\ events \in SUBSET (Nat \ {0})
    /\ nextId \in Nat \ {0}
    /\ lock \in Writers \cup {NoWriter}
    /\ tx \in [Writers -> TxTypes]
    /\ stream \in [pc: {"closed", "wait", "query", "send", "check"},
                   cursor: Nat, batch: SUBSET (Nat \ {0})]
    /\ seen \in SUBSET (Nat \ {0})
    /\ last \in Nat
    /\ redis \in BOOLEAN
    /\ drops \in Nat

\* Whatever breaks and however often it reconnects, the client has received
\* exactly the committed events up to its Last-Event-ID: a cursor never passes an
\* event that commits later (row lock before event id, platform_db.py 246-312,
\* and the ordered page of events(), 349-364).
DeliveredIsReplay == seen = {e \in events : e <= last}

\* The client never gets an event twice, nor an event older than one it has
\* (cursor of the handler and Last-Event-ID, platform_api.py 202-218).
ArrivalInOrder == [][last' # last => last' > last /\ last' \notin seen]_vars

\* Every committed event reaches the client, although hints may be lost, pages are
\* limited and the handler returns as soon as it reads that the job has ended,
\* with events it has not queried (platform_api.py 209-225).
EveryEventArrives ==
    \A e \in 1..MaxEvents : e \in events ~> e \in seen

=============================================================================
