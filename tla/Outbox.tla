------------------------------- MODULE Outbox -------------------------------
(***************************************************************************)
(* The transactional outbox: rows that event-writing transactions add to   *)
(* dsvire_outbox (platform_db.py), and one dispatcher task per API process *)
(* that claims them, publishes them on Redis and acknowledges them         *)
(* (dispatch_outbox in accelerators.py; started and stopped by the         *)
(* lifespan of api.py).  One action is one awaited call of the dispatcher. *)
(***************************************************************************)
EXTENDS Integers, FiniteSets

CONSTANTS
    Dispatchers,   \* API processes; a process keeps its dispatcher's name
    NoOne,         \* the NULL of lock_owner
    Messages,      \* outbox ids
    BatchLimit,    \* the LIMIT of claim_outbox, 100 in the code
    MaxFaults,     \* bound: failed calls and dead processes
    MaxStops,      \* bound: processes that are shut down
    MaxLapses      \* bound: locks that expire under a working dispatcher

ASSUME NoOneIsFresh == NoOne \notin Dispatchers
ASSUME ProcessesAreFinite == IsFiniteSet(Dispatchers)
ASSUME IdsAreNumbers == Messages \subseteq Nat /\ IsFiniteSet(Messages)
ASSUME OutboxBounds ==
    /\ BatchLimit \in Nat \ {0}
    /\ \A bound \in {MaxFaults, MaxStops, MaxLapses} : bound \in Nat

VARIABLES
    row,          \* the outbox table
    dispatcher,   \* each process: where its dispatcher stands, what it claimed
    stopping,     \* the processes whose stop event is set
    sent,         \* how often each message was published
    faults, stops, lapses

vars == <<row, dispatcher, stopping, sent, faults, stops, lapses>>

Absent == [state |-> "absent", lock |-> "none", owner |-> NoOne, attempts |-> 0]
Idle == [pc |-> "claim", batch |-> {}, current |-> {}]
Off == [Idle EXCEPT !.pc = "off"]

-----------------------------------------------------------------------------
(* The table                                                               *)

\* The last statement of _event(), in the transaction of the event.
Write(m) ==
    /\ row[m].state = "absent"
    /\ row' = [row EXCEPT ![m].state = "pending"]
    /\ UNCHANGED <<dispatcher, stopping, sent, faults, stops, lapses>>

\* Faulty: locks are ignored; expired locks are respected.
AnyPending(m) == row[m].state = "pending"
NeverLocked(m) == row[m].state = "pending" /\ row[m].lock = "none"

Claimable(m) == row[m].state = "pending" /\ row[m].lock # "live"

\* ORDER BY outbox_id LIMIT
IsClaim(batch) ==
    /\ Cardinality(batch) <= BatchLimit
    /\ \A m \in Messages \ batch : Claimable(m) =>
           /\ Cardinality(batch) = BatchLimit
           /\ \A n \in batch : n < m

Held(m) == \E d \in Dispatchers : m \in dispatcher[d].batch

\* The clock passes lock_expires_at: for a claim its dispatcher has given up, or
\* under one that is slow.
Expire(m) ==
    /\ row[m].lock = "live"
    /\ Held(m) => lapses < MaxLapses
    /\ lapses' = IF Held(m) THEN lapses + 1 ELSE lapses
    /\ row' = [row EXCEPT ![m].lock = "expired"]
    /\ UNCHANGED <<dispatcher, stopping, sent, faults, stops>>

-----------------------------------------------------------------------------
(* The dispatcher                                                          *)

\* Nothing to claim: the dispatcher waits a second, or for its stop event.
ClaimNothing(d) ==
    /\ dispatcher[d].pc = "claim"
    /\ d \notin stopping
    /\ \A m \in Messages : ~Claimable(m)
    /\ UNCHANGED vars

\* The loop condition is read before a claim only.
Claim(d) ==
    /\ dispatcher[d].pc = "claim"
    /\ d \notin stopping
    /\ \E batch \in SUBSET {m \in Messages : Claimable(m)} \ {{}} :
           /\ IsClaim(batch)
           /\ row' = [m \in Messages |-> IF m \in batch
                         THEN [row[m] EXCEPT !.lock = "live", !.owner = d, !.attempts = @ + 1]
                         ELSE row[m]]
           /\ dispatcher' = [dispatcher EXCEPT ![d] =
                 [pc |-> "publish", batch |-> batch, current |-> {}]]
    /\ UNCHANGED <<stopping, sent, faults, stops, lapses>>

\* The rows of a claim come back in no particular order.
Publish(d) ==
    /\ dispatcher[d].pc = "publish"
    /\ \E m \in dispatcher[d].batch :
           /\ sent' = [sent EXCEPT ![m] = @ + 1]
           /\ dispatcher' = [dispatcher EXCEPT ![d].pc = "ack", ![d].current = {m}]
    /\ UNCHANGED <<row, stopping, faults, stops, lapses>>

\* Only the owner of an unpublished row updates it; the dispatcher goes on either way.
Acknowledge(d) ==
    /\ dispatcher[d].pc = "ack"
    /\ \E m \in dispatcher[d].current :
           LET rest == dispatcher[d].batch \ {m} IN
           /\ row' = IF row[m].owner = d /\ row[m].state = "pending"
                     THEN [row EXCEPT ![m].state = "published", ![m].lock = "none",
                                      ![m].owner = NoOne]
                     ELSE row
           /\ dispatcher' = [dispatcher EXCEPT ![d] =
                 [pc |-> IF rest = {} THEN "claim" ELSE "publish",
                  batch |-> rest, current |-> {}]]
    /\ UNCHANGED <<stopping, sent, faults, stops, lapses>>

\* A call raises, a publish perhaps after Redis has taken the message: the rest
\* of the batch is forgotten and stays locked.
Fail(d) ==
    /\ dispatcher[d].pc \in {"claim", "publish", "ack"}
    /\ faults < MaxFaults
    /\ faults' = faults + 1
    /\ \/ UNCHANGED sent
       \/ /\ dispatcher[d].pc = "publish"
          /\ \E m \in dispatcher[d].batch : sent' = [sent EXCEPT ![m] = @ + 1]
    /\ dispatcher' = [dispatcher EXCEPT ![d] = [Idle EXCEPT !.pc = "pause"]]
    /\ UNCHANGED <<row, stopping, stops, lapses>>

\* Two seconds, or the stop event, end the pause.
Resume(d) ==
    /\ dispatcher[d].pc = "pause"
    /\ dispatcher' = [dispatcher EXCEPT ![d] = Idle]
    /\ UNCHANGED <<row, stopping, sent, faults, stops, lapses>>

\* The lifespan sets the stop event and awaits the task.
Stop(d) ==
    /\ dispatcher[d].pc # "off"
    /\ d \notin stopping
    /\ stops < MaxStops
    /\ stops' = stops + 1
    /\ stopping' = stopping \cup {d}
    /\ UNCHANGED <<row, dispatcher, sent, faults, lapses>>

Exit(d) ==
    /\ dispatcher[d].pc = "claim"
    /\ d \in stopping
    /\ dispatcher' = [dispatcher EXCEPT ![d] = Off]
    /\ UNCHANGED <<row, stopping, sent, faults, stops, lapses>>

\* The process dies where it stands.
Kill(d) ==
    /\ dispatcher[d].pc # "off"
    /\ faults < MaxFaults
    /\ faults' = faults + 1
    /\ dispatcher' = [dispatcher EXCEPT ![d] = Off]
    /\ UNCHANGED <<row, stopping, sent, stops, lapses>>

Restart(d) ==
    /\ dispatcher[d].pc = "off"
    /\ dispatcher' = [dispatcher EXCEPT ![d] = Idle]
    /\ stopping' = stopping \ {d}
    /\ UNCHANGED <<row, sent, faults, stops, lapses>>

-----------------------------------------------------------------------------

Init ==
    /\ row = [m \in Messages |-> Absent]
    /\ dispatcher = [d \in Dispatchers |-> Idle]
    /\ stopping = {}
    /\ sent = [m \in Messages |-> 0]
    /\ faults = 0
    /\ stops = 0
    /\ lapses = 0

Run(d) ==
    Claim(d) \/ ClaimNothing(d) \/ Publish(d) \/ Acknowledge(d) \/ Resume(d) \/ Exit(d)

Next ==
    \/ \E m \in Messages : Write(m) \/ Expire(m)
    \/ \E d \in Dispatchers : Run(d) \/ Fail(d) \/ Stop(d) \/ Kill(d) \/ Restart(d)

Spec == Init /\ [][Next]_vars

\* The event loop runs each dispatcher, and abandoned locks expire.
TaskSpec ==
    /\ Spec
    /\ \A d \in Dispatchers : WF_vars(Run(d))
    /\ \A m \in Messages : WF_vars(Expire(m) /\ ~Held(m))

\* The same where the server's parent process replaces processes that ended.
FairSpec == TaskSpec /\ \A d \in Dispatchers : WF_vars(Restart(d))

-----------------------------------------------------------------------------
(* Properties                                                              *)

\* Rows, dispatchers and counters keep their types.
TypeOK ==
    /\ row \in [Messages -> [state: {"absent", "pending", "published"},
                             lock: {"none", "live", "expired"},
                             owner: Dispatchers \cup {NoOne}, attempts: Nat]]
    /\ dispatcher \in [Dispatchers -> [pc: {"claim", "publish", "ack", "pause", "off"},
                                       batch: SUBSET Messages,
                                       current: SUBSET Messages]]
    /\ stopping \in SUBSET Dispatchers
    /\ sent \in [Messages -> Nat]
    /\ faults \in Nat /\ stops \in Nat
    /\ lapses \in Nat

\* "At-least-once Redis delivery" (accelerators.py 66-89), and no more than that:
\* an acknowledged message has been published, whoever failed or died on the way,
\* and without a failed call, a dead process or a lock that expired under its
\* owner none is published twice, although several dispatchers poll the same
\* table (claim_outbox, platform_db.py 366-388).
PublicationsHaveCauses ==
    \A m \in Messages :
        /\ row[m].state = "published" => sent[m] > 0
        /\ sent[m] <= 1 + faults + lapses

\* Every message is published in the end, no failure leaving a row locked for ever
\* (platform_db.py 373, accelerators.py 83-86), and a stopping dispatcher ends, in
\* the middle of a batch or of a pause too, so the lifespan's await returns
\* (api.py 339-342).
DispatchersDeliverAndStop ==
    /\ \A m \in Messages : row[m].state = "pending" ~> row[m].state = "published"
    /\ \A d \in Dispatchers : d \in stopping ~> dispatcher[d].pc = "off"

=============================================================================
