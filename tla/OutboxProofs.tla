---------------------------- MODULE OutboxProofs ----------------------------
(***************************************************************************)
(* Why no message is published without a cause, for any number of          *)
(* dispatchers, messages, failures and lapsed locks.                       *)
(*                                                                         *)
(* The argument is an account kept for each message: what was published,   *)
(* what the dispatchers that hold the message may yet publish, and one     *)
(* more if a further claim may take it.  The account starts at one, a      *)
(* claim, a publication and an acknowledgement never raise it, and a       *)
(* failed call, a dead process or a lapsed lock raises it by at most one.  *)
(***************************************************************************)
EXTENDS Outbox, FiniteSetTheorems, TLAPS

\* The dispatchers that have claimed m and not yet published it.
Senders(m) == {d \in Dispatchers : m \in dispatcher[d].batch \ dispatcher[d].current}

\* The row of m is locked by a dispatcher that is still at work on it.
InHand(m) ==
    /\ row[m].lock = "live"
    /\ \E d \in Dispatchers : row[m].owner = d /\ m \in dispatcher[d].batch

\* m may be claimed, now or when its lock expires.
Reclaims(m) == IF row[m].state # "published" /\ ~InHand(m) THEN 1 ELSE 0

Accounted(m) == sent[m] + Cardinality(Senders(m)) + Reclaims(m) <= 1 + faults + lapses

\* A batch and a message in hand exist while a dispatcher works on them.
DispatcherOK(d) ==
    /\ dispatcher[d].pc \in {"publish", "ack"} \/ dispatcher[d].batch = {}
    /\ dispatcher[d].pc = "ack" \/ dispatcher[d].current = {}
    /\ \A m \in dispatcher[d].current : /\ dispatcher[d].current = {m}
                                        /\ m \in dispatcher[d].batch
                                        /\ sent[m] > 0

RowOK(m) ==
    /\ row[m].state = "absent" => row[m].owner = NoOne
    /\ row[m].state = "published" => sent[m] > 0

IInv ==
    /\ TypeOK
    /\ \A d \in Dispatchers : DispatcherOK(d)
    /\ \A m \in Messages : RowOK(m) /\ Accounted(m)

----------------------------------------------------------------------------
(* Types. *)

States == {"absent", "pending", "published"}
Locks == {"none", "live", "expired"}
Rows == [state: States, lock: Locks, owner: Dispatchers \cup {NoOne}, attempts: Nat]
Tasks == [pc: {"claim", "publish", "ack", "pause", "off"},
          batch: SUBSET Messages, current: SUBSET Messages]

LEMMA InitTyped == Init => TypeOK
BY DEF Init, TypeOK, Absent, Idle

LEMMA StepTyped == TypeOK /\ [Next]_vars => TypeOK'
<1> SUFFICES ASSUME TypeOK, [Next]_vars PROVE TypeOK'
  OBVIOUS
<1>0. /\ row \in [Messages -> Rows] /\ dispatcher \in [Dispatchers -> Tasks]
      /\ stopping \in SUBSET Dispatchers /\ sent \in [Messages -> Nat]
      /\ faults \in Nat /\ stops \in Nat /\ lapses \in Nat
  BY DEF TypeOK, Rows, Tasks, States, Locks
<1>1. SUFFICES /\ row' \in [Messages -> Rows] /\ dispatcher' \in [Dispatchers -> Tasks]
               /\ stopping' \in SUBSET Dispatchers /\ sent' \in [Messages -> Nat]
               /\ faults' \in Nat /\ stops' \in Nat /\ lapses' \in Nat
  BY DEF TypeOK, Rows, Tasks, States, Locks
<1>2. Idle \in Tasks /\ Off \in Tasks /\ [Idle EXCEPT !.pc = "pause"] \in Tasks
  BY DEF Idle, Off, Tasks
<1>3. CASE UNCHANGED vars
  BY <1>0, <1>3 DEF vars
<1>4. ASSUME NEW m \in Messages, Write(m) \/ Expire(m)
      PROVE  /\ row' \in [Messages -> Rows] /\ lapses' \in Nat
             /\ UNCHANGED <<dispatcher, stopping, sent, faults, stops>>
  BY <1>0, <1>4 DEF Write, Expire, Rows, States, Locks
<1>5. ASSUME NEW d \in Dispatchers, Claim(d)
      PROVE  /\ row' \in [Messages -> Rows] /\ dispatcher' \in [Dispatchers -> Tasks]
             /\ UNCHANGED <<stopping, sent, faults, stops, lapses>>
  <2>1. PICK batch \in SUBSET Messages :
           /\ row' = [m \in Messages |-> IF m \in batch
                         THEN [row[m] EXCEPT !.lock = "live", !.owner = d, !.attempts = @ + 1]
                         ELSE row[m]]
           /\ dispatcher' = [dispatcher EXCEPT ![d] =
                 [pc |-> "publish", batch |-> batch, current |-> {}]]
    BY <1>5 DEF Claim
  <2>2. ASSUME NEW m \in Messages
        PROVE  [row[m] EXCEPT !.lock = "live", !.owner = d, !.attempts = @ + 1] \in Rows
    <3>1. row[m] \in Rows
      BY <1>0
    <3>2. row[m].attempts + 1 \in Nat
      BY <3>1 DEF Rows
    <3> QED BY <3>1, <3>2 DEF Rows, Locks
  <2>3. row' \in [Messages -> Rows]
    BY <1>0, <2>1, <2>2
  <2>4. dispatcher' \in [Dispatchers -> Tasks]
    BY <1>0, <2>1 DEF Tasks
  <2> QED BY <1>5, <2>3, <2>4 DEF Claim
<1>6. ASSUME NEW d \in Dispatchers, Publish(d)
      PROVE  /\ sent' \in [Messages -> Nat] /\ dispatcher' \in [Dispatchers -> Tasks]
             /\ UNCHANGED <<row, stopping, faults, stops, lapses>>
  <2>1. PICK m \in dispatcher[d].batch :
           /\ sent' = [sent EXCEPT ![m] = @ + 1]
           /\ dispatcher' = [dispatcher EXCEPT ![d].pc = "ack", ![d].current = {m}]
    BY <1>6 DEF Publish
  <2>2. m \in Messages
    BY <1>0 DEF Tasks
  <2>3. dispatcher' \in [Dispatchers -> Tasks]
    BY <1>0, <2>1, <2>2 DEF Tasks
  <2> QED BY <1>0, <1>6, <2>1, <2>2, <2>3 DEF Publish
<1>7. ASSUME NEW d \in Dispatchers, Acknowledge(d)
      PROVE  /\ row' \in [Messages -> Rows] /\ dispatcher' \in [Dispatchers -> Tasks]
             /\ UNCHANGED <<stopping, sent, faults, stops, lapses>>
  <2>1. PICK m \in dispatcher[d].current :
           /\ row' = IF row[m].owner = d /\ row[m].state = "pending"
                     THEN [row EXCEPT ![m].state = "published", ![m].lock = "none",
                                      ![m].owner = NoOne]
                     ELSE row
           /\ dispatcher' = [dispatcher EXCEPT ![d] =
                 [pc |-> IF dispatcher[d].batch \ {m} = {} THEN "claim" ELSE "publish",
                  batch |-> dispatcher[d].batch \ {m}, current |-> {}]]
    BY <1>7 DEF Acknowledge
  <2>2. m \in Messages /\ dispatcher[d].batch \ {m} \in SUBSET Messages
    BY <1>0 DEF Tasks
  <2>3. row' \in [Messages -> Rows]
    <3>1. ASSUME NEW t \in Rows
          PROVE  [t EXCEPT !.state = "published", !.lock = "none", !.owner = NoOne] \in Rows
      BY DEF Rows, States, Locks
    <3>2. row[m] \in Rows
      BY <1>0, <2>2
    <3>3. row' \in {row, [row EXCEPT ![m] = [row[m] EXCEPT !.state = "published",
                                                          !.lock = "none", !.owner = NoOne]]}
      BY <1>0, <2>1, <2>2
    <3> QED BY <1>0, <3>1, <3>2, <3>3
  <2>4. dispatcher' \in [Dispatchers -> Tasks]
    BY <1>0, <2>1, <2>2 DEF Tasks
  <2> QED BY <1>7, <2>3, <2>4 DEF Acknowledge
<1>8. ASSUME NEW d \in Dispatchers, Fail(d)
      PROVE  /\ sent' \in [Messages -> Nat] /\ dispatcher' \in [Dispatchers -> Tasks]
             /\ faults' \in Nat /\ UNCHANGED <<row, stopping, stops, lapses>>
  BY <1>0, <1>2, <1>8 DEF Fail, Tasks
<1>9. ASSUME NEW d \in Dispatchers, Resume(d) \/ Exit(d) \/ Kill(d) \/ Restart(d) \/ Stop(d)
      PROVE  /\ dispatcher' \in [Dispatchers -> Tasks] /\ stopping' \in SUBSET Dispatchers
             /\ faults' \in Nat /\ stops' \in Nat /\ UNCHANGED <<row, sent, lapses>>
  BY <1>0, <1>2, <1>9 DEF Resume, Exit, Kill, Restart, Stop
<1>10. CASE \E d \in Dispatchers : ClaimNothing(d)
  BY <1>0, <1>10 DEF ClaimNothing, vars
<1> QED BY <1>0, <1>1, <1>3, <1>4, <1>5, <1>6, <1>7, <1>8, <1>9, <1>10 DEF Next, Run

----------------------------------------------------------------------------
(* The account of a message. *)

LEMMA SendersAreFinite ==
    ASSUME NEW m
    PROVE  /\ IsFiniteSet(Senders(m)) /\ Cardinality(Senders(m)) \in Nat
           /\ IsFiniteSet(Senders(m)') /\ Cardinality(Senders(m)') \in Nat
BY ProcessesAreFinite, FS_Subset, FS_CardinalityType DEF Senders

\* A step that changes one dispatcher changes its part of the account only.
LEMMA OneSender ==
    ASSUME NEW m, NEW d \in Dispatchers,
           \A x \in Dispatchers \ {d} : x \in Senders(m)' <=> x \in Senders(m)
    PROVE  Cardinality(Senders(m)') = Cardinality(Senders(m))
              + (IF d \in Senders(m)' THEN 1 ELSE 0) - (IF d \in Senders(m) THEN 1 ELSE 0)
<1> DEFINE others == Senders(m) \ {d}
<1>1. Senders(m) \subseteq Dispatchers /\ Senders(m)' \subseteq Dispatchers
  BY DEF Senders
<1>2. Senders(m)' \ {d} = others
  BY <1>1
<1>3. /\ Cardinality(others) = IF d \in Senders(m) THEN Cardinality(Senders(m)) - 1
                                                   ELSE Cardinality(Senders(m))
      /\ Cardinality(Senders(m)' \ {d}) = IF d \in Senders(m)'
            THEN Cardinality(Senders(m)') - 1 ELSE Cardinality(Senders(m)')
  BY SendersAreFinite, FS_RemoveElement
<1> DEFINE a == Cardinality(Senders(m))
           b == Cardinality(Senders(m)')
<1>4. a \in Nat /\ b \in Nat
  BY SendersAreFinite
<1>5. (IF d \in Senders(m) THEN a - 1 ELSE a) = (IF d \in Senders(m)' THEN b - 1 ELSE b)
  BY <1>2, <1>3
<1> HIDE DEF a, b
<1>6. b = a + (IF d \in Senders(m)' THEN 1 ELSE 0) - (IF d \in Senders(m) THEN 1 ELSE 0)
  BY <1>4, <1>5
<1> QED BY <1>6 DEF a, b

\* If no dispatcher's claim on m changes, the account moves with the row and the
\* counters.
LEMMA SameSenders ==
    ASSUME NEW m, UNCHANGED dispatcher
    PROVE  Cardinality(Senders(m)') = Cardinality(Senders(m))
BY DEF Senders

LEMMA ReclaimsIsABit == \A m : Reclaims(m) \in {0, 1} /\ Reclaims(m)' \in {0, 1}
BY DEF Reclaims

LEMMA InitAccounts == Init => IInv
<1> SUFFICES ASSUME Init PROVE IInv
  OBVIOUS
<1>1. ASSUME NEW d \in Dispatchers PROVE DispatcherOK(d)
  BY DEF Init, DispatcherOK, Idle
<1>2. ASSUME NEW m \in Messages PROVE RowOK(m) /\ Accounted(m)
  <2>1. Senders(m) = {} /\ sent[m] = 0 /\ faults = 0 /\ lapses = 0
    BY DEF Init, Senders, Idle
  <2>2. Cardinality(Senders(m)) = 0
    BY <2>1, FS_EmptySet
  <2> QED BY <2>1, <2>2, ReclaimsIsABit DEF Init, RowOK, Accounted, Absent
<1> QED BY <1>1, <1>2, InitTyped DEF IInv

\* A row is written, or its lock expires: a lapse under a dispatcher at work may
\* cost one publication.
LEMMA RowSteps ==
    ASSUME IInv, NEW w \in Messages, Write(w) \/ Expire(w), NEW m \in Messages
    PROVE  RowOK(m)' /\ Accounted(m)'
<1>1. /\ UNCHANGED <<dispatcher, sent, faults>>
      /\ Cardinality(Senders(m)') = Cardinality(Senders(m))
  BY SameSenders DEF Write, Expire
<1>2. /\ sent[m] \in Nat /\ faults \in Nat /\ lapses \in Nat /\ lapses' \in Nat
      /\ row \in [Messages -> Rows]
  BY DEF IInv, TypeOK, Expire, Write, Rows, States, Locks
<1>3. RowOK(m) /\ Accounted(m)
  BY DEF IInv
<1>4. CASE Write(w)
  <2>1. row'[m].lock = row[m].lock /\ row'[m].owner = row[m].owner /\ UNCHANGED lapses
    BY <1>2, <1>4 DEF Write, Rows
  <2>2. row'[m].state = row[m].state \/ (row'[m].state = "pending" /\ row[m].state = "absent")
    BY <1>2, <1>4 DEF Write, Rows
  <2>3. Reclaims(m)' = Reclaims(m) /\ RowOK(m)'
    BY <1>1, <1>3, <2>1, <2>2 DEF Reclaims, InHand, RowOK
  <2> QED BY <1>1, <1>3, <2>1, <2>3 DEF Accounted
<1>5. CASE Expire(w)
  <2>1. /\ row'[m].state = row[m].state /\ row'[m].owner = row[m].owner
        /\ m # w => row'[m] = row[m]
    BY <1>2, <1>5 DEF Expire, Rows
  <2>2. RowOK(m)'
    BY <1>1, <1>3, <2>1 DEF RowOK
  <2>3. lapses' = lapses \/ lapses' = lapses + 1
    BY <1>5 DEF Expire
  <2>4. CASE Reclaims(m)' = Reclaims(m)
    BY <1>1, <1>2, <1>3, <2>2, <2>3, <2>4, SendersAreFinite, ReclaimsIsABit DEF Accounted
  <2>5. CASE Reclaims(m)' # Reclaims(m)
    <3>1. m = w
      BY <1>1, <2>1, <2>5 DEF Reclaims, InHand
    <3>2. row'[m].lock # "live"
      BY <1>2, <1>5, <3>1 DEF Expire, Rows
    <3>3. InHand(m)
      BY <2>1, <2>5, <3>2 DEF Reclaims, InHand
    <3>4. lapses' = lapses + 1
      BY <1>5, <3>1, <3>3 DEF Expire, Held, InHand
    <3>5. Reclaims(m)' <= Reclaims(m) + 1
      BY ReclaimsIsABit
    <3> QED BY <1>1, <1>2, <1>3, <2>2, <3>4, <3>5, SendersAreFinite, ReclaimsIsABit DEF Accounted
  <2> QED BY <2>2, <2>4, <2>5
<1> QED BY <1>4, <1>5

\* A claim turns what a further claim might publish into what its dispatcher may.
LEMMA ClaimStep ==
    ASSUME IInv, NEW d \in Dispatchers, Claim(d), NEW m \in Messages
    PROVE  DispatcherOK(d)' /\ RowOK(m)' /\ Accounted(m)'
<1>1. PICK batch \in SUBSET {x \in Messages : Claimable(x)} \ {{}} :
         /\ row' = [x \in Messages |-> IF x \in batch
                       THEN [row[x] EXCEPT !.lock = "live", !.owner = d, !.attempts = @ + 1]
                       ELSE row[x]]
         /\ dispatcher' = [dispatcher EXCEPT ![d] =
               [pc |-> "publish", batch |-> batch, current |-> {}]]
  BY DEF Claim
<1>2. /\ row \in [Messages -> Rows] /\ dispatcher \in [Dispatchers -> Tasks]
      /\ sent[m] \in Nat /\ faults \in Nat /\ lapses \in Nat
      /\ UNCHANGED <<sent, faults, lapses>>
  BY DEF IInv, TypeOK, Rows, Tasks, States, Locks, Claim
<1>3. RowOK(m) /\ Accounted(m) /\ dispatcher[d].batch = {} /\ dispatcher[d].current = {}
  BY DEF IInv, DispatcherOK, Claim
<1>4. /\ dispatcher'[d].pc = "publish" /\ dispatcher'[d].batch = batch
      /\ dispatcher'[d].current = {}
      /\ \A x \in Dispatchers \ {d} : dispatcher'[x] = dispatcher[x]
  BY <1>1, <1>2
<1>5. DispatcherOK(d)'
  BY <1>4 DEF DispatcherOK
<1>6. /\ d \notin Senders(m) /\ (d \in Senders(m)' <=> m \in batch)
      /\ \A x \in Dispatchers \ {d} : x \in Senders(m)' <=> x \in Senders(m)
  BY <1>3, <1>4 DEF Senders
<1>7. Cardinality(Senders(m)') = Cardinality(Senders(m)) + (IF m \in batch THEN 1 ELSE 0)
  BY <1>6, OneSender, SendersAreFinite
<1>8. CASE m \in batch
  <2>1. row[m].state = "pending" /\ row[m].lock # "live"
    BY <1>8 DEF Claimable
  <2>2. row'[m].state = "pending" /\ row'[m].lock = "live" /\ row'[m].owner = d
    BY <1>1, <1>2, <1>8, <2>1 DEF Rows
  <2>3. Reclaims(m) = 1 /\ Reclaims(m)' = 0
    BY <1>4, <1>8, <2>1, <2>2 DEF Reclaims, InHand
  <2> QED BY <1>2, <1>3, <1>5, <1>7, <1>8, <2>2, <2>3, SendersAreFinite DEF Accounted, RowOK
<1>9. CASE m \notin batch
  <2>1. row'[m] = row[m]
    BY <1>1, <1>9
  <2>2. InHand(m)' <=> InHand(m)
    BY <1>3, <1>4, <1>9, <2>1 DEF InHand
  <2>3. Reclaims(m)' = Reclaims(m)
    BY <2>1, <2>2 DEF Reclaims
  <2> QED BY <1>2, <1>3, <1>5, <1>7, <1>9, <2>1, <2>3, SendersAreFinite DEF Accounted, RowOK
<1> QED BY <1>8, <1>9

\* A publication moves one from what may be published to what was.
LEMMA PublishStep ==
    ASSUME IInv, NEW d \in Dispatchers, Publish(d), NEW m \in Messages
    PROVE  DispatcherOK(d)' /\ RowOK(m)' /\ Accounted(m)'
<1>1. PICK n \in dispatcher[d].batch :
         /\ sent' = [sent EXCEPT ![n] = @ + 1]
         /\ dispatcher' = [dispatcher EXCEPT ![d].pc = "ack", ![d].current = {n}]
  BY DEF Publish
<1>2. /\ dispatcher \in [Dispatchers -> Tasks] /\ sent \in [Messages -> Nat]
      /\ faults \in Nat /\ lapses \in Nat /\ UNCHANGED <<row, faults, lapses>>
  BY DEF IInv, TypeOK, Tasks, Publish
<1>3. RowOK(m) /\ Accounted(m) /\ dispatcher[d].current = {} /\ n \in Messages
  BY <1>2 DEF IInv, DispatcherOK, Publish, Tasks
<1>4. /\ dispatcher'[d].pc = "ack" /\ dispatcher'[d].batch = dispatcher[d].batch
      /\ dispatcher'[d].current = {n}
      /\ \A x \in Dispatchers \ {d} : dispatcher'[x] = dispatcher[x]
  BY <1>1, <1>2 DEF Tasks
<1>5. sent'[n] > 0 /\ sent'[m] = sent[m] + (IF m = n THEN 1 ELSE 0)
  BY <1>1, <1>2, <1>3
<1>6. DispatcherOK(d)'
  BY <1>4, <1>5 DEF DispatcherOK
<1>7. /\ d \in Senders(m) <=> m \in dispatcher[d].batch
      /\ d \in Senders(m)' <=> m \in dispatcher[d].batch /\ m # n
      /\ \A x \in Dispatchers \ {d} : x \in Senders(m)' <=> x \in Senders(m)
  BY <1>3, <1>4 DEF Senders
<1>8. Cardinality(Senders(m)') = Cardinality(Senders(m)) - (IF m = n THEN 1 ELSE 0)
  BY <1>7, OneSender, SendersAreFinite
<1>9. Reclaims(m)' = Reclaims(m)
  BY <1>2, <1>4 DEF Reclaims, InHand
<1>10. RowOK(m)'
  BY <1>2, <1>3, <1>5 DEF RowOK
<1>11. sent[m] \in Nat /\ sent'[m] \in Nat
  BY <1>2, <1>3, <1>5
<1> QED BY <1>2, <1>3, <1>5, <1>6, <1>8, <1>9, <1>10, <1>11, SendersAreFinite, ReclaimsIsABit
     DEF Accounted

\* An acknowledged message is not claimed again; one that its dispatcher no longer
\* owns is left as it is.
LEMMA AcknowledgeStep ==
    ASSUME IInv, NEW d \in Dispatchers, Acknowledge(d), NEW m \in Messages
    PROVE  DispatcherOK(d)' /\ RowOK(m)' /\ Accounted(m)'
<1>1. PICK n \in dispatcher[d].current :
         /\ row' = IF row[n].owner = d /\ row[n].state = "pending"
                   THEN [row EXCEPT ![n].state = "published", ![n].lock = "none",
                                    ![n].owner = NoOne]
                   ELSE row
         /\ dispatcher' = [dispatcher EXCEPT ![d] =
               [pc |-> IF dispatcher[d].batch \ {n} = {} THEN "claim" ELSE "publish",
                batch |-> dispatcher[d].batch \ {n}, current |-> {}]]
  BY DEF Acknowledge
<1>2. /\ row \in [Messages -> Rows] /\ dispatcher \in [Dispatchers -> Tasks]
      /\ sent[m] \in Nat /\ faults \in Nat /\ lapses \in Nat
      /\ UNCHANGED <<sent, faults, lapses>>
  BY DEF IInv, TypeOK, Rows, Tasks, States, Locks, Acknowledge
<1>3. /\ RowOK(m) /\ Accounted(m) /\ dispatcher[d].current = {n}
      /\ n \in dispatcher[d].batch /\ sent[n] > 0 /\ n \in Messages
  BY <1>2 DEF IInv, DispatcherOK, Tasks
<1>4. /\ dispatcher'[d].pc = IF dispatcher[d].batch \ {n} = {} THEN "claim" ELSE "publish"
      /\ dispatcher'[d].batch = dispatcher[d].batch \ {n}
      /\ dispatcher'[d].current = {}
      /\ \A x \in Dispatchers \ {d} : dispatcher'[x] = dispatcher[x]
  BY <1>1, <1>2
<1>5. DispatcherOK(d)'
  BY <1>4 DEF DispatcherOK
<1>6. \A x \in Dispatchers : x \in Senders(m)' <=> x \in Senders(m)
  BY <1>3, <1>4 DEF Senders
<1>7. Cardinality(Senders(m)') = Cardinality(Senders(m))
  <2>1. Senders(m)' = Senders(m)
    BY <1>6 DEF Senders
  <2> QED BY <2>1
<1>8. RowOK(m)' /\ Reclaims(m)' <= Reclaims(m)
  <2>1. CASE m = n /\ row[n].owner = d /\ row[n].state = "pending"
    <3>1. row'[m].state = "published"
      BY <1>1, <1>2, <2>1 DEF Rows
    <3> QED BY <1>2, <1>3, <2>1, <3>1, ReclaimsIsABit DEF RowOK, Reclaims
  <2>2. CASE m = n /\ ~(row[n].owner = d /\ row[n].state = "pending")
    <3>1. row' = row
      BY <1>1, <2>2
    <3>2. row[m].state # "published" => row[m].owner # d
      BY <1>2, <1>3, <2>2, NoOneIsFresh DEF RowOK, Rows, States
    <3>3. row[m].state # "published" => (InHand(m)' <=> InHand(m))
      BY <1>4, <3>1, <3>2 DEF InHand
    <3> QED BY <1>2, <1>3, <3>1, <3>3, ReclaimsIsABit DEF RowOK, Reclaims
  <2>3. CASE m # n
    <3>1. row'[m] = row[m]
      BY <1>1, <1>2, <2>3
    <3>2. InHand(m)' <=> InHand(m)
      BY <1>4, <2>3, <3>1 DEF InHand
    <3> QED BY <1>2, <1>3, <3>1, <3>2, ReclaimsIsABit DEF RowOK, Reclaims
  <2> QED BY <2>1, <2>2, <2>3
<1> QED BY <1>2, <1>3, <1>5, <1>7, <1>8, SendersAreFinite, ReclaimsIsABit DEF Accounted

\* A dispatcher that lets its batch go, by a failure or by death, leaves each of
\* its messages to one further publication; a failed call may have published one.
LEMMA LetGoStep ==
    ASSUME IInv, NEW d \in Dispatchers, Fail(d) \/ Kill(d), NEW m \in Messages
    PROVE  DispatcherOK(d)' /\ RowOK(m)' /\ Accounted(m)'
<1>1. /\ dispatcher \in [Dispatchers -> Tasks] /\ sent \in [Messages -> Nat]
      /\ faults \in Nat /\ lapses \in Nat
  BY DEF IInv, TypeOK, Tasks
<1>2. RowOK(m) /\ Accounted(m) /\ DispatcherOK(d)
  BY DEF IInv
<1>3. /\ dispatcher'[d] \in {Off, [Idle EXCEPT !.pc = "pause"]}
      /\ \A x \in Dispatchers \ {d} : dispatcher'[x] = dispatcher[x]
      /\ faults' = faults + 1 /\ UNCHANGED <<row, lapses>>
  BY <1>1 DEF Fail, Kill
<1>4. dispatcher'[d].batch = {} /\ dispatcher'[d].current = {}
  BY <1>3 DEF Off, Idle
<1>5. DispatcherOK(d)'
  BY <1>4 DEF DispatcherOK
<1>6. /\ d \notin Senders(m)'
      /\ \A x \in Dispatchers \ {d} : x \in Senders(m)' <=> x \in Senders(m)
  BY <1>3, <1>4 DEF Senders
<1>7. Cardinality(Senders(m)') = Cardinality(Senders(m)) - (IF d \in Senders(m) THEN 1 ELSE 0)
  BY <1>6, OneSender, SendersAreFinite
<1>8. sent'[m] = sent[m] \/ (sent'[m] = sent[m] + 1 /\ d \in Senders(m))
  <2>1. CASE UNCHANGED sent
    BY <2>1
  <2>2. CASE ~UNCHANGED sent
    <3>1. PICK n \in dispatcher[d].batch : sent' = [sent EXCEPT ![n] = @ + 1]
                                           /\ dispatcher[d].pc = "publish"
      BY <2>2 DEF Fail, Kill
    <3> QED BY <1>1, <1>2, <3>1 DEF DispatcherOK, Senders
  <2> QED BY <2>1, <2>2
<1>9. sent[m] \in Nat /\ sent'[m] \in Nat
  BY <1>1, <1>8
<1>10. RowOK(m)'
  BY <1>2, <1>3, <1>8, <1>9 DEF RowOK
<1>11. Reclaims(m)' <= Reclaims(m) + 1
  BY ReclaimsIsABit
<1> QED BY <1>1, <1>2, <1>3, <1>5, <1>7, <1>8, <1>9, <1>10, <1>11, SendersAreFinite,
           ReclaimsIsABit DEF Accounted

\* Pauses, stops and restarts hold no messages.
LEMMA QuietStep ==
    ASSUME IInv, NEW d \in Dispatchers,
           Resume(d) \/ Exit(d) \/ Stop(d) \/ Restart(d) \/ ClaimNothing(d), NEW m \in Messages
    PROVE  DispatcherOK(d)' /\ RowOK(m)' /\ Accounted(m)'
<1>1. dispatcher \in [Dispatchers -> Tasks] /\ DispatcherOK(d) /\ RowOK(m) /\ Accounted(m)
  BY DEF IInv, TypeOK, Tasks
<1>2. /\ \/ dispatcher'[d] = dispatcher[d]
         \/ /\ dispatcher'[d] \in {Idle, Off}
            /\ dispatcher[d].batch = {} /\ dispatcher[d].current = {}
      /\ \A x \in Dispatchers \ {d} : dispatcher'[x] = dispatcher[x]
      /\ UNCHANGED <<row, sent, faults, lapses>>
  BY <1>1 DEF Resume, Exit, Stop, Restart, ClaimNothing, vars, DispatcherOK
<1>3. /\ dispatcher'[d].batch = dispatcher[d].batch
      /\ dispatcher'[d].current = dispatcher[d].current
  <2>1. /\ Idle.batch = {} /\ Idle.current = {}
        /\ Off.batch = {} /\ Off.current = {}
    BY DEF Idle, Off
  <2> QED BY <1>2, <2>1
<1>4. DispatcherOK(d)'
  BY <1>1, <1>2, <1>3 DEF DispatcherOK
<1>5. \A x \in Dispatchers : /\ dispatcher'[x].batch = dispatcher[x].batch
                             /\ dispatcher'[x].current = dispatcher[x].current
  BY <1>2, <1>3
<1>6. Senders(m)' = Senders(m) /\ Reclaims(m)' = Reclaims(m)
  BY <1>2, <1>5 DEF Senders, Reclaims, InHand
<1> QED BY <1>1, <1>2, <1>4, <1>6 DEF RowOK, Accounted

LEMMA StepAccounts == IInv /\ [Next]_vars => IInv'
<1> SUFFICES ASSUME IInv, [Next]_vars PROVE IInv'
  OBVIOUS
<1>1. TypeOK'
  BY StepTyped DEF IInv
<1>2. CASE UNCHANGED vars
  <2>1. \A d \in Dispatchers : DispatcherOK(d)'
    BY <1>2 DEF vars, IInv, DispatcherOK
  <2>2. ASSUME NEW m \in Messages PROVE RowOK(m)' /\ Accounted(m)'
    <3>1. Senders(m)' = Senders(m) /\ Reclaims(m)' = Reclaims(m)
      BY <1>2 DEF vars, Senders, Reclaims, InHand
    <3> QED BY <1>2, <3>1 DEF vars, IInv, RowOK, Accounted
  <2> QED BY <1>1, <2>1, <2>2 DEF IInv
<1>3. CASE \E w \in Messages : Write(w) \/ Expire(w)
  <2>1. UNCHANGED <<dispatcher, sent>>
    BY <1>3 DEF Write, Expire
  <2>2. \A d \in Dispatchers : DispatcherOK(d)'
    BY <2>1 DEF IInv, DispatcherOK
  <2> QED BY <1>1, <1>3, <2>2, RowSteps DEF IInv
<1>4. ASSUME NEW d \in Dispatchers, Run(d) \/ Fail(d) \/ Stop(d) \/ Kill(d) \/ Restart(d)
      PROVE  IInv'
  <2>1. \A m \in Messages : DispatcherOK(d)' /\ RowOK(m)' /\ Accounted(m)'
    BY <1>4, ClaimStep, PublishStep, AcknowledgeStep, LetGoStep, QuietStep DEF Run
  <2>2. ASSUME NEW x \in Dispatchers \ {d} PROVE DispatcherOK(x)'
    <3>1. dispatcher'[x] = dispatcher[x]
      BY <1>4 DEF Run, Claim, ClaimNothing, Publish, Acknowledge, Resume, Exit, Fail, Stop,
         Kill, Restart, vars, IInv, TypeOK
    <3>2. \A m \in Messages : sent'[m] >= sent[m] /\ sent'[m] \in Nat /\ sent[m] \in Nat
      <4>1. TypeOK /\ (UNCHANGED sent \/ \E m \in Messages : sent' = [sent EXCEPT ![m] = @ + 1])
        BY <1>4 DEF Run, Claim, ClaimNothing, Publish, Acknowledge, Resume, Exit, Fail, Stop,
           Kill, Restart, vars, IInv, TypeOK
      <4> QED BY <4>1 DEF TypeOK
    <3>3. dispatcher[x].current \subseteq Messages /\ DispatcherOK(x)
      BY DEF IInv, TypeOK
    <3>4. \A m \in dispatcher[x].current : sent'[m] > 0
      <4>1. \A m \in dispatcher[x].current : sent[m] > 0 /\ m \in Messages
        BY <3>3 DEF DispatcherOK
      <4> QED BY <3>2, <4>1
    <3> QED BY <3>1, <3>3, <3>4 DEF DispatcherOK
  <2>3. DispatcherOK(d)'
    <3>1. CASE Messages # {}
      BY <2>1, <3>1
    <3>2. CASE Messages = {}
      <4>1. dispatcher'[d].batch = {} /\ dispatcher'[d].current = {}
        BY <1>1, <3>2 DEF TypeOK
      <4> QED BY <4>1 DEF DispatcherOK
    <3> QED BY <3>1, <3>2
  <2> QED BY <1>1, <2>1, <2>2, <2>3 DEF IInv
<1> QED BY <1>2, <1>3, <1>4 DEF Next

\* The account is kept in every state that the dispatchers reach.
THEOREM AccountIsKept == Spec => []IInv
BY InitAccounts, StepAccounts, PTL DEF Spec

\* The variables keep their types.
THEOREM TypeCorrect == Spec => []TypeOK
<1>1. IInv => TypeOK
  BY DEF IInv
<1> QED BY <1>1, AccountIsKept, PTL

\* An acknowledged message has been published, and each publication after the
\* first has a failed call, a dead process or a lapsed lock to its account.
THEOREM CausedPublications == Spec => []PublicationsHaveCauses
<1>1. IInv => PublicationsHaveCauses
  <2> SUFFICES ASSUME IInv, NEW m \in Messages
               PROVE  /\ row[m].state = "published" => sent[m] > 0
                      /\ sent[m] <= 1 + faults + lapses
    BY DEF PublicationsHaveCauses
  <2>1. sent[m] \in Nat /\ faults \in Nat /\ lapses \in Nat /\ RowOK(m) /\ Accounted(m)
    BY DEF IInv, TypeOK
  <2> QED BY <2>1, SendersAreFinite, ReclaimsIsABit DEF RowOK, Accounted
<1> QED BY <1>1, AccountIsKept, PTL

=============================================================================
