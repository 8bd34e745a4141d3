------------------------- MODULE EventStreamProofs -------------------------
(***************************************************************************)
(* Proofs about EventStream, for any number of writers, any page size and  *)
(* any number of broken connections.  The cursor is safe because the row   *)
(* lock is taken before an id is drawn: at most one id is drawn and not    *)
(* committed (LockIsHeld), and it exceeds every committed id (IdsAscend).  *)
(***************************************************************************)
EXTENDS EventStream, TLAPS

-----------------------------------------------------------------------------
(* The inductive invariant                                                 *)

\* A writer inside a transaction holds the row lock, so there is only one.
LockIsHeld == \A w \in Writers : tx[w].pc # "idle" => lock = w

\* Committed ids were drawn before the next one, an uncommitted id after all
\* of them.
IdsAscend ==
    /\ \A e \in events : e < nextId
    /\ \A w \in Writers : tx[w].pc = "logged" =>
           /\ tx[w].id \in 1..(nextId - 1)
           /\ \A e \in events : e < tx[w].id

\* The handler works at the client's position; its page is the oldest part of
\* what the client lacks.
HandlerAtClient ==
    /\ last = 0 \/ last \in events
    /\ stream.pc # "closed" => stream.cursor = last
    /\ \A e \in stream.batch :
           /\ e \in events /\ e > last
           /\ \A f \in events \ stream.batch : f > last => e < f

IInv == TypeOK /\ LockIsHeld /\ IdsAscend /\ HandlerAtClient /\ DeliveredIsReplay

-----------------------------------------------------------------------------

LEMMA MovesEndInStates ==
    \A move \in Moves : move.to \in {"absent", "queued", "running"} \cup Ended
<1> SUFFICES ASSUME NEW move \in Moves
             PROVE  move.to \in {"absent", "queued", "running"} \cup Ended
  OBVIOUS
<1>1. CASE move \in Endings
  <2>1. PICK e \in Ended : move \in [from: {"running"}, kind: {e}, to: {e}]
    BY <1>1 DEF Endings
  <2> QED
    BY <2>1
<1>2. CASE move \notin Endings
  <2>1. \/ move \in [from: {"absent"}, kind: {"queued"}, to: {"queued"}]
        \/ move \in [from: {"queued", "running"}, kind: {"leased"}, to: {"running"}]
        \/ move \in [from: {"running"}, kind: {"progress"}, to: {"running"}]
        \/ move \in [from: {"running"}, kind: {"retrying"}, to: {"queued"}]
        \/ move \in [from: {"queued"}, kind: {"cancel_requested"}, to: {"cancelled"}]
        \/ move \in [from: {"running"}, kind: {"cancel_requested"}, to: {"running"}]
    BY <1>2 DEF Moves
  <2>2. move.to \in {"queued", "running", "cancelled"}
    BY <2>1
  <2> QED
    BY <2>2 DEF Ended
<1> QED
  BY <1>1, <1>2

LEMMA InitIInv == Init => IInv
BY NoWriterIsFresh DEF Init, IInv, TypeOK, LockIsHeld, IdsAscend, HandlerAtClient,
      DeliveredIsReplay, NoTx, Closed, TxTypes

\* A transaction that has not committed changes nothing a reader sees.
LEMMA OpenTransactions ==
    ASSUME IInv, NEW w \in Writers, Lock(w) \/ InsertEvent(w) \/ Rollback(w)
    PROVE  IInv'
<1> USE DEF IInv, DeliveredIsReplay
<1>0. NoWriter \notin Writers
  BY NoWriterIsFresh
<1>1. CASE Lock(w)
  <2>1. PICK move \in Moves : tx' = [tx EXCEPT ![w] =
                                [pc |-> "locked", to |-> move.to, id |-> 0]]
    BY <1>1 DEF Lock
  <2>2. TypeOK'
    <3>1. move.to \in {"absent", "queued", "running"} \cup Ended
      BY MovesEndInStates
    <3>2. [pc |-> "locked", to |-> move.to, id |-> 0] \in TxTypes
      BY <3>1 DEF TxTypes
    <3> HIDE DEF DeliveredIsReplay
    <3>3. tx' \in [Writers -> TxTypes]
      BY <2>1, <3>2 DEF TypeOK
    <3> QED
      BY <1>1, <3>3 DEF Lock, TypeOK, reading
  <2>3. LockIsHeld'
    BY <1>0, <1>1, <2>1 DEF Lock, RowLocked, LockIsHeld, TypeOK
  <2>4. IdsAscend'
    BY <1>1, <2>1 DEF Lock, IdsAscend, TypeOK
  <2>5. HandlerAtClient' /\ DeliveredIsReplay'
    BY <1>1 DEF Lock, HandlerAtClient, reading
  <2> QED
    BY <2>2, <2>3, <2>4, <2>5
<1>2. CASE InsertEvent(w)
  <2>1. TypeOK'
    <3>1. tx[w].to \in {"absent", "queued", "running"} \cup Ended
      BY DEF TypeOK, TxTypes
    <3>2. [pc |-> "logged", to |-> tx[w].to, id |-> nextId] \in TxTypes
      BY <3>1 DEF TypeOK, TxTypes
    <3>3. tx' = [tx EXCEPT ![w] = [pc |-> "logged", to |-> tx[w].to, id |-> nextId]]
      BY <1>2 DEF InsertEvent
    <3>4. tx' \in [Writers -> TxTypes]
      BY <3>2, <3>3 DEF TypeOK
    <3>5. nextId' \in Nat \ {0}
      BY <1>2 DEF InsertEvent, TypeOK
    <3> HIDE DEF DeliveredIsReplay
    <3> QED
      BY <1>2, <3>4, <3>5 DEF InsertEvent, TypeOK, reading
  <2>2. LockIsHeld'
    BY <1>2 DEF InsertEvent, LockIsHeld, TypeOK
  <2>3. \A v \in Writers : tx[v].pc = "logged" => v # w /\ tx'[v] = tx[v]
    BY <1>2 DEF InsertEvent, TypeOK
  <2>4. IdsAscend'
    <3>1. \A e \in events' : e < nextId'
      BY <1>2 DEF InsertEvent, IdsAscend, TypeOK
    <3>2. ASSUME NEW v \in Writers, tx'[v].pc = "logged"
          PROVE  tx'[v].id \in 1..(nextId' - 1) /\ \A e \in events' : e < tx'[v].id
      <4>1. CASE v = w
        BY <1>2, <4>1 DEF InsertEvent, IdsAscend, TypeOK
      <4>2. CASE v # w
        BY <1>2, <3>2, <4>2 DEF InsertEvent, IdsAscend, TypeOK
      <4> QED
        BY <4>1, <4>2
    <3> QED
      BY <3>1, <3>2 DEF IdsAscend
  <2>5. HandlerAtClient' /\ DeliveredIsReplay'
    BY <1>2 DEF InsertEvent, HandlerAtClient, reading
  <2> QED
    BY <2>1, <2>2, <2>4, <2>5
<1>3. CASE Rollback(w)
  <2>1. TypeOK'
    BY <1>3 DEF Rollback, TypeOK, TxTypes, NoTx, reading
  <2>2. LockIsHeld'
    BY <1>3 DEF Rollback, LockIsHeld, TypeOK, NoTx
  <2>3. IdsAscend'
    BY <1>3 DEF Rollback, IdsAscend, TypeOK, NoTx
  <2>4. HandlerAtClient' /\ DeliveredIsReplay'
    BY <1>3 DEF Rollback, HandlerAtClient, reading
  <2> QED
    BY <2>1, <2>2, <2>3, <2>4
<1> QED
  BY <1>1, <1>2, <1>3

\* A commit adds the greatest id: behind every cursor and every open page.
LEMMA CommitStep ==
    ASSUME IInv, NEW w \in Writers, Commit(w)
    PROVE  IInv'
<1> USE DEF IInv
<1>1. /\ tx[w].pc = "logged" /\ events' = events \cup {tx[w].id}
      /\ state' = tx[w].to
      /\ tx' = [tx EXCEPT ![w] = NoTx] /\ lock' = NoWriter
      /\ UNCHANGED <<nextId, stream, seen, last, redis, drops>>
  BY DEF Commit, reading
<1>2. /\ tx[w].id \in Nat \ {0} /\ tx[w].id < nextId
      /\ \A e \in events : e < tx[w].id
  BY <1>1 DEF IdsAscend, TypeOK
<1>3. last < tx[w].id
  BY <1>2 DEF HandlerAtClient, TypeOK
<1>4. \A v \in Writers : tx[v].pc # "idle" => v = w
  BY <1>1 DEF LockIsHeld
<1>5. \A v \in Writers : tx'[v].pc = "idle"
  BY <1>1, <1>4 DEF NoTx, TypeOK
<1>6. TypeOK'
  BY <1>1, <1>2 DEF TypeOK, TxTypes, NoTx
<1>7. LockIsHeld'
  BY <1>5 DEF LockIsHeld
<1>8. IdsAscend'
  BY <1>1, <1>2, <1>5 DEF IdsAscend, TypeOK
<1>9. HandlerAtClient'
  BY <1>1, <1>2, <1>3 DEF HandlerAtClient, TypeOK
<1>10. DeliveredIsReplay'
  BY <1>1, <1>2, <1>3 DEF DeliveredIsReplay, TypeOK
<1> QED
  BY <1>6, <1>7, <1>8, <1>9, <1>10

LEMMA ReaderStep ==
    ASSUME IInv, Connect \/ Query \/ Check \/ Tick \/ Drop \/ RedisFails \/ RedisRecovers
    PROVE  IInv'
<1> USE DEF IInv
<1>1. CASE Connect
  BY <1>1 DEF Connect, StartCursor, writing, TypeOK, LockIsHeld, IdsAscend,
              HandlerAtClient, DeliveredIsReplay
<1>2. CASE Query
  <2>1. PICK page \in Pages(stream.cursor) :
            stream' = [stream EXCEPT !.pc = IF page = {} THEN "wait" ELSE "send",
                                     !.batch = page]
    BY <1>2 DEF Query
  <2>2. UNCHANGED <<state, events, nextId, lock, tx, seen, last, redis, drops>>
    BY <1>2 DEF Query, writing
  <2>3. /\ page \subseteq events /\ \A e \in page : e > last
        /\ \A e \in page : \A f \in events \ page : f > last => e < f
    BY <1>2 DEF Query, Pages, After, HandlerAtClient
  <2>4. TypeOK'
    BY <2>1, <2>2, <2>3 DEF TypeOK
  <2>5. HandlerAtClient'
    <3>1. stream'.batch = page /\ stream'.cursor = stream.cursor
      BY <2>1 DEF TypeOK
    <3>2. stream.cursor = last
      BY <1>2 DEF Query, HandlerAtClient
    <3> QED
      BY <2>2, <2>3, <3>1, <3>2 DEF HandlerAtClient
  <2> QED
    BY <2>2, <2>4, <2>5 DEF LockIsHeld, IdsAscend, DeliveredIsReplay
<1>3. CASE Check
  BY <1>3 DEF Check, Closed, writing, TypeOK, LockIsHeld, IdsAscend,
              HandlerAtClient, DeliveredIsReplay
<1>4. CASE Tick
  BY <1>4 DEF Tick, writing, TypeOK, LockIsHeld, IdsAscend,
              HandlerAtClient, DeliveredIsReplay
<1>5. CASE Drop
  BY <1>5 DEF Drop, Closed, writing, TypeOK, LockIsHeld, IdsAscend,
              HandlerAtClient, DeliveredIsReplay
<1>6. CASE RedisFails
  <2>1. redis' \in BOOLEAN
    BY <1>6 DEF RedisFails
  <2>2. UNCHANGED <<state, events, nextId, lock, tx, seen, last>>
    BY <1>6 DEF RedisFails, writing
  <2>3. stream' = Closed /\ drops' = drops + 1
    BY <1>6 DEF RedisFails
  <2>4. TypeOK'
    BY <2>1, <2>2, <2>3 DEF TypeOK, Closed
  <2> QED
    BY <2>2, <2>3, <2>4 DEF Closed, LockIsHeld, IdsAscend, HandlerAtClient,
                            DeliveredIsReplay
<1>7. CASE RedisRecovers
  BY <1>7 DEF RedisRecovers, writing, reading, TypeOK, LockIsHeld, IdsAscend,
              HandlerAtClient, DeliveredIsReplay
<1> QED
  BY <1>1, <1>2, <1>3, <1>4, <1>5, <1>6, <1>7

\* What Send does, with the event it picks named.
LEMMA SendEffect ==
    ASSUME IInv, Send
    PROVE  \E e \in stream.batch :
               /\ \A f \in stream.batch : e <= f
               /\ stream' = [pc |-> IF stream.batch = {e} THEN "check" ELSE "send",
                             cursor |-> e, batch |-> stream.batch \ {e}]
               /\ seen' = seen \cup {e} /\ last' = e
               /\ e \in events /\ e > last
               /\ \A f \in events : f > last => e <= f
<1>1. PICK e \in stream.batch :
          /\ \A f \in stream.batch : e <= f
          /\ stream' = [pc |-> IF stream.batch = {e} THEN "check" ELSE "send",
                        cursor |-> e, batch |-> stream.batch \ {e}]
          /\ seen' = seen \cup {e} /\ last' = e
  BY DEF Send
<1>2. e \in events /\ e > last /\ \A f \in events \ stream.batch : f > last => e < f
  BY DEF IInv, HandlerAtClient
<1>3. \A f \in events : f > last => e <= f
  BY <1>1, <1>2 DEF IInv, TypeOK
<1> QED
  BY <1>1, <1>2, <1>3

LEMMA SendStep ==
    ASSUME IInv, Send
    PROVE  IInv'
<1> USE DEF IInv
<1>1. PICK e \in stream.batch :
          /\ \A f \in stream.batch : e <= f
          /\ stream' = [pc |-> IF stream.batch = {e} THEN "check" ELSE "send",
                        cursor |-> e, batch |-> stream.batch \ {e}]
          /\ seen' = seen \cup {e} /\ last' = e
          /\ e \in events /\ e > last
          /\ \A f \in events : f > last => e <= f
  BY SendEffect
<1>2. UNCHANGED <<state, events, nextId, lock, tx, redis, drops>>
  BY DEF Send, writing
<1>3. TypeOK'
  BY <1>1, <1>2 DEF TypeOK
<1>4. HandlerAtClient'
  <2>1. \A f \in stream.batch \ {e} : f \in events /\ f > e
    BY <1>1 DEF HandlerAtClient, TypeOK
  <2>2. \A f \in stream.batch, g \in events \ stream.batch : g > e => f < g
    BY <1>1 DEF HandlerAtClient, TypeOK
  <2>3. /\ stream'.batch = stream.batch \ {e} /\ stream'.cursor = e
        /\ events' = events /\ last' = e
    BY <1>1, <1>2
  <2>4. \A f \in stream'.batch, g \in events' \ stream'.batch : g > last' => f < g
    <3> SUFFICES ASSUME NEW f \in stream.batch \ {e},
                        NEW g \in events \ (stream.batch \ {e}), g > e
                 PROVE  f < g
      BY <2>3
    <3>1. g # e
      BY DEF TypeOK
    <3> QED
      BY <2>2, <3>1
  <2> QED
    BY <1>1, <2>1, <2>3, <2>4 DEF HandlerAtClient
<1>5. DeliveredIsReplay'
  <2>1. \A f \in events : f <= e <=> f <= last \/ f = e
    BY <1>1 DEF TypeOK
  <2>2. seen \cup {e} = {f \in events : f <= e}
    BY <1>1, <2>1 DEF DeliveredIsReplay
  <2> QED
    BY <1>1, <1>2, <2>2 DEF DeliveredIsReplay
<1> QED
  BY <1>2, <1>3, <1>4, <1>5 DEF LockIsHeld, IdsAscend

THEOREM NextIInv == IInv /\ [Next]_vars => IInv'
<1> SUFFICES ASSUME IInv, [Next]_vars PROVE IInv'
  OBVIOUS
<1>1. CASE Write
  BY <1>1, OpenTransactions, CommitStep DEF Write
<1>2. CASE Connect \/ Query \/ Check \/ Tick \/ Drop \/ RedisFails \/ RedisRecovers
  BY <1>2, ReaderStep
<1>3. CASE Send
  BY <1>3, SendStep
<1>4. CASE UNCHANGED vars
  BY <1>4 DEF vars, writing, reading, IInv, TypeOK, LockIsHeld, IdsAscend,
              HandlerAtClient, DeliveredIsReplay
<1> QED
  BY <1>1, <1>2, <1>3, <1>4 DEF Next, Serve

\* The inductive invariant holds in every reachable state.
THEOREM Invariance == Spec => []IInv
BY InitIInv, NextIInv, PTL DEF Spec

\* Rows, transactions, the handler and the client keep their types.
THEOREM TypeCorrect == Spec => []TypeOK
<1>1. IInv => TypeOK
  BY DEF IInv
<1> QED
  BY <1>1, Invariance, PTL

\* The client has exactly the committed events up to its Last-Event-ID, for any
\* number of writers, page size and reconnections.
THEOREM ReplayIsExact == Spec => []DeliveredIsReplay
<1>1. IInv => DeliveredIsReplay
  BY DEF IInv
<1> QED
  BY <1>1, Invariance, PTL

\* Events arrive once each and in the order of their ids.
THEOREM ArrivalIsOrdered == Spec => ArrivalInOrder
<1>1. ASSUME IInv, [Next]_vars
      PROVE  [last' # last => last' > last /\ last' \notin seen]_vars
  <2>1. CASE Send
    BY <1>1, <2>1, SendEffect DEF IInv, TypeOK, DeliveredIsReplay
  <2>2. CASE UNCHANGED last
    BY <2>2
  <2> QED
    BY <1>1, <2>1, <2>2 DEF Next, Write, Lock, InsertEvent, Commit, Rollback, Connect,
       Serve, Query, Check, Tick, Drop, RedisFails, RedisRecovers, vars, reading
<1> QED
  BY <1>1, Invariance, PTL DEF Spec, ArrivalInOrder

=============================================================================
