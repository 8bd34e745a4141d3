-------------------------- MODULE AdmissionProofs --------------------------
(***************************************************************************)
(* What holds of admission for any number of requests, slots and threads:  *)
(* slots are conserved, no wake-up is lost, and an answer about a document *)
(* is the one of a child that ended normally.                              *)
(*                                                                         *)
(* The inductive invariant has three parts: the types; PoolsOK, which      *)
(* relates the counter, the queue and the handlers of a semaphore; and     *)
(* ChildrenOK, which relates a handler to its child, its join and its      *)
(* directory.                                                              *)
(***************************************************************************)
EXTENDS Admission, FiniteSetTheorems, SequenceTheorems, TLAPS

Inside == {"waiting", "woken"}

Holders(p) == {r \in Requests : task[r].pc \in Holding /\ Pool(r) = p}

Distinct(q) == \A i, j \in DOMAIN q : i # j => q[i] # q[j]

\* The queue of a pool names the requests inside its acquire(), each once.
QueueOK(p) ==
    /\ Distinct(waiters[p])
    /\ Range(waiters[p]) = {r \in Requests : task[r].pc \in Inside /\ Pool(r) = p}

CountOK(p) == free[p] + Cardinality(Holders(p)) = Slots[p]

WakeOK(p) ==
    free[p] > 0 /\ Sleepers(waiters[p]) # {} =>
        \E r \in Requests : task[r].pc = "woken" /\ Pool(r) = p

PoolsOK == \A p \in Pools : QueueOK(p) /\ CountOK(p) /\ WakeOK(p)

SemaphoresOK ==
    /\ free \in [Pools -> Nat]
    /\ waiters \in [Pools -> Seq(Requests)]
    /\ task \in [Requests -> Tasks]
    /\ PoolsOK

ChildOK(r) ==
    /\ task[r].pc = "joining" => child[r].process # "none"
    /\ task[r].pc # "joining" =>
          child[r] = NoChild /\ joiner[r] \in {"none", "blocked"} /\ r \notin scratch
    /\ joiner[r] = "returned" => child[r].process # "running"
    /\ task[r].pc # "done" => task[r].answer = "none"

ChildrenOK == \A r \in Requests : ChildOK(r)

IInv == TypeOK /\ PoolsOK /\ ChildrenOK

\* What a step may do to the handlers while r moves to pc: sleepers are woken.
Moves(r, pc, answer) ==
    /\ task'[r].pc = pc /\ task'[r].answer = answer
    /\ \A x \in Requests \ {r} :
          /\ task'[x].answer = task[x].answer
          /\ \/ task'[x].pc = task[x].pc
             \/ task[x].pc = "waiting" /\ task'[x].pc = "woken"

----------------------------------------------------------------------------
(* Operators. *)

\* Taking a waiter out of its queue leaves the others, each once.
LEMMA WithoutTakesOne ==
    ASSUME NEW S, NEW q \in Seq(S), Distinct(q), NEW r \in Range(q)
    PROVE  /\ Without(q, r) \in Seq(S)
           /\ Distinct(Without(q, r))
           /\ Range(Without(q, r)) = Range(q) \ {r}
<1> DEFINE k == CHOOSE i \in DOMAIN q : q[i] = r
           w == Without(q, r)
           a == SubSeq(q, 1, k - 1)
           b == SubSeq(q, k + 1, Len(q))
<1>1. k \in 1..Len(q) /\ q[k] = r
  BY DEF Range
<1>2. w = a \o b
  BY DEF Without, RemoveAt
<1> HIDE DEF k, w
<1>3. /\ a \in Seq(S) /\ Len(a) = k - 1
      /\ \A i \in 1..(k - 1) : a[i] = q[i]
  <2>1. \A i \in 1..(k - 1) : q[i] \in S
    BY <1>1, ElementOfSeq
  <2> QED BY <1>1, <2>1, SubSeqProperties
<1>4. /\ b \in Seq(S) /\ Len(b) = Len(q) - k
      /\ \A i \in 1..(Len(q) - k) : b[i] = q[k + i]
  <2>1. \A i \in (k + 1)..Len(q) : q[i] \in S
    BY <1>1, ElementOfSeq
  <2> DEFINE m == k + 1
  <2>2. m \in Int /\ Len(q) \in Int
    BY <1>1
  <2>3. /\ b \in Seq(S) /\ Len(b) = IF m <= Len(q) THEN Len(q) - m + 1 ELSE 0
        /\ \A i \in 1..(Len(q) - m + 1) : b[i] = q[m + i - 1]
    BY <2>1, <2>2, SubSeqProperties
  <2> QED BY <1>1, <2>3
<1> HIDE DEF a, b
<1>5. /\ w \in Seq(S) /\ Len(w) = Len(q) - 1
      /\ \A i \in 1..Len(w) : w[i] = IF i < k THEN q[i] ELSE q[i + 1]
  <2>1. /\ w \in Seq(S) /\ Len(w) = Len(a) + Len(b)
        /\ \A i \in 1..(Len(a) + Len(b)) :
              w[i] = IF i <= Len(a) THEN a[i] ELSE b[i - Len(a)]
    BY <1>2, <1>3, <1>4, ConcatProperties
  <2>2. Len(a) + Len(b) = Len(q) - 1 /\ Len(a) = k - 1
    BY <1>1, <1>3, <1>4
  <2>3. w \in Seq(S) /\ Len(w) = Len(q) - 1
    BY <2>1, <2>2
  <2>4. ASSUME NEW i \in 1..Len(w) PROVE w[i] = IF i < k THEN q[i] ELSE q[i + 1]
    <3>1. CASE i < k
      BY <1>1, <1>3, <2>1, <2>2, <2>3, <3>1
    <3>2. CASE i >= k
      <4> DEFINE j == i - (k - 1)
      <4>1. w[i] = b[j] /\ j \in 1..(Len(q) - k) /\ k + j = i + 1
        BY <1>1, <2>1, <2>2, <2>3, <3>2
      <4> HIDE DEF j
      <4>2. b[j] = q[k + j]
        BY <1>4, <4>1
      <4> QED BY <3>2, <4>1, <4>2, <1>1
    <3> QED BY <1>1, <2>3, <3>1, <3>2
  <2> QED BY <2>3, <2>4
<1>6. Distinct(w)
  <2>1. \A i, j \in 1..Len(q) : i # j => q[i] # q[j]
    BY DEF Distinct
  <2>2. \A i, j \in 1..Len(w) : i # j => w[i] # w[j]
    BY <1>1, <1>5, <2>1
  <2> QED BY <1>5, <2>2 DEF Distinct
<1>7. \A x \in Range(w) : x \in Range(q) \ {r}
  BY <1>1, <1>5 DEF Distinct, Range
<1>8. ASSUME NEW x \in Range(q) \ {r} PROVE x \in Range(w)
  <2>1. PICK i \in 1..Len(q) : q[i] = x
    BY DEF Range
  <2>2. CASE i < k
    BY <1>1, <1>5, <2>1, <2>2 DEF Range
  <2>3. CASE i > k
    <3>1. i - 1 \in 1..Len(w) /\ w[i - 1] = x
      BY <1>1, <1>5, <2>1, <2>3
    <3> QED BY <1>5, <3>1 DEF Range
  <2> QED BY <1>1, <1>8, <2>1, <2>2, <2>3
<1> QED BY <1>5, <1>6, <1>7, <1>8 DEF w

LEMMA HoldersAreFinite ==
    ASSUME NEW p
    PROVE  IsFiniteSet(Holders(p)) /\ Cardinality(Holders(p)) \in Nat
BY RequestsAreFinite, FS_Subset, FS_CardinalityType DEF Holders, Requests

LEMMA SlotsAreNatural == \A p \in Pools : Slots[p] \in Nat
BY LimitsAssumption DEF Slots, Pools


----------------------------------------------------------------------------
(* The semaphore. *)

\* The common part of every way to leave: whoever leaves with the queue q and some
\* spare slots keeps the books of its pool, if it wakes a sleeper whenever it
\* leaves a spare slot and nobody else is awake.
LEMMA PassKeepsPools ==
    ASSUME SemaphoresOK,
           NEW r \in Requests, NEW p \in Pools, p = Pool(r), NEW pc \in {"reading", "done"}, NEW answer \in Answers,
           NEW q \in Seq(Requests), NEW spare \in Nat, NEW W \in SUBSET Sleepers(q),
           task[r].pc \in {"waiting"} \cup Holding,
           Distinct(q),
           Range(q) = Range(waiters[p]) \ {r},
           Cardinality(W) <= spare,
           pc = "done" => spare + Cardinality(Holders(p) \ {r}) = Slots[p],
           pc = "reading" => spare + Cardinality(Holders(p) \ {r}) + 1 = Slots[p],
           \/ W # {} \/ spare = 0 \/ Sleepers(q) = {}
           \/ \E x \in Requests \ {r} : task[x].pc = "woken" /\ Pool(x) = p,
           Pass(r, pc, answer, q, spare, W)
    PROVE  SemaphoresOK' /\ Moves(r, pc, answer)
<1> USE DEF SemaphoresOK
<1>1. /\ W \subseteq Requests /\ IsFiniteSet(W) /\ Cardinality(W) \in Nat
      /\ \A x \in W : task[x].pc = "waiting" /\ Pool(x) = p /\ x # r /\ x \in Range(q)
  <2>1. W \subseteq Range(q) /\ \A x \in W : task[x].pc = "waiting"
    BY DEF Sleepers
  <2>2. \A x \in W : x \in Requests /\ Pool(x) = p /\ x # r
    BY <2>1 DEF PoolsOK, QueueOK
  <2>3. IsFiniteSet(W) /\ Cardinality(W) \in Nat
    BY <2>2, RequestsAreFinite, FS_Subset, FS_CardinalityType DEF Requests
  <2> QED BY <2>1, <2>2, <2>3
<1>2. /\ free' = [free EXCEPT ![p] = spare - Cardinality(W)]
      /\ waiters' = [waiters EXCEPT ![p] = q]
  BY DEF Pass
<1>3. /\ task' \in [Requests -> Tasks]
      /\ task'[r].pc = pc /\ task'[r].answer = answer
      /\ \A x \in W : task'[x].pc = "woken" /\ task'[x].answer = task[x].answer
      /\ \A x \in Requests \ (W \cup {r}) : task'[x] = task[x]
      /\ \A x \in Requests : task'[x].endpoint = task[x].endpoint
  <2> DEFINE handed == [x \in Requests |-> IF x \in W THEN [task[x] EXCEPT !.pc = "woken"]
                                                       ELSE task[x]]
  <2>1. task' = [handed EXCEPT ![r].pc = pc, ![r].answer = answer]
    BY DEF Pass
  <2>2. \A x \in Requests : task[x] \in Tasks
    OBVIOUS
  <2>3. \A t \in Tasks : /\ [t EXCEPT !.pc = "woken"] \in Tasks
                         /\ [t EXCEPT !.pc = "woken"].pc = "woken"
                         /\ [t EXCEPT !.pc = "woken"].endpoint = t.endpoint
    BY DEF Tasks, Holding
  <2>4. handed \in [Requests -> Tasks] /\ handed[r] = task[r]
    BY <1>1, <2>2, <2>3
  <2>5. /\ task'[r] = [task[r] EXCEPT !.pc = pc, !.answer = answer]
        /\ DOMAIN task' = Requests
        /\ \A x \in Requests \ {r} : task'[x] = handed[x]
    BY <2>1, <2>4 DEF Tasks
  <2>6. /\ task'[r] \in Tasks /\ task'[r].pc = pc /\ task'[r].answer = answer
        /\ task'[r].endpoint = task[r].endpoint
    BY <2>2, <2>5 DEF Tasks, Holding
  <2>7. task' = [x \in Requests |-> task'[x]]
    BY <2>1
  <2>8. \A x \in Requests : task'[x] \in Tasks
    BY <2>4, <2>5, <2>6
  <2>9. task' \in [Requests -> Tasks]
    BY <2>7, <2>8
  <2>10. \A x \in W : /\ task'[x].pc = "woken" /\ task'[x].endpoint = task[x].endpoint
                      /\ task'[x].answer = task[x].answer
    <3> SUFFICES ASSUME NEW x \in W
                 PROVE  /\ task'[x].pc = "woken" /\ task'[x].endpoint = task[x].endpoint
                        /\ task'[x].answer = task[x].answer
      OBVIOUS
    <3>1. task'[x] = [task[x] EXCEPT !.pc = "woken"] /\ task[x] \in Tasks
      BY <1>1, <2>2, <2>5
    <3> QED BY <3>1 DEF Tasks
  <2>11. \A x \in Requests \ (W \cup {r}) : task'[x] = task[x]
    BY <2>5
  <2> HIDE DEF handed
  <2> QED BY <2>6, <2>9, <2>10, <2>11
<1>4. \A x \in Requests : Pool(x)' = Pool(x)
  BY <1>3 DEF Pool
<1>5. free' \in [Pools -> Nat] /\ waiters' \in [Pools -> Seq(Requests)]
  BY <1>1, <1>2
<1>6. ASSUME NEW o \in Pools, o # p
      PROVE  QueueOK(o)' /\ CountOK(o)' /\ WakeOK(o)'
  <2>1. waiters'[o] = waiters[o] /\ free'[o] = free[o]
    BY <1>2, <1>6
  <2>2. \A x \in Requests : Pool(x) = o => task'[x] = task[x]
    BY <1>1, <1>3, <1>6
  <2>3. QueueOK(o)'
    BY <1>4, <2>1, <2>2 DEF PoolsOK, QueueOK
  <2>4. Holders(o)' = Holders(o)
    BY <1>4, <2>2 DEF Holders
  <2>5. CountOK(o)'
    BY <2>1, <2>4 DEF PoolsOK, CountOK
  <2>6. Sleepers(waiters[o])' = Sleepers(waiters[o])
    <3>1. \A x \in Range(waiters[o]) : x \in Requests /\ Pool(x) = o
      BY DEF PoolsOK, QueueOK
    <3> QED BY <2>1, <2>2, <3>1 DEF Sleepers
  <2>7. WakeOK(o)'
    BY <1>4, <2>1, <2>2, <2>6 DEF PoolsOK, WakeOK
  <2> QED BY <2>3, <2>5, <2>7
<1>7. QueueOK(p)'
  <2>1. waiters'[p] = q
    BY <1>2
  <2>2. Range(q) = {x \in Requests : task[x].pc \in Inside /\ Pool(x) = p} \ {r}
    BY DEF PoolsOK, QueueOK
  <2>3. \A x \in Requests : task'[x].pc \in Inside <=> x # r /\ task[x].pc \in Inside
    BY <1>1, <1>3 DEF Inside
  <2> QED BY <1>4, <2>1, <2>2, <2>3 DEF QueueOK
<1>8. CountOK(p)'
  <2> DEFINE others == Holders(p) \ {r}
             stays == IF pc = "reading" THEN {r} ELSE {}
  <2>1. Holders(p)' = others \cup W \cup stays
    <3>1. \A x \in Requests : x \in Holders(p)' <=> task'[x].pc \in Holding /\ Pool(x) = p
      BY <1>4 DEF Holders
    <3>2. \A x \in Requests \ (W \cup {r}) : x \in Holders(p)' <=> x \in Holders(p)
      BY <1>3, <3>1 DEF Holders
    <3>3. \A x \in W : x \in Holders(p)'
      BY <1>1, <1>3, <3>1 DEF Holding
    <3>4. r \in Holders(p)' <=> pc = "reading"
      BY <1>3, <3>1 DEF Holding
    <3>5. Holders(p)' \subseteq Requests /\ Holders(p) \subseteq Requests
      BY DEF Holders
    <3> QED BY <1>1, <3>2, <3>3, <3>4, <3>5
  <2>2. IsFiniteSet(others) /\ Cardinality(others) \in Nat
    BY HoldersAreFinite, FS_Subset, FS_CardinalityType
  <2>3. others \cap W = {}
    BY <1>1 DEF Holders, Holding
  <2>4. /\ IsFiniteSet(others \cup W)
        /\ Cardinality(others \cup W) = Cardinality(others) + Cardinality(W)
    <3> HIDE DEF others
    <3>1. Cardinality(others \cap W) = 0
      BY <2>3, FS_EmptySet
    <3>2. /\ IsFiniteSet(others \cup W)
          /\ Cardinality(others \cup W)
                = Cardinality(others) + Cardinality(W) - Cardinality(others \cap W)
      BY <1>1, <2>2, FS_Union
    <3> QED BY <1>1, <2>2, <3>1, <3>2
  <2>5. r \notin others \cup W
    BY <1>1
  <2>6. Cardinality(Holders(p)')
           = Cardinality(others) + Cardinality(W) + (IF pc = "reading" THEN 1 ELSE 0)
    <3> DEFINE both == others \cup W
    <3> HIDE DEF others, both
    <3>1. CASE pc = "reading"
      <4>1. IsFiniteSet(both) /\ Cardinality(both) = Cardinality(others) + Cardinality(W)
        BY <2>4 DEF both
      <4>2. r \notin both /\ Holders(p)' = both \cup {r}
        BY <2>1, <2>5, <3>1 DEF both
      <4>3. Cardinality(both \cup {r}) = Cardinality(both) + 1
        BY <4>1, <4>2, FS_AddElement
      <4> QED BY <3>1, <4>1, <4>2, <4>3
    <3>2. CASE pc # "reading"
      BY <1>1, <2>1, <2>2, <2>4, <3>2
    <3> QED BY <3>1, <3>2
  <2>7. free'[p] = spare - Cardinality(W)
    BY <1>2
  <2>8. /\ pc = "done" => spare + Cardinality(others) = Slots[p]
        /\ pc = "reading" => spare + Cardinality(others) + 1 = Slots[p]
    OBVIOUS
  <2> HIDE DEF others
  <2>9. free'[p] + Cardinality(Holders(p)') = Slots[p]
    <3>1. CASE pc = "reading"
      BY <1>1, <2>2, <2>6, <2>7, <2>8, <3>1
    <3>2. CASE pc # "reading"
      BY <1>1, <2>2, <2>6, <2>7, <2>8, <3>2
    <3> QED BY <3>1, <3>2
  <2> QED BY <2>9 DEF CountOK
<1>9. WakeOK(p)'
  <2>1. waiters'[p] = q /\ free'[p] = spare - Cardinality(W)
    BY <1>2
  <2>2. CASE W # {}
    BY <1>1, <1>3, <1>4, <2>2 DEF WakeOK
  <2>3. CASE W = {} /\ spare = 0
    BY <1>1, <2>1, <2>3, FS_EmptySet DEF WakeOK
  <2>4. CASE W = {} /\ Sleepers(q) = {}
    <3>1. \A x \in Range(q) : x \in Requests /\ x # r
      BY DEF PoolsOK, QueueOK
    <3>2. Sleepers(waiters[p])' = {}
      BY <1>3, <2>1, <2>4, <3>1 DEF Sleepers
    <3> QED BY <3>2 DEF WakeOK
  <2>5. CASE W = {} /\ \E x \in Requests \ {r} : task[x].pc = "woken" /\ Pool(x) = p
    BY <1>3, <1>4, <2>5 DEF WakeOK
  <2> QED BY <2>2, <2>3, <2>4, <2>5
<1>10. PoolsOK'
  BY <1>6, <1>7, <1>8, <1>9 DEF PoolsOK
<1>11. Moves(r, pc, answer)
  BY <1>1, <1>3 DEF Moves
<1> QED BY <1>3, <1>5, <1>10, <1>11

\* release() by a handler that holds a slot outside acquire().
LEMMA ReleaseKeepsPools ==
    ASSUME SemaphoresOK, NEW r \in Requests, task[r].pc \in {"reading", "joining"},
           NEW answer \in Answers, Release(r, answer)
    PROVE  SemaphoresOK' /\ Moves(r, "done", answer)
<1> DEFINE q == waiters[Pool(r)]
<1>1. PICK p \in Pools : p = Pool(r)
  BY DEF Pool, PoolOf, Pools
<1>2. PICK W \in Eldest(q, 1) : /\ W = {} => Sleepers(q) = {}
                                /\ Pass(r, "done", answer, q, free[p] + 1, W)
  BY <1>1 DEF Release
<1>3. /\ q \in Seq(Requests) /\ free[p] + 1 \in Nat /\ free[p] \in Nat
      /\ Distinct(q) /\ Range(q) = Range(q) \ {r}
  BY <1>1 DEF SemaphoresOK, PoolsOK, QueueOK, Inside
<1>4. free[p] + 1 + Cardinality(Holders(p) \ {r}) = Slots[p]
  <2>1. r \in Holders(p)
    BY <1>1 DEF Holders, Holding
  <2>2. Cardinality(Holders(p) \ {r}) = Cardinality(Holders(p)) - 1
    BY <2>1, HoldersAreFinite, FS_RemoveElement
  <2>3. free[p] + Cardinality(Holders(p)) = Slots[p]
    BY DEF SemaphoresOK, PoolsOK, CountOK
  <2> QED BY <1>3, <2>2, <2>3, HoldersAreFinite
<1>5. W \in SUBSET Sleepers(q) /\ Cardinality(W) <= free[p] + 1
  <2>1. W \in SUBSET Sleepers(q) /\ Cardinality(W) <= 1
    BY <1>2 DEF Eldest
  <2>2. Sleepers(q) \subseteq Requests
    BY <1>1 DEF SemaphoresOK, PoolsOK, QueueOK, Sleepers
  <2>3. Cardinality(W) \in Nat
    BY <2>1, <2>2, RequestsAreFinite, FS_Subset, FS_CardinalityType DEF Requests
  <2> QED BY <1>3, <2>1, <2>3
<1> QED BY <1>1, <1>2, <1>3, <1>4, <1>5, PassKeepsPools DEF Holding

\* The queue that a waiter leaves behind.
LEMMA QueueWithout ==
    ASSUME SemaphoresOK, NEW r \in Requests, task[r].pc \in Inside,
           NEW p \in Pools, p = Pool(r), NEW q, q = Without(waiters[p], r)
    PROVE  /\ q \in Seq(Requests) /\ Distinct(q)
           /\ Range(q) = Range(waiters[p]) \ {r}
           /\ Sleepers(q) = Sleepers(waiters[p]) \ {r}
           /\ Sleepers(q) \subseteq Requests
<1>1. /\ waiters[p] \in Seq(Requests) /\ Distinct(waiters[p])
      /\ r \in Range(waiters[p]) /\ Range(waiters[p]) \subseteq Requests
  BY DEF SemaphoresOK, PoolsOK, QueueOK
<1>2. /\ q \in Seq(Requests) /\ Distinct(q)
      /\ Range(q) = Range(waiters[p]) \ {r}
  BY <1>1, WithoutTakesOne
<1> QED BY <1>1, <1>2 DEF Sleepers

\* A woken waiter that goes on has one of the slots, one that ends gives it back.
LEMMA LeaveKeepsPools ==
    ASSUME SemaphoresOK, NEW r \in Requests, task[r].pc = "woken",
           NEW pc \in {"reading", "done"}, NEW answer \in Answers,
           NEW spare, spare = IF pc = "done" THEN free[Pool(r)] + 1 ELSE free[Pool(r)],
           Leave(r, pc, answer, spare)
    PROVE  SemaphoresOK' /\ Moves(r, pc, answer)
<1>1. PICK p \in Pools : p = Pool(r)
  BY DEF Pool, PoolOf, Pools
<1> DEFINE q == Without(waiters[p], r)
<1>2. PICK W \in Eldest(q, spare) : /\ W = {} => spare = 0 \/ Sleepers(q) = {}
                                    /\ Pass(r, pc, answer, q, spare, W)
  BY <1>1 DEF Leave
<1>3. /\ q \in Seq(Requests) /\ Distinct(q)
      /\ Range(q) = Range(waiters[p]) \ {r}
  BY <1>1, QueueWithout DEF Inside
<1>4. free[p] \in Nat /\ spare \in Nat
  BY <1>1 DEF SemaphoresOK
<1>5. /\ pc = "done" => spare + Cardinality(Holders(p) \ {r}) = Slots[p]
      /\ pc = "reading" => spare + Cardinality(Holders(p) \ {r}) + 1 = Slots[p]
  <2>1. r \in Holders(p)
    BY <1>1 DEF Holders, Holding
  <2>2. Cardinality(Holders(p) \ {r}) = Cardinality(Holders(p)) - 1
    BY <2>1, HoldersAreFinite, FS_RemoveElement
  <2>3. free[p] + Cardinality(Holders(p)) = Slots[p]
    BY DEF SemaphoresOK, PoolsOK, CountOK
  <2>4. spare = IF pc = "done" THEN free[p] + 1 ELSE free[p]
    BY <1>1
  <2> QED BY <1>4, <2>2, <2>3, <2>4, HoldersAreFinite
<1>6. W \in SUBSET Sleepers(q) /\ Cardinality(W) <= spare
  BY <1>2 DEF Eldest
<1>7. task[r].pc \in {"waiting"} \cup Holding
  BY DEF Holding
<1> HIDE DEF q
<1> QED BY <1>1, <1>2, <1>3, <1>4, <1>5, <1>6, <1>7, PassKeepsPools

\* A sleeper that gives up may wake others, but need not: another is awake.
LEMMA GiveUpKeepsPools ==
    ASSUME SemaphoresOK, NEW r \in Requests, task[r].pc = "waiting",
           NEW answer \in Answers, GiveUp(r, answer)
    PROVE  SemaphoresOK' /\ Moves(r, "done", answer)
<1>1. PICK p \in Pools : p = Pool(r)
  BY DEF Pool, PoolOf, Pools
<1> DEFINE q == Without(waiters[p], r)
<1>2. PICK W \in Eldest(q, free[p]) : Pass(r, "done", answer, q, free[p], W)
  BY <1>1 DEF GiveUp
<1>3. /\ q \in Seq(Requests) /\ Distinct(q)
      /\ Range(q) = Range(waiters[p]) \ {r}
      /\ Sleepers(q) \subseteq Sleepers(waiters[p])
  BY <1>1, QueueWithout DEF Inside
<1>4. free[p] \in Nat
  BY DEF SemaphoresOK
<1>5. free[p] + Cardinality(Holders(p) \ {r}) = Slots[p]
  <2>1. Holders(p) \ {r} = Holders(p)
    BY DEF Holders, Holding
  <2> QED BY <2>1 DEF SemaphoresOK, PoolsOK, CountOK
<1>6. W \in SUBSET Sleepers(q) /\ Cardinality(W) <= free[p]
  BY <1>2 DEF Eldest
<1>7. \/ free[p] = 0 \/ Sleepers(q) = {}
      \/ \E x \in Requests \ {r} : task[x].pc = "woken" /\ Pool(x) = p
  <2>1. CASE free[p] > 0 /\ Sleepers(q) # {}
    <3>1. PICK x \in Requests : task[x].pc = "woken" /\ Pool(x) = p
      BY <1>3, <2>1 DEF SemaphoresOK, PoolsOK, WakeOK
    <3> QED BY <3>1
  <2> QED BY <1>4, <2>1
<1>8. task[r].pc \in {"waiting"} \cup Holding
  OBVIOUS
<1> HIDE DEF q
<1> QED BY <1>1, <1>2, <1>3, <1>4, <1>5, <1>6, <1>7, <1>8, PassKeepsPools

\* acquire() takes a free slot, or joins the end of the queue.
LEMMA AcquireKeepsPools ==
    ASSUME SemaphoresOK, NEW r \in Requests, Acquire(r)
    PROVE  /\ SemaphoresOK'
           /\ \E pc \in {"reading", "waiting"} : Moves(r, pc, "none")
           /\ task[r].pc = "new"
<1> USE DEF SemaphoresOK
<1>1. PICK e \in EndpointsOf(r) :
        LET open == free[PoolOf(e)] > 0 /\ waiters[PoolOf(e)] = <<>>
        IN  /\ task' = [task EXCEPT ![r] =
                           [endpoint |-> e, pc |-> IF open THEN "reading" ELSE "waiting",
                            answer |-> "none"]]
            /\ free' = [free EXCEPT ![PoolOf(e)] = IF open THEN @ - 1 ELSE @]
            /\ waiters' = [waiters EXCEPT ![PoolOf(e)] = IF open THEN @ ELSE Append(@, r)]
  BY DEF Acquire
<1>2. PICK p \in Pools : p = PoolOf(e)
  BY DEF PoolOf, Pools
<1>3. task[r].pc = "new" /\ e \in Endpoints
  BY DEF Acquire, EndpointsOf
<1>4. \A x \in Requests \ {r} : task'[x] = task[x] /\ Pool(x)' = Pool(x)
  BY <1>1 DEF Pool
<1>5. task'[r].endpoint = e /\ task'[r].answer = "none" /\ Pool(r)' = p
  BY <1>1, <1>2 DEF Pool
<1>6. free[p] \in Nat /\ waiters[p] \in Seq(Requests)
  OBVIOUS
<1>7. ASSUME NEW o \in Pools, o # p PROVE QueueOK(o)' /\ CountOK(o)' /\ WakeOK(o)'
  <2>1. waiters'[o] = waiters[o] /\ free'[o] = free[o]
    BY <1>1, <1>2, <1>7
  <2>2. r \notin Holders(o) /\ r \notin Range(waiters[o])
    BY <1>3 DEF PoolsOK, QueueOK, Holders, Holding, Inside
  <2>3. QueueOK(o)'
    BY <1>4, <1>5, <1>7, <2>1, <2>2 DEF PoolsOK, QueueOK
  <2>4. Holders(o)' = Holders(o)
    BY <1>4, <1>5, <1>7, <2>2 DEF Holders
  <2>5. CountOK(o)'
    BY <2>1, <2>4 DEF PoolsOK, CountOK
  <2>6. Sleepers(waiters[o])' = Sleepers(waiters[o])
    <3>1. \A x \in Range(waiters[o]) : x \in Requests \ {r}
      BY <2>2 DEF PoolsOK, QueueOK
    <3> QED BY <1>4, <2>1, <3>1 DEF Sleepers
  <2>7. ASSUME free[o] > 0, Sleepers(waiters[o]) # {}
        PROVE  \E x \in Requests : task'[x].pc = "woken" /\ Pool(x)' = o
    <3>1. PICK x \in Requests : task[x].pc = "woken" /\ Pool(x) = o
      BY <2>7 DEF PoolsOK, WakeOK
    <3> QED BY <1>3, <1>4, <3>1
  <2> QED BY <2>1, <2>3, <2>5, <2>6, <2>7 DEF WakeOK
<1>8. r \notin Range(waiters[p]) /\ \A o \in Pools : r \notin Holders(o)
  BY <1>3 DEF PoolsOK, QueueOK, Holders, Holding, Inside
<1>9. CASE free[p] > 0 /\ waiters[p] = <<>>
  <2>1. /\ task'[r].pc = "reading" /\ task' \in [Requests -> Tasks]
        /\ free' = [free EXCEPT ![p] = free[p] - 1] /\ waiters' = waiters
    BY <1>1, <1>2, <1>3, <1>6, <1>9 DEF Tasks, Holding, Answers
  <2>2. Range(waiters[p]) = {}
    BY <1>9 DEF Range
  <2>3. QueueOK(p)'
    BY <1>4, <1>5, <2>1, <2>2 DEF PoolsOK, QueueOK, Inside
  <2>4. Holders(p)' = Holders(p) \cup {r}
    BY <1>4, <1>5, <2>1 DEF Holders, Holding
  <2>5. Cardinality(Holders(p)') = Cardinality(Holders(p)) + 1
    BY <1>8, <2>4, HoldersAreFinite, FS_AddElement
  <2>6. free'[p] = free[p] - 1 /\ free' \in [Pools -> Nat]
    BY <1>6, <1>9, <2>1
  <2>7. CountOK(p)'
    <3>1. free[p] + Cardinality(Holders(p)) = Slots[p]
      BY DEF PoolsOK, CountOK
    <3>2. Slots' = Slots
      BY DEF Slots
    <3> QED BY <1>6, <2>5, <2>6, <3>1, HoldersAreFinite DEF CountOK
  <2>8. WakeOK(p)'
    BY <2>1, <2>2 DEF WakeOK, Sleepers
  <2>9. PoolsOK'
    BY <1>7, <2>3, <2>7, <2>8 DEF PoolsOK
  <2> QED BY <1>3, <1>4, <1>5, <2>1, <2>6, <2>9 DEF Moves
<1>10. CASE ~(free[p] > 0 /\ waiters[p] = <<>>)
  <2> DEFINE q == Append(waiters[p], r)
  <2>1. /\ task'[r].pc = "waiting" /\ task' \in [Requests -> Tasks]
        /\ free' = free /\ waiters' = [waiters EXCEPT ![p] = q]
    BY <1>1, <1>2, <1>3, <1>6, <1>10 DEF Tasks, Holding, Answers
  <2>2. /\ q \in Seq(Requests) /\ Len(q) = Len(waiters[p]) + 1
        /\ \A i \in 1..Len(waiters[p]) : q[i] = waiters[p][i]
        /\ q[Len(q)] = r
    BY <1>6, AppendProperties
  <2> HIDE DEF q
  <2>3. Range(q) = Range(waiters[p]) \cup {r}
    <3>1. /\ Len(waiters[p]) \in Nat /\ DOMAIN waiters[p] = 1..Len(waiters[p])
          /\ DOMAIN q = 1..(Len(waiters[p]) + 1)
      BY <1>6, <2>2
    <3>2. ASSUME NEW x \in Range(q) PROVE x \in Range(waiters[p]) \cup {r}
      <4>1. PICK i \in 1..(Len(waiters[p]) + 1) : x = q[i]
        BY <3>1 DEF Range
      <4>2. i \in 1..Len(waiters[p]) \/ i = Len(q)
        BY <2>2, <3>1
      <4> QED BY <2>2, <3>1, <4>1, <4>2 DEF Range
    <3>3. ASSUME NEW x \in Range(waiters[p]) PROVE x \in Range(q)
      <4>1. PICK i \in 1..Len(waiters[p]) : x = waiters[p][i]
        BY <3>1 DEF Range
      <4>2. q[i] = x /\ i \in DOMAIN q
        BY <2>2, <3>1, <4>1
      <4> QED BY <4>2 DEF Range
    <3>4. r \in Range(q)
      BY <2>2, <3>1 DEF Range
    <3> QED BY <3>2, <3>3, <3>4
  <2>4. Distinct(q)
    <3>1. Len(waiters[p]) \in Nat /\ DOMAIN waiters[p] = 1..Len(waiters[p])
      BY <1>6
    <3>2. DOMAIN q = 1..(Len(waiters[p]) + 1)
      BY <2>2
    <3>3. \A i \in 1..Len(waiters[p]) : waiters[p][i] # r
      BY <1>8, <3>1 DEF Range
    <3>4. \A i, j \in 1..Len(waiters[p]) : i # j => waiters[p][i] # waiters[p][j]
      BY <3>1 DEF PoolsOK, QueueOK, Distinct
    <3> QED BY <2>2, <3>1, <3>2, <3>3, <3>4 DEF Distinct
  <2>5. waiters'[p] = q /\ waiters' \in [Pools -> Seq(Requests)]
    BY <2>1, <2>2
  <2>6. QueueOK(p)'
    <3>1. {x \in Requests : task[x].pc \in Inside /\ Pool(x) = p}' =
             {x \in Requests : task[x].pc \in Inside /\ Pool(x) = p} \cup {r}
      BY <1>4, <1>5, <2>1 DEF Inside
    <3>2. Range(waiters[p]) = {x \in Requests : task[x].pc \in Inside /\ Pool(x) = p}
      BY DEF PoolsOK, QueueOK
    <3> QED BY <2>3, <2>4, <2>5, <3>1, <3>2 DEF QueueOK
  <2>7. Holders(p)' = Holders(p)
    BY <1>4, <1>8, <2>1 DEF Holders, Holding
  <2>8. CountOK(p)'
    BY <2>1, <2>7 DEF PoolsOK, CountOK
  <2>9. ASSUME free[p] > 0
        PROVE  \E x \in Requests : task'[x].pc = "woken" /\ Pool(x)' = p
    <3>1. waiters[p] # <<>>
      BY <1>10, <2>9
    <3>2. PICK y : y \in Range(waiters[p])
      BY <1>6, <3>1, EmptySeq DEF Range
    <3>3. y \in Requests /\ Pool(y) = p /\ task[y].pc \in Inside
      BY <3>2 DEF PoolsOK, QueueOK
    <3>4. PICK x \in Requests : task[x].pc = "woken" /\ Pool(x) = p
      BY <2>9, <3>2, <3>3 DEF PoolsOK, WakeOK, Sleepers, Inside
    <3> QED BY <1>3, <1>4, <3>4
  <2>10. WakeOK(p)'
    BY <2>1, <2>9 DEF WakeOK
  <2>11. PoolsOK'
    BY <1>7, <2>6, <2>8, <2>10 DEF PoolsOK
  <2> QED BY <1>3, <1>4, <1>5, <2>1, <2>5, <2>11 DEF Moves
<1> QED BY <1>3, <1>9, <1>10

\* A step that leaves the semaphores alone and keeps every request in its place.
LEMMA StillKeepsPools ==
    ASSUME SemaphoresOK, UNCHANGED <<free, waiters>>,
           task' \in [Requests -> Tasks],
           \A x \in Requests :
               /\ task'[x].endpoint = task[x].endpoint
               /\ task'[x].pc \in Holding <=> task[x].pc \in Holding
               /\ task'[x].pc = "waiting" <=> task[x].pc = "waiting"
               /\ task'[x].pc = "woken" <=> task[x].pc = "woken"
    PROVE  SemaphoresOK'
<1>1. \A x \in Requests : Pool(x)' = Pool(x)
  BY DEF Pool
<1>2. ASSUME NEW p \in Pools PROVE QueueOK(p)' /\ CountOK(p)' /\ WakeOK(p)'
  <2>1. \A x \in Range(waiters[p]) : x \in Requests
    BY DEF SemaphoresOK, PoolsOK, QueueOK
  <2>2. QueueOK(p)'
    BY <1>1 DEF SemaphoresOK, PoolsOK, QueueOK, Inside
  <2>3. Holders(p)' = Holders(p)
    BY <1>1 DEF Holders
  <2>4. Sleepers(waiters[p])' = Sleepers(waiters[p])
    BY <2>1 DEF Sleepers
  <2>5. CountOK(p)' /\ WakeOK(p)'
    BY <1>1, <2>3, <2>4 DEF SemaphoresOK, PoolsOK, CountOK, WakeOK
  <2> QED BY <2>2, <2>5
<1> QED BY <1>2 DEF SemaphoresOK, PoolsOK

----------------------------------------------------------------------------
(* The invariant. *)

LEMMA InitEstablishes == Init => IInv
<1> SUFFICES ASSUME Init PROVE IInv
  OBVIOUS
<1> USE DEF Init
<1>1. Slots \in [Pools -> Nat]
  BY LimitsAssumption DEF Slots
<1>2. \A p \in Pools : waiters[p] = <<>> /\ Range(waiters[p]) = {}
  BY DEF Range
<1>3. \A r \in Requests : task[r].pc = "new" /\ task[r].answer = "none" /\ task[r] \in Tasks
  BY DEF Idle, Tasks, Endpoints, Answers
<1>4. TypeOK
  <2>1. waiters \in [Pools -> Seq(Requests)]
    BY EmptySeq
  <2> QED BY <1>1, <1>3, <2>1 DEF TypeOK, NoChild, Statuses, Idle
<1>5. ASSUME NEW p \in Pools PROVE QueueOK(p) /\ CountOK(p) /\ WakeOK(p)
  <2>1. QueueOK(p)
    BY <1>2, <1>3 DEF QueueOK, Distinct, Inside
  <2>2. Holders(p) = {}
    BY <1>3 DEF Holders, Holding
  <2>3. CountOK(p)
    BY <1>1, <2>2, FS_EmptySet DEF CountOK
  <2>4. WakeOK(p)
    BY <1>2 DEF WakeOK, Sleepers
  <2> QED BY <2>1, <2>3, <2>4
<1>6. ChildrenOK
  BY <1>3 DEF ChildrenOK, ChildOK, NoChild
<1> QED BY <1>4, <1>5, <1>6 DEF IInv, PoolsOK

\* Every action either ends or moves one request, or moves its child or its join.
LEMMA StepKeeps ==
    ASSUME IInv, NEW r \in Requests, Handler(r) \/ Loop(r) \/ Thread(r) \/ Process(r)
    PROVE  IInv'
<1>0. SemaphoresOK /\ TypeOK /\ ChildrenOK
  BY DEF IInv, TypeOK, SemaphoresOK
<1> DEFINE Rest == /\ child' \in [Requests -> [process : {"none", "running", "exited", "failed"},
                                               status : Statuses \cup {"none"}]]
                   /\ joiner' \in [Requests -> {"none", "queued", "blocked", "returned"}]
                   /\ scratch' \subseteq Requests
<1>1. SemaphoresOK' /\ ChildrenOK' /\ Rest => IInv'
  BY DEF IInv, TypeOK, SemaphoresOK
<1> HIDE DEF Rest
<1>2. UNCHANGED <<child, joiner, scratch>> => Rest
  BY <1>0 DEF TypeOK, Rest
\* A request that is neither joining before the step nor after it.
<1>3. ASSUME NEW pc \in {"reading", "waiting", "done"}, NEW answer \in Answers,
             Moves(r, pc, answer), pc # "done" => answer = "none",
             task[r].pc # "joining", UNCHANGED <<child, joiner, scratch>>
      PROVE  ChildrenOK'
  BY <1>0, <1>3 DEF ChildrenOK, ChildOK, Moves
\* A handler that ends after its join.
<1>4. ASSUME NEW answer \in Answers, Moves(r, "done", answer), CleanUp(r)
      PROVE  ChildrenOK' /\ Rest
  <2>1. ChildrenOK'
    <3>1. /\ child'[r] = NoChild /\ joiner'[r] \in {"none", "blocked"} /\ r \notin scratch'
          /\ task'[r].pc = "done"
      BY <1>0, <1>4 DEF CleanUp, Moves, TypeOK
    <3>2. ChildOK(r)'
      BY <3>1 DEF ChildOK
    <3>3. ASSUME NEW x \in Requests, x # r PROVE ChildOK(x)'
      <4>1. child'[x] = child[x] /\ joiner'[x] = joiner[x] /\ (x \in scratch' <=> x \in scratch)
        BY <1>0, <1>4, <3>3 DEF CleanUp, TypeOK
      <4>2. /\ task'[x].answer = task[x].answer
            /\ task'[x].pc = task[x].pc \/ (task[x].pc = "waiting" /\ task'[x].pc = "woken")
        BY <1>4, <3>3 DEF Moves
      <4> QED BY <1>0, <4>1, <4>2 DEF ChildrenOK, ChildOK
    <3> QED BY <3>2, <3>3 DEF ChildrenOK
  <2>2. Rest
    BY <1>0, <1>4 DEF Rest, CleanUp, NoChild, TypeOK
  <2> QED BY <2>1, <2>2
<1>5. "none" \in Answers /\ "503" \in Answers /\ "504" \in Answers /\ Answer(r) \in Answers
  <2>1. task[r].endpoint \in Endpoints
    BY <1>0 DEF TypeOK, Tasks
  <2> QED BY <2>1 DEF Answers, Answer, Endpoints, SymbolEvidence, CompileUploadedSymbol,
        QueryRegions, RunPdfJob, RunSymbolJob, RunQueryJob
<1>6. CASE Refuse(r)
  <2>1. /\ task' \in [Requests -> Tasks] /\ task'[r].pc = "done" /\ task[r].pc = "new"
        /\ task'[r].endpoint = task[r].endpoint
        /\ \A x \in Requests \ {r} : task'[x] = task[x]
        /\ UNCHANGED <<free, waiters, child, joiner, scratch>>
    BY <1>0, <1>6 DEF Refuse, TypeOK, Tasks
  <2>2. SemaphoresOK'
    BY <1>0, <2>1, StillKeepsPools DEF Holding
  <2>3. ChildrenOK'
    BY <1>0, <2>1 DEF ChildrenOK, ChildOK
  <2> QED BY <1>1, <1>2, <2>1, <2>2, <2>3
<1>7. CASE Acquire(r)
  <2>1. UNCHANGED <<child, joiner, scratch>>
    BY <1>7 DEF Acquire
  <2> QED BY <1>0, <1>1, <1>2, <1>3, <1>5, <1>7, <2>1, AcquireKeepsPools
<1>8. CASE Resume(r)
  <2>1. SemaphoresOK' /\ Moves(r, "reading", "none")
    BY <1>0, <1>5, <1>8, LeaveKeepsPools DEF Resume
  <2> QED BY <1>1, <1>2, <1>3, <1>5, <1>8, <2>1 DEF Resume
<1>9. ASSUME NEW answer \in Answers, UNCHANGED <<child, joiner, scratch>>,
             \/ task[r].pc = "waiting" /\ GiveUp(r, answer)
             \/ task[r].pc = "woken" /\ GiveBack(r, answer)
             \/ task[r].pc = "reading" /\ Release(r, answer)
      PROVE  IInv'
  <2>1. SemaphoresOK' /\ Moves(r, "done", answer)
    BY <1>0, <1>9, GiveUpKeepsPools, LeaveKeepsPools, ReleaseKeepsPools DEF GiveBack
  <2> QED BY <1>1, <1>2, <1>3, <1>9, <2>1
<1>10. ASSUME NEW answer \in Answers, task[r].pc = "joining", Release(r, answer), CleanUp(r)
       PROVE  IInv'
  <2>1. SemaphoresOK' /\ Moves(r, "done", answer)
    BY <1>0, <1>10, ReleaseKeepsPools
  <2> QED BY <1>1, <1>4, <1>10, <2>1
<1>11. CASE AdmissionTimeout(r)
  BY <1>5, <1>9, <1>11 DEF AdmissionTimeout
<1>12. CASE BodyRefused(r)
  BY <1>5, <1>9, <1>12 DEF BodyRefused
<1>13. CASE Cancel(r)
  BY <1>5, <1>9, <1>10, <1>13 DEF Cancel
<1>14. CASE JobTimeout(r)
  BY <1>5, <1>10, <1>14 DEF JobTimeout
<1>15. CASE Collect(r)
  BY <1>5, <1>10, <1>15 DEF Collect
<1>16. CASE Spawn(r)
  <2>1. /\ task' \in [Requests -> Tasks] /\ task'[r].pc = "joining" /\ task[r].pc = "reading"
        /\ task'[r].endpoint = task[r].endpoint /\ task'[r].answer = task[r].answer
        /\ \A x \in Requests \ {r} : task'[x] = task[x]
        /\ UNCHANGED <<free, waiters>>
    BY <1>0, <1>16 DEF Spawn, TypeOK, Tasks, Holding
  <2>2. SemaphoresOK'
    BY <1>0, <2>1, StillKeepsPools DEF Holding
  <2>3. /\ child'[r].process = "running" /\ joiner'[r] = "queued"
        /\ \A x \in Requests \ {r} : child'[x] = child[x] /\ joiner'[x] = joiner[x]
                                     /\ (x \in scratch' <=> x \in scratch)
    BY <1>0, <1>16 DEF Spawn, TypeOK
  <2>4. ChildrenOK'
    <3>1. ChildOK(r)'
      BY <1>0, <2>1, <2>3 DEF ChildrenOK, ChildOK
    <3>2. ASSUME NEW x \in Requests \ {r} PROVE ChildOK(x)'
      BY <1>0, <2>1, <2>3 DEF ChildrenOK, ChildOK
    <3> QED BY <3>1, <3>2 DEF ChildrenOK
  <2>5. Rest
    BY <1>0, <1>16 DEF Spawn, Rest, TypeOK
  <2> QED BY <1>1, <2>2, <2>4, <2>5
<1>17. CASE Thread(r) \/ Process(r)
  <2>1. UNCHANGED <<free, waiters, task, scratch>>
    BY <1>17 DEF Thread, Process, JoinStarts, JoinReturns, ChildWrites, ChildExits, ChildDies
  <2>2. SemaphoresOK'
    BY <1>0, <2>1, StillKeepsPools DEF SemaphoresOK
  <2>3. CASE Thread(r)
    <3>1. /\ UNCHANGED child
          /\ \A x \in Requests \ {r} : joiner'[x] = joiner[x]
          /\ \/ joiner'[r] \in {"none", "blocked"}
             \/ joiner'[r] = "returned" /\ task[r].pc = "joining" /\ child[r].process # "running"
          /\ joiner' \in [Requests -> {"none", "queued", "blocked", "returned"}]
      BY <1>0, <2>3 DEF Thread, JoinStarts, JoinReturns, TypeOK
    <3>2. ASSUME NEW x \in Requests PROVE ChildOK(x)'
      BY <1>0, <2>1, <3>1 DEF ChildrenOK, ChildOK
    <3>3. ChildrenOK' /\ Rest
      BY <1>0, <2>1, <3>1, <3>2 DEF ChildrenOK, Rest, TypeOK
    <3> QED BY <1>1, <2>2, <3>3
  <2>4. CASE Process(r)
    <3>1. UNCHANGED joiner /\ child[r].process = "running"
      BY <2>4 DEF Process, ChildWrites, ChildExits, ChildDies
    <3>2. task[r].endpoint \in Endpoints
      BY <1>0 DEF TypeOK, Tasks
    <3>3. StatusesOf(task[r].endpoint) \subseteq Statuses
      BY <3>2 DEF StatusesOf, Endpoints, Statuses, PdfStatuses, SymbolStatuses, QueryStatuses
    <3>4. /\ child' \in [Requests -> [process : {"none", "running", "exited", "failed"},
                                      status : Statuses \cup {"none"}]]
          /\ child'[r].process # "none"
          /\ \A x \in Requests \ {r} : child'[x] = child[x]
      <4>1. CASE ChildWrites(r)
        BY <1>0, <3>1, <3>3, <4>1 DEF ChildWrites, TypeOK
      <4>2. CASE ChildExits(r)
        BY <1>0, <4>2 DEF ChildExits, TypeOK
      <4>3. CASE ChildDies(r)
        BY <1>0, <4>3 DEF ChildDies, TypeOK
      <4> QED BY <2>4, <4>1, <4>2, <4>3 DEF Process
    <3>5. Rest
      BY <1>0, <2>1, <3>1, <3>4 DEF Rest, TypeOK
    <3>6. task[r].pc = "joining" /\ joiner[r] # "returned"
      BY <1>0, <3>1 DEF ChildrenOK, ChildOK, NoChild
    <3>7. ASSUME NEW x \in Requests PROVE ChildOK(x)'
      BY <1>0, <2>1, <3>1, <3>4, <3>6 DEF ChildrenOK, ChildOK
    <3>8. ChildrenOK'
      BY <3>7 DEF ChildrenOK
    <3> QED BY <1>1, <2>2, <3>5, <3>8
  <2> QED BY <1>17, <2>3, <2>4
<1> QED BY <1>6, <1>7, <1>8, <1>11, <1>12, <1>13, <1>14, <1>15, <1>16, <1>17
     DEF Handler, Loop

LEMMA NextPreserves == IInv /\ [Next]_vars => IInv'
<1> SUFFICES ASSUME IInv, [Next]_vars PROVE IInv'
  OBVIOUS
<1>1. CASE UNCHANGED vars
  <2>1. TypeOK' /\ ChildrenOK'
    BY <1>1 DEF vars, IInv, TypeOK, ChildrenOK, ChildOK
  <2>2. SemaphoresOK /\ UNCHANGED <<free, waiters, task>>
    BY <1>1 DEF vars, IInv, TypeOK, SemaphoresOK
  <2>3. SemaphoresOK'
    BY <2>2, StillKeepsPools DEF SemaphoresOK
  <2> QED BY <2>1, <2>3 DEF IInv, SemaphoresOK
<1>2. CASE \E r \in Requests : Handler(r) \/ Loop(r) \/ Thread(r) \/ Process(r)
  BY <1>2, StepKeeps
<1> QED BY <1>1, <1>2 DEF Next

\* The invariant holds in every state that the program reaches.
THEOREM Invariance == Spec => []IInv
<1> QED BY InitEstablishes, NextPreserves, PTL DEF Spec

\* The variables keep their types.
THEOREM TypeCorrect == Spec => []TypeOK
<1>1. IInv => TypeOK
  BY DEF IInv
<1> QED BY <1>1, Invariance, PTL

----------------------------------------------------------------------------
(* The properties. *)

LEMMA ConservationFollows == IInv => SlotsAreConserved
<1> SUFFICES ASSUME IInv PROVE SlotsAreConserved
  OBVIOUS
<1>1. ASSUME NEW p \in Pools
      PROVE  LET running == {r \in Requests : child[r].process = "running" /\ Pool(r) = p}
             IN  Cardinality(running) <= Slots[p]
  <2> DEFINE running == {r \in Requests : child[r].process = "running" /\ Pool(r) = p}
  <2>1. running \subseteq Holders(p)
    BY DEF IInv, ChildrenOK, ChildOK, NoChild, Holders, Holding
  <2>2. IsFiniteSet(running) /\ Cardinality(running) <= Cardinality(Holders(p))
    BY <2>1, HoldersAreFinite, FS_Subset
  <2>3. Cardinality(running) \in Nat
    BY <2>2, FS_CardinalityType
  <2>4. free[p] \in Nat /\ free[p] + Cardinality(Holders(p)) = Slots[p]
    BY DEF IInv, TypeOK, PoolsOK, CountOK
  <2> HIDE DEF running
  <2>5. Cardinality(running) <= Slots[p]
    BY <2>2, <2>3, <2>4, HoldersAreFinite
  <2> QED BY <2>5 DEF running
<1>2. \A p \in Pools : CountOK(p) /\ WakeOK(p)
  BY DEF IInv, PoolsOK
<1>3. \A r \in Requests : task[r].pc = "done" => child[r].process # "running" /\ r \notin scratch
  BY DEF IInv, ChildrenOK, ChildOK, NoChild
<1> QED BY <1>1, <1>2, <1>3 DEF SlotsAreConserved, CountOK, WakeOK, Holders

\* However the requests of a pool are refused, delayed, cancelled and answered, its
\* slots are conserved and no wake-up is lost.
THEOREM Conservation == Spec => []SlotsAreConserved
BY ConservationFollows, Invariance, PTL

\* An answer that says something of the document is given by Collect alone, and
\* Collect reads it off a child that has ended.
LEMMA AnswersAreRead ==
    ASSUME IInv, [Next]_vars, NEW x \in Requests, task[x].pc # "done"
    PROVE  /\ task'[x].answer \in {"200", "409", "422"} => child[x].process = "exited"
           /\ task'[x].answer = "200" => child[x].status = "ok"
           /\ task'[x].answer = "409" => child[x].status = "ambiguous_identity"
           /\ task'[x].answer = "422" => child[x].status \in {"retrieval_error", "rejected"}
<1> DEFINE Silent == task'[x].answer \in {"none", "503", "504"}
<1>0. SemaphoresOK /\ TypeOK /\ ChildrenOK /\ task[x].answer = "none"
  BY DEF IInv, TypeOK, SemaphoresOK, ChildrenOK, ChildOK
<1>1. CASE UNCHANGED vars \/ Silent
  BY <1>0, <1>1 DEF vars
<1>2. ASSUME NEW r \in Requests, Handler(r) \/ Loop(r) \/ Thread(r) \/ Process(r)
      PROVE  Silent \/ (x = r /\ task'[x].answer = Answer(r) /\ Collect(r))
  <2>1. ASSUME NEW pc, NEW answer, Moves(r, pc, answer)
        PROVE  (task'[x].answer = answer /\ x = r) \/ Silent
    BY <1>0, <2>1 DEF Moves
  <2>2. "none" \in Answers /\ "503" \in Answers /\ "504" \in Answers /\ Answer(r) \in Answers
    <3>1. task[r].endpoint \in Endpoints
      BY <1>0 DEF TypeOK, Tasks
    <3> QED BY <3>1 DEF Answers, Answer, Endpoints, SymbolEvidence, CompileUploadedSymbol,
          QueryRegions, RunPdfJob, RunSymbolJob, RunQueryJob
  <2>3. CASE Refuse(r) \/ Spawn(r) \/ Thread(r) \/ Process(r)
    BY <1>0, <2>3 DEF Refuse, Spawn, Thread, Process, JoinStarts, JoinReturns, ChildWrites,
       ChildExits, ChildDies, TypeOK, Tasks
  <2>4. CASE Acquire(r)
    BY <1>0, <2>1, <2>4, AcquireKeepsPools
  <2>5. CASE Resume(r)
    BY <1>0, <2>1, <2>2, <2>5, LeaveKeepsPools DEF Resume
  <2>6. ASSUME NEW answer \in Answers,
               \/ task[r].pc = "waiting" /\ GiveUp(r, answer)
               \/ task[r].pc = "woken" /\ GiveBack(r, answer)
               \/ task[r].pc \in {"reading", "joining"} /\ Release(r, answer)
        PROVE  (task'[x].answer = answer /\ x = r) \/ Silent
    BY <1>0, <2>1, <2>6, GiveUpKeepsPools, LeaveKeepsPools, ReleaseKeepsPools DEF GiveBack
  <2>7. CASE AdmissionTimeout(r)
    BY <2>2, <2>6, <2>7 DEF AdmissionTimeout
  <2>8. CASE BodyRefused(r) \/ Cancel(r) \/ JobTimeout(r)
    BY <2>2, <2>6, <2>8 DEF BodyRefused, Cancel, JobTimeout
  <2>9. CASE Collect(r)
    BY <2>2, <2>6, <2>9 DEF Collect
  <2> QED BY <1>2, <2>3, <2>4, <2>5, <2>7, <2>8, <2>9 DEF Handler, Loop
<1>3. CASE task'[x].answer = Answer(x) /\ Collect(x)
  <2>1. child[x].process # "running" /\ task[x].endpoint \in Endpoints
    BY <1>0, <1>3 DEF Collect, ChildrenOK, ChildOK, TypeOK, Tasks
  <2>2. /\ Answer(x) \in {"200", "409", "422"} => child[x].process = "exited"
        /\ Answer(x) = "200" => child[x].status = "ok"
        /\ Answer(x) = "409" => child[x].status = "ambiguous_identity"
        /\ Answer(x) = "422" => child[x].status \in {"retrieval_error", "rejected"}
    BY <2>1 DEF Answer, Endpoints, SymbolEvidence, CompileUploadedSymbol, QueryRegions,
       RunPdfJob, RunSymbolJob, RunQueryJob, Left
  <2> QED BY <1>3, <2>2
<1> QED BY <1>1, <1>2, <1>3 DEF Next

\* No handler answers for a child that was killed, or with another status than the
\* one the child left.
THEOREM ChildrenAnswer == Spec => AnswersAreTheChilds
<1>1. IInv /\ [Next]_vars =>
        [\A r \in Requests :
            task[r].pc # "done" =>
              /\ task'[r].answer \in {"200", "409", "422"} => child[r].process = "exited"
              /\ task'[r].answer = "200" => child[r].status = "ok"
              /\ task'[r].answer = "409" => child[r].status = "ambiguous_identity"
              /\ task'[r].answer = "422" => child[r].status \in {"retrieval_error", "rejected"}]_vars
  BY AnswersAreRead
<1> QED BY <1>1, Invariance, PTL DEF Spec, AnswersAreTheChilds

=============================================================================
