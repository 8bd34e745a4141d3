--------------------------- MODULE OfflineProofs ---------------------------
(***************************************************************************)
(* Proofs about the components of OfflineWork: what each keeps at every    *)
(* step of its own, and with it the properties of the composition.         *)
(*                                                                         *)
(* For each component there is an invariant (...OK), the fact that it      *)
(* begins in it (...Init), that its steps keep it (...Step), and what      *)
(* follows from it.  A step of the composition is one of the subject and   *)
(* leaves the others alone (StepsOf), so the conjunction is inductive for  *)
(* any number of callers, documents, plans, commands and revisions.        *)
(***************************************************************************)
EXTENDS OfflineWork, FiniteSetTheorems, FunctionTheorems, TLAPS

(***************************************************************************)
(* The object store.  A key that is given to somebody is never free again: *)
(* nothing removes an object, and damage leaves it there.                  *)
(***************************************************************************)

\* An object is whole or was damaged, and who looks at one or returns it has it there.
ObjectsOK ==
    /\ Obj!TypeOK
    /\ \A b \in Obj!Backends, k \in Keys :
          object[b][k] \in {"absent", "whole"} \cup IF damage = 0 THEN {} ELSE {"damaged"}
    /\ \A c \in Obj!Calls :
          /\ call[c].pc = "write" => c \in LocalCalls
          /\ call[c].pc \in {"compare", "unlink", "returned"} => Obj!Stored(c) # "absent"
          /\ call[c].pc = "integrity" => damage # 0

\* Before any call there is no object, and nobody looks at one.
LEMMA ObjectsInit == Obj!Init => ObjectsOK
BY ObjectCallsAssumption
   DEF Obj!Init, ObjectsOK, Obj!TypeOK, Obj!Backends, Obj!Contents, Obj!Ends

\* No step of put, of get or of a disk takes an object away from who was given its key.
LEMMA ObjectsStep == ObjectsOK /\ [Obj!Next]_objects => ObjectsOK'
<1> SUFFICES ASSUME ObjectsOK, [Obj!Next]_objects PROVE ObjectsOK'
  OBVIOUS
<1> USE DEF Obj!TypeOK, Obj!Backends, Obj!Contents, Obj!Ends
<1>1. CASE UNCHANGED objects
  BY <1>1 DEF objects, ObjectsOK, Obj!Stored
<1>2. ASSUME NEW c \in Obj!Calls, Obj!Put(c) PROVE ObjectsOK'
  <2> USE DEF Obj!Goto, Obj!Store, Obj!Stored
  <2>1. Obj!BackendOf(c) \in Obj!Backends
    BY DEF Obj!BackendOf
  <2>2. CASE Obj!PutObject(c)
    <3>1. CASE Obj!Stored(c) = "absent"
      <4>1. /\ object' = [object EXCEPT ![Obj!BackendOf(c)][call[c].key] = "whole"]
            /\ \E to \in {"returned", "request"} : call' = [call EXCEPT ![c].pc = to]
            /\ UNCHANGED <<temporary, damage>>
        BY <2>2, <3>1 DEF Obj!PutObject
      <4> QED BY <2>1, <4>1 DEF ObjectsOK
    <3>2. CASE Obj!Stored(c) # "absent"
      BY <2>2, <3>2 DEF Obj!PutObject, ObjectsOK
    <3> QED BY <3>1, <3>2
  <2>3. CASE Obj!Replace(c)
    BY <2>1, <2>3 DEF Obj!Replace, ObjectsOK
  <2>4. CASE Obj!Verify(c)
    BY <2>1, <2>4 DEF Obj!Verify, ObjectsOK
  <2>5. CASE Obj!Compare(c)
    BY <2>1, <2>5 DEF Obj!Compare, ObjectsOK
  <2>6. CASE \/ Obj!Exists(c) \/ Obj!WriteTemporary(c) \/ Obj!WriteFails(c) \/ Obj!Unlink(c)
             \/ Obj!Repeat(c) \/ Obj!Conflict(c) \/ Obj!Kill(c)
    BY <2>1, <2>6 DEF Obj!Exists, Obj!WriteTemporary, Obj!WriteFails, Obj!Unlink, Obj!Repeat,
       Obj!Conflict, Obj!Kill, ObjectsOK
  <2> QED BY <1>2, <2>2, <2>3, <2>4, <2>5, <2>6 DEF Obj!Put
<1>3. ASSUME NEW b \in Obj!Backends, NEW k \in Keys, Obj!Damage(b, k) PROVE ObjectsOK'
  BY <1>3, ObjectCallsAssumption DEF Obj!Damage, ObjectsOK, Obj!Stored
<1> QED BY <1>1, <1>2, <1>3 DEF Obj!Next

\* Who has a reference finds its object, damaged at worst.
LEMMA ObjectsResolve == ObjectsOK => ReturnedReferencesResolve
<1> SUFFICES ASSUME ObjectsOK PROVE ReturnedReferencesResolve
  OBVIOUS
<1>1. ASSUME NEW c \in Obj!Calls, call[c].pc = "returned"
      PROVE  /\ Obj!ReadVerified(Obj!BackendOf(c), call[c].key) # "missing"
             /\ damage = 0 => Obj!ReadVerified(Obj!BackendOf(c), call[c].key) = "payload"
  <2>1. Obj!BackendOf(c) \in Obj!Backends /\ call[c].key \in Keys
    BY DEF Obj!BackendOf, Obj!Backends, ObjectsOK, Obj!TypeOK
  <2>2. Obj!Stored(c) # "absent" /\ (damage = 0 => Obj!Stored(c) = "whole")
    BY <1>1, <2>1 DEF ObjectsOK, Obj!Stored
  <2> QED BY <2>2 DEF Obj!ReadVerified, Obj!Stored
<1> QED BY <1>1 DEF ObjectsOK, ReturnedReferencesResolve, Obj!ReturnedReferencesResolve

(***************************************************************************)
(* The vector index.  A batch that is missing is one that a rebuild has    *)
(* still before it, or the loss of a call that failed or of a drop; a      *)
(* payload index that is missing has its only creator at work, dead or     *)
(* started again.                                                          *)
(***************************************************************************)

\* The batches that caller c has still before it.
StillWrites(c, b) ==
    \/ caller[c].pc \in {"exists", "delete", "ensure", "create", "index"}
    \/ caller[c].pc = "upsert" /\ caller[c].at <= b

CallerOK(c) ==
    /\ caller[c].pc \in {"ensure", "create", "index", "upsert"} => c \in Rebuilders
    /\ caller[c].pc = "upsert" => caller[c].at \in 1..PackBatches
    /\ caller[c].pc \in {"upsert", "done"} /\ c \in Rebuilders =>
          payloadIndexes # Vec!NoCollection
    /\ caller[c].pc # "idle" => caller[c].starts >= 1

\* Who creates payload indexes is the only one, and ends with the last of them.
OneCreates ==
    \A c \in Vec!Callers :
        caller[c].pc = "index" =>
            /\ payloadIndexes < Vec!AllIndexes
            /\ \A d \in Vec!Callers \ {c} : caller[d].pc # "index"

\* An index is missing while it is being created or if its creator has failed.
CreatorIsKnown ==
    payloadIndexes < Vec!AllIndexes =>
        \E c \in Vec!Callers : caller[c].pc \in {"index", "dead"} \/ caller[c].starts >= 2

\* Without drops nothing is missing once a rebuild has begun but what a rebuild still
\* writes or what one that failed has left out.
MissingOK ==
    (/\ \A d \in Droppers : caller[d].pc = "idle"
     /\ \E r \in Rebuilders : caller[r].pc # "idle") =>
        \A b \in 1..PackBatches :
            points[b] = Vec!Absent =>
                \E r \in Rebuilders : caller[r].pc = "dead" \/ StillWrites(r, b)

\* Since a caller that started alone nobody else did anything.
AloneOK ==
    alone # Vec!Absent =>
        /\ \A c \in Vec!Callers \ {alone} : caller[c].pc \in {"idle", "done", "dead"}
        /\ alone \in Rebuilders =>
              \A b \in 1..PackBatches :
                  (\/ caller[alone].pc = "upsert" /\ b < caller[alone].at
                   \/ caller[alone].pc = "done") => points[b] = alone

VectorsOK ==
    /\ Vec!TypeOK
    /\ \A c \in Vec!Callers : CallerOK(c)
    /\ OneCreates
    /\ CreatorIsKnown
    /\ MissingOK
    /\ AloneOK

\* Before any call every batch and payload index is missing.
LEMMA VectorsInit == Vec!Init => VectorsOK
BY IndexCallersAssumption
   DEF Vec!Init, VectorsOK, Vec!TypeOK, Vec!Steps, Vec!Callers, Vec!AllIndexes,
       Vec!NoCollection, Vec!Absent, CallerOK, OneCreates, CreatorIsKnown, MissingOK, AloneOK

\* Caller c is now at pc, with its next batch and its starts; the others are where they were.
Moved(c, pc, at, starts) ==
    /\ caller'[c].pc = pc /\ caller'[c].at = at /\ caller'[c].starts = starts
    /\ \A d \in Vec!Callers \ {c} : caller'[d] = caller[d]

CallersTyped ==
    caller \in [Vec!Callers -> [pc : Vec!Steps, at : 0..(PackBatches + Vec!AllIndexes),
                                 starts : 0..MaxCallerStarts]]

\* The names of the steps of a rebuild and of a drop.
LEMMA StepNames ==
    /\ {"exists", "delete", "ensure", "create", "index", "upsert", "done", "dead"} \subseteq Vec!Steps
    /\ \A c \in Vec!Callers : Vec!AfterDrop(c) \in Vec!Steps
    /\ {0, 1} \subseteq 0..(PackBatches + Vec!AllIndexes)
BY IndexCallersAssumption DEF Vec!Steps, Vec!AfterDrop, Vec!AllIndexes

\* A step moves the one caller that takes it, and keeps what it has done so far.
LEMMA GotoMoves ==
    ASSUME VectorsOK, NEW c \in Vec!Callers, NEW from, NEW to \in Vec!Steps,
           NEW at \in 0..(PackBatches + Vec!AllIndexes), Vec!Goto(c, from, to, at)
    PROVE  caller[c].pc = from /\ Moved(c, to, at, caller[c].starts) /\ CallersTyped'
<1> DEFINE Record == [pc : Vec!Steps, at : 0..(PackBatches + Vec!AllIndexes),
                      starts : 0..MaxCallerStarts]
<1>1. caller \in [Vec!Callers -> Record]
  BY DEF VectorsOK, Vec!TypeOK
<1>2. caller[c].pc = from /\ caller' = [caller EXCEPT ![c] = [@ EXCEPT !.pc = to, !.at = at]]
  BY DEF Vec!Goto
<1>3. [caller[c] EXCEPT !.pc = to, !.at = at] \in Record
  BY <1>1
<1>4. caller' \in [Vec!Callers -> Record]
  BY <1>1, <1>2, <1>3
<1> QED BY <1>1, <1>2, <1>4 DEF Moved, CallersTyped

\* No step of a rebuild or of a drop leaves a gap that nobody is about to close.
LEMMA VectorsStep == VectorsOK /\ [Vec!Next]_vectors => VectorsOK'
<1> SUFFICES ASSUME VectorsOK, [Vec!Next]_vectors PROVE VectorsOK'
  OBVIOUS
<1> USE IndexCallersAssumption
    DEF Vec!AllIndexes, Vec!NoCollection, Vec!Absent
<1>1. CASE UNCHANGED vectors
  BY <1>1
     DEF vectors, VectorsOK, Vec!TypeOK, Vec!Steps, Vec!Callers, CallerOK, OneCreates,
         CreatorIsKnown, MissingOK, AloneOK, StillWrites
<1>2. ASSUME NEW c \in Vec!Callers,
             \/ Vec!Start(c) \/ Vec!DropExists(c) \/ Vec!DropPack(c) \/ Vec!EnsureExists(c)
             \/ Vec!CreateCollection(c) \/ Vec!CreatePayloadIndex(c) \/ Vec!IndexPack(c)
             \/ Vec!Fail(c)
      PROVE  VectorsOK'
  <2>1. \A d \in Vec!Callers : caller[d].starts \in Nat /\ caller[d].at \in Nat
    BY DEF VectorsOK, Vec!TypeOK
  <2>0. payloadIndexes \in 0..Vec!AllIndexes \cup {Vec!NoCollection}
    BY DEF VectorsOK, Vec!TypeOK
  <2>2. /\ points \in [1..PackBatches -> Rebuilders \cup {Vec!Absent}]
        /\ alone \in Vec!Callers \cup {Vec!Absent}
    BY DEF VectorsOK, Vec!TypeOK
  <2>3. \A d \in Vec!Callers : CallerOK(d)
    BY DEF VectorsOK
  <2>4. OneCreates /\ CreatorIsKnown
    BY DEF VectorsOK
  <2>5. MissingOK
    BY DEF VectorsOK
  <2>6. AloneOK
    BY DEF VectorsOK
  <2>7. /\ c \in Rebuilders \/ c \in Droppers
        /\ \A r \in Rebuilders : r \in Vec!Callers /\ r # Vec!Absent
        /\ \A d \in Droppers : d \in Vec!Callers /\ d \notin Rebuilders
    BY DEF Vec!Callers
  <2>8. CASE Vec!Start(c)
    <3>1. /\ caller[c].pc \in {"idle", "done", "dead"}
          /\ Moved(c, "exists", 0, caller[c].starts + 1)
          /\ alone' = IF Vec!Busy = {} THEN c ELSE Vec!Absent
          /\ UNCHANGED <<payloadIndexes, points>>
          /\ CallersTyped'
      <4>1. caller[c].starts + 1 \in 0..MaxCallerStarts
        BY <2>1, <2>8 DEF Vec!Start, VectorsOK
      <4>2. /\ caller \in [Vec!Callers -> [pc : Vec!Steps, at : 0..(PackBatches + Vec!AllIndexes),
                                           starts : 0..MaxCallerStarts]]
            /\ caller' = [caller EXCEPT ![c] = [pc |-> "exists", at |-> 0,
                                                starts |-> caller[c].starts + 1]]
        BY <2>8 DEF Vec!Start, VectorsOK, Vec!TypeOK
      <4>3. [pc |-> "exists", at |-> 0, starts |-> caller[c].starts + 1]
               \in [pc : Vec!Steps, at : 0..(PackBatches + Vec!AllIndexes),
                    starts : 0..MaxCallerStarts]
        BY <4>1, StepNames
      <4>4. CallersTyped'
        BY <4>2, <4>3 DEF CallersTyped
      <4> QED BY <2>8, <4>2, <4>4 DEF Vec!Start, Moved
    <3>2. Vec!TypeOK'
      BY <2>0, <2>1, <2>2, <2>3, <2>4, <2>7, <3>1
         DEF Vec!TypeOK, CallersTyped, OneCreates, CallerOK
    <3>3. \A d \in Vec!Callers : CallerOK(d)'
      BY <2>0, <2>1, <2>3, <2>7, <3>1 DEF CallerOK, Moved, Vec!AfterDrop
    <3>4. OneCreates'
      BY <2>0, <2>4, <3>1 DEF OneCreates, Moved, Vec!AfterDrop
    <3>5. CreatorIsKnown'
      BY <2>0, <2>1, <2>3, <2>4, <3>1 DEF CreatorIsKnown, CallerOK, Moved, Vec!AfterDrop
    <3>6. MissingOK'
      BY <2>0, <2>1, <2>2, <2>3, <2>5, <2>7, <3>1
         DEF CallerOK, MissingOK, StillWrites, Moved, Vec!AfterDrop
    <3>7. AloneOK'
      BY <2>1, <2>2, <2>6, <2>7, <3>1 DEF AloneOK, Moved, Vec!AfterDrop, Vec!Busy
    <3> QED BY <3>2, <3>3, <3>4, <3>5, <3>6, <3>7 DEF VectorsOK
  <2>9. CASE Vec!DropExists(c)
    <3>1. /\ caller[c].pc = "exists"
          /\ \/ Moved(c, "delete", 0, caller[c].starts)
             \/ Moved(c, Vec!AfterDrop(c), 0, caller[c].starts)
          /\ UNCHANGED <<payloadIndexes, points, alone>>
          /\ CallersTyped'
      <4>1. Vec!Goto(c, "exists", "delete", 0) \/ Vec!Goto(c, "exists", Vec!AfterDrop(c), 0)
        BY <2>9 DEF Vec!DropExists
      <4>2. UNCHANGED <<payloadIndexes, points, alone>>
        BY <2>9 DEF Vec!DropExists
      <4> QED BY <4>1, <4>2, GotoMoves, StepNames
    <3>2. Vec!TypeOK'
      BY <2>0, <2>1, <2>2, <2>3, <2>4, <2>7, <3>1
         DEF Vec!TypeOK, CallersTyped, OneCreates, CallerOK
    <3>3. \A d \in Vec!Callers : CallerOK(d)'
      BY <2>0, <2>1, <2>3, <2>7, <3>1 DEF CallerOK, Moved, Vec!AfterDrop
    <3>4. OneCreates'
      BY <2>0, <2>4, <3>1 DEF OneCreates, Moved, Vec!AfterDrop
    <3>5. CreatorIsKnown'
      BY <2>0, <2>1, <2>3, <2>4, <3>1 DEF CreatorIsKnown, CallerOK, Moved, Vec!AfterDrop
    <3>6. MissingOK'
      BY <2>0, <2>1, <2>2, <2>3, <2>5, <2>7, <3>1
         DEF CallerOK, MissingOK, StillWrites, Moved, Vec!AfterDrop
    <3>7. AloneOK'
      BY <2>1, <2>2, <2>6, <2>7, <3>1 DEF AloneOK, Moved, Vec!AfterDrop, Vec!Busy
    <3> QED BY <3>2, <3>3, <3>4, <3>5, <3>6, <3>7 DEF VectorsOK
  <2>10. CASE Vec!DropPack(c)
    <3>1. /\ caller[c].pc = "delete"
          /\ Moved(c, Vec!AfterDrop(c), 0, caller[c].starts)
          /\ points' = [b \in 1..PackBatches |-> Vec!Absent]
          /\ UNCHANGED <<payloadIndexes, alone>>
          /\ CallersTyped'
      BY <2>0, <2>1, <2>3, <2>10, GotoMoves, StepNames DEF Vec!DropPack
    <3>2. Vec!TypeOK'
      BY <2>0, <2>1, <2>2, <2>3, <2>4, <2>7, <3>1
         DEF Vec!TypeOK, CallersTyped, OneCreates, CallerOK
    <3>3. \A d \in Vec!Callers : CallerOK(d)'
      BY <2>0, <2>1, <2>3, <2>7, <3>1 DEF CallerOK, Moved, Vec!AfterDrop
    <3>4. OneCreates'
      BY <2>0, <2>4, <3>1 DEF OneCreates, Moved, Vec!AfterDrop
    <3>5. CreatorIsKnown'
      BY <2>0, <2>1, <2>3, <2>4, <3>1 DEF CreatorIsKnown, CallerOK, Moved, Vec!AfterDrop
    <3>6. MissingOK'
      BY <2>0, <2>1, <2>2, <2>3, <2>5, <2>7, <3>1
         DEF CallerOK, MissingOK, StillWrites, Moved, Vec!AfterDrop
    <3>7. AloneOK'
      BY <2>1, <2>2, <2>6, <2>7, <3>1 DEF AloneOK, Moved, Vec!AfterDrop, Vec!Busy
    <3> QED BY <3>2, <3>3, <3>4, <3>5, <3>6, <3>7 DEF VectorsOK
  <2>11. CASE Vec!EnsureExists(c)
    <3>1. /\ caller[c].pc = "ensure"
          /\ IF payloadIndexes = Vec!NoCollection THEN Moved(c, "create", 0, caller[c].starts)
                         ELSE Moved(c, "upsert", 1, caller[c].starts)
          /\ UNCHANGED <<payloadIndexes, points, alone>>
          /\ CallersTyped'
      BY <2>0, <2>1, <2>3, <2>11, GotoMoves, StepNames DEF Vec!EnsureExists
    <3>2. Vec!TypeOK'
      BY <2>0, <2>1, <2>2, <2>3, <2>4, <2>7, <3>1
         DEF Vec!TypeOK, CallersTyped, OneCreates, CallerOK
    <3>3. \A d \in Vec!Callers : CallerOK(d)'
      BY <2>0, <2>1, <2>3, <2>7, <3>1 DEF CallerOK, Moved, Vec!AfterDrop
    <3>4. OneCreates'
      BY <2>0, <2>4, <3>1 DEF OneCreates, Moved, Vec!AfterDrop
    <3>5. CreatorIsKnown'
      BY <2>0, <2>1, <2>3, <2>4, <3>1 DEF CreatorIsKnown, CallerOK, Moved, Vec!AfterDrop
    <3>6. MissingOK'
      BY <2>0, <2>1, <2>2, <2>3, <2>5, <2>7, <3>1
         DEF CallerOK, MissingOK, StillWrites, Moved, Vec!AfterDrop
    <3>7. AloneOK'
      BY <2>1, <2>2, <2>6, <2>7, <3>1 DEF AloneOK, Moved, Vec!AfterDrop, Vec!Busy
    <3> QED BY <3>2, <3>3, <3>4, <3>5, <3>6, <3>7 DEF VectorsOK
  <2>12. CASE Vec!CreateCollection(c)
    <3>1. /\ caller[c].pc = "create"
          /\ IF payloadIndexes = Vec!NoCollection
            THEN Moved(c, "index", 0, caller[c].starts) /\ payloadIndexes' = 0
            ELSE Moved(c, "dead", 0, caller[c].starts) /\ UNCHANGED payloadIndexes
          /\ UNCHANGED <<points, alone>>
          /\ CallersTyped'
      BY <2>0, <2>1, <2>3, <2>12, GotoMoves, StepNames DEF Vec!CreateCollection
    <3>2. Vec!TypeOK'
      BY <2>0, <2>1, <2>2, <2>3, <2>4, <2>7, <3>1
         DEF Vec!TypeOK, CallersTyped, OneCreates, CallerOK
    <3>3. \A d \in Vec!Callers : CallerOK(d)'
      BY <2>0, <2>1, <2>3, <2>7, <3>1 DEF CallerOK, Moved, Vec!AfterDrop
    <3>4. OneCreates'
      BY <2>0, <2>4, <3>1 DEF OneCreates, Moved, Vec!AfterDrop
    <3>5. CreatorIsKnown'
      BY <2>0, <2>1, <2>3, <2>4, <3>1 DEF CreatorIsKnown, CallerOK, Moved, Vec!AfterDrop
    <3>6. MissingOK'
      BY <2>0, <2>1, <2>2, <2>3, <2>5, <2>7, <3>1
         DEF CallerOK, MissingOK, StillWrites, Moved, Vec!AfterDrop
    <3>7. AloneOK'
      BY <2>1, <2>2, <2>6, <2>7, <3>1 DEF AloneOK, Moved, Vec!AfterDrop, Vec!Busy
    <3> QED BY <3>2, <3>3, <3>4, <3>5, <3>6, <3>7 DEF VectorsOK
  <2>13. CASE Vec!CreatePayloadIndex(c)
    <3>1. /\ caller[c].pc = "index"
          /\ payloadIndexes' = payloadIndexes + 1
          /\ IF payloadIndexes + 1 = Vec!AllIndexes THEN Moved(c, "upsert", 1, caller[c].starts)
                                        ELSE Moved(c, "index", 0, caller[c].starts)
          /\ UNCHANGED <<points, alone>>
          /\ CallersTyped'
      BY <2>0, <2>1, <2>3, <2>13, GotoMoves, StepNames DEF Vec!CreatePayloadIndex
    <3>2. Vec!TypeOK'
      BY <2>0, <2>1, <2>2, <2>3, <2>4, <2>7, <3>1
         DEF Vec!TypeOK, CallersTyped, OneCreates, CallerOK
    <3>3. \A d \in Vec!Callers : CallerOK(d)'
      BY <2>0, <2>1, <2>3, <2>7, <3>1 DEF CallerOK, Moved, Vec!AfterDrop
    <3>4. OneCreates'
      BY <2>0, <2>4, <3>1 DEF OneCreates, Moved, Vec!AfterDrop
    <3>5. CreatorIsKnown'
      BY <2>0, <2>1, <2>3, <2>4, <3>1 DEF CreatorIsKnown, CallerOK, Moved, Vec!AfterDrop
    <3>6. MissingOK'
      BY <2>0, <2>1, <2>2, <2>3, <2>5, <2>7, <3>1
         DEF CallerOK, MissingOK, StillWrites, Moved, Vec!AfterDrop
    <3>7. AloneOK'
      BY <2>1, <2>2, <2>6, <2>7, <3>1 DEF AloneOK, Moved, Vec!AfterDrop, Vec!Busy
    <3> QED BY <3>2, <3>3, <3>4, <3>5, <3>6, <3>7 DEF VectorsOK
  <2>14. CASE Vec!IndexPack(c)
    <3>1. /\ caller[c].pc = "upsert"
          /\ points' = [points EXCEPT ![caller[c].at] = c]
          /\ IF caller[c].at = PackBatches THEN Moved(c, "done", 0, caller[c].starts)
                                  ELSE Moved(c, "upsert", caller[c].at + 1, caller[c].starts)
          /\ UNCHANGED <<payloadIndexes, alone>>
          /\ CallersTyped'
      <4>1. caller[c].pc = "upsert" => caller[c].at + 1 \in 0..(PackBatches + Vec!AllIndexes)
        BY <2>1, <2>3 DEF CallerOK
      <4> QED BY <2>0, <2>1, <2>3, <2>14, GotoMoves, StepNames, <4>1 DEF Vec!IndexPack
    <3>2. Vec!TypeOK'
      BY <2>0, <2>1, <2>2, <2>3, <2>4, <2>7, <3>1
         DEF Vec!TypeOK, CallersTyped, OneCreates, CallerOK
    <3>3. \A d \in Vec!Callers : CallerOK(d)'
      BY <2>0, <2>1, <2>3, <2>7, <3>1 DEF CallerOK, Moved, Vec!AfterDrop
    <3>4. OneCreates'
      BY <2>0, <2>4, <3>1 DEF OneCreates, Moved, Vec!AfterDrop
    <3>5. CreatorIsKnown'
      BY <2>0, <2>1, <2>3, <2>4, <3>1 DEF CreatorIsKnown, CallerOK, Moved, Vec!AfterDrop
    <3>6. MissingOK'
      BY <2>0, <2>1, <2>2, <2>3, <2>5, <2>7, <3>1
         DEF CallerOK, MissingOK, StillWrites, Moved, Vec!AfterDrop
    <3>7. AloneOK'
      BY <2>1, <2>2, <2>6, <2>7, <3>1 DEF AloneOK, Moved, Vec!AfterDrop, Vec!Busy
    <3> QED BY <3>2, <3>3, <3>4, <3>5, <3>6, <3>7 DEF VectorsOK
  <2>15. CASE Vec!Fail(c)
    <3>1. /\ caller[c].pc \notin {"idle", "done", "dead"}
          /\ Moved(c, "dead", 0, caller[c].starts)
          /\ UNCHANGED <<payloadIndexes, points, alone>>
          /\ CallersTyped'
      <4>1. Vec!Goto(c, caller[c].pc, "dead", 0)
        BY <2>15 DEF Vec!Fail, Vec!Goto
      <4>2. caller[c].pc \notin {"idle", "done", "dead"} /\ UNCHANGED <<payloadIndexes, points, alone>>
        BY <2>15 DEF Vec!Fail
      <4> QED BY <4>1, <4>2, GotoMoves, StepNames
    <3>2. Vec!TypeOK'
      BY <2>0, <2>1, <2>2, <2>3, <2>4, <2>7, <3>1
         DEF Vec!TypeOK, CallersTyped, OneCreates, CallerOK
    <3>3. \A d \in Vec!Callers : CallerOK(d)'
      BY <2>0, <2>1, <2>3, <2>7, <3>1 DEF CallerOK, Moved, Vec!AfterDrop
    <3>4. OneCreates'
      BY <2>0, <2>4, <3>1 DEF OneCreates, Moved, Vec!AfterDrop
    <3>5. CreatorIsKnown'
      BY <2>0, <2>1, <2>3, <2>4, <3>1 DEF CreatorIsKnown, CallerOK, Moved, Vec!AfterDrop
    <3>6. MissingOK'
      BY <2>0, <2>1, <2>2, <2>3, <2>5, <2>7, <3>1
         DEF CallerOK, MissingOK, StillWrites, Moved, Vec!AfterDrop
    <3>7. AloneOK'
      BY <2>1, <2>2, <2>6, <2>7, <3>1 DEF AloneOK, Moved, Vec!AfterDrop, Vec!Busy
    <3> QED BY <3>2, <3>3, <3>4, <3>5, <3>6, <3>7 DEF VectorsOK
  <2> QED BY <1>2, <2>8, <2>9, <2>10, <2>11, <2>12, <2>13, <2>14, <2>15
<1> QED BY <1>1, <1>2 DEF Vec!Next

\* When nobody is at work and no call stayed failed, no gap is left.
LEMMA VectorsRestore == VectorsOK => RebuildRestoresTheIndex
<1> SUFFICES ASSUME VectorsOK PROVE RebuildRestoresTheIndex
  OBVIOUS
<1> USE DEF Vec!Absent
<1>0. /\ PackBatches \in Nat \ {0}
      /\ payloadIndexes \in 0..Vec!AllIndexes \cup {Vec!NoCollection}
      /\ \A r \in Rebuilders : r \in Vec!Callers /\ r # Vec!Absent
  BY IndexCallersAssumption DEF VectorsOK, Vec!TypeOK, Vec!Callers
<1>1. ASSUME Vec!Busy = {}, NEW r \in Rebuilders, caller[r].pc = "done",
             \A c \in Vec!Callers : caller[c].pc # "dead",
             \A c \in Droppers : caller[c].pc = "idle"
      PROVE  /\ DOMAIN Vec!SearchDense = 1..PackBatches
             /\ (\A c \in Vec!Callers : caller[c].starts <= 1) =>
                   payloadIndexes = Vec!AllIndexes
  <2>1. \A c \in Vec!Callers : caller[c].pc \in {"idle", "done"}
    BY <1>1 DEF Vec!Busy
  <2>2. \A b \in 1..PackBatches : points[b] # Vec!Absent
    BY <1>0, <1>1, <2>1 DEF VectorsOK, MissingOK, StillWrites
  <2>3. DOMAIN Vec!SearchDense = 1..PackBatches
    BY <2>2 DEF Vec!SearchDense
  <2>4. payloadIndexes # Vec!NoCollection
    BY <1>0, <1>1 DEF VectorsOK, CallerOK
  <2>5. ASSUME \A c \in Vec!Callers : caller[c].starts <= 1 PROVE payloadIndexes = Vec!AllIndexes
    <3>1. \A c \in Vec!Callers : caller[c].starts \in Nat
      BY DEF VectorsOK, Vec!TypeOK
    <3>2. ~ (payloadIndexes < Vec!AllIndexes)
      BY <2>1, <2>5, <3>1 DEF VectorsOK, CreatorIsKnown
    <3> QED BY <1>0, <2>4, <3>2 DEF Vec!AllIndexes, Vec!NoCollection
  <2> QED BY <2>3, <2>5
<1>2. ASSUME alone \in Rebuilders, caller[alone].pc = "done"
      PROVE  Vec!SearchDense = [b \in 1..PackBatches |-> alone]
  <2>1. \A b \in 1..PackBatches : points[b] = alone /\ alone # Vec!Absent
    BY <1>0, <1>2 DEF VectorsOK, AloneOK
  <2>2. {b \in 1..PackBatches : points[b] # Vec!Absent} = 1..PackBatches
    BY <2>1
  <2> QED BY <2>1, <2>2 DEF Vec!SearchDense
<1> QED BY <1>1, <1>2 DEF RebuildRestoresTheIndex, Vec!RebuildRestoresTheIndex, Vec!Busy

(***************************************************************************)
(* Downloads and models.                                                   *)
(***************************************************************************)

\* Only a complete staging directory is moved to the destination, who verifies the model
\* there has installed it, and who pauses has an attempt left.
ModelsOK ==
    /\ Mod!TypeOK
    /\ \A a \in Acquirers : acquire[a].pc = "replace" => acquire[a].staged = ModelFiles
    /\ \A a \in Acquirers : acquire[a].pc = "verify" => destination = a
    /\ \A f \in Fetchers : fetch[f].pc = "sleep" => fetch[f].attempt < MaxAttempts

\* At the beginning nobody has read, staged or waited.
LEMMA ModelsInit == Mod!Init => ModelsOK
BY DownloadsAssumption DEF Mod!Init, ModelsOK, Mod!TypeOK, Mod!Absent, Mod!Bodies,
   Mod!FetchEnds, Mod!AcquireEnds

\* A step of one call gives it a record and leaves those of the others.
FetchRecords == [pc : {"idle", "verify", "open", "read", "sleep"} \cup Mod!FetchEnds,
                 attempt : 0..MaxAttempts, temporary : Mod!Bodies \cup {Mod!Absent}]
AcquireRecords == [pc : {"idle", "download", "stage", "replace", "verify"} \cup Mod!AcquireEnds,
                   downloaded : SUBSET ModelFiles, staged : SUBSET ModelFiles]

\* A step of a fetch gives it a record and leaves the other ones alone.
LEMMA FetchMoves ==
    ASSUME ModelsOK, NEW f \in Fetchers, NEW pc, NEW attempt, NEW body,
           Mod!Fetch(f, pc, attempt, body)
    PROVE  /\ fetch'[f] = [pc |-> pc, attempt |-> attempt, temporary |-> body]
           /\ \A g \in Fetchers \ {f} : fetch'[g] = fetch[g]
           /\ UNCHANGED <<destination, acquire>>
           /\ [pc |-> pc, attempt |-> attempt, temporary |-> body] \in FetchRecords =>
                 fetch' \in [Fetchers -> FetchRecords]
BY DEF ModelsOK, Mod!TypeOK, Mod!Fetch, FetchRecords

\* The same for a process that materializes a model.
LEMMA AcquireMoves ==
    ASSUME ModelsOK, NEW a \in Acquirers, NEW pc, NEW downloaded, NEW staged,
           Mod!Acquire(a, pc, downloaded, staged)
    PROVE  /\ acquire'[a] = [pc |-> pc, downloaded |-> downloaded, staged |-> staged]
           /\ \A b \in Acquirers \ {a} : acquire'[b] = acquire[b]
           /\ UNCHANGED <<cached, fetch>>
           /\ [pc |-> pc, downloaded |-> downloaded, staged |-> staged] \in AcquireRecords =>
                 acquire' \in [Acquirers -> AcquireRecords]
BY DEF ModelsOK, Mod!TypeOK, Mod!Acquire, AcquireRecords

\* No step of a fetch or of a materialization stages part of a model for good.
LEMMA ModelsStep == ModelsOK /\ [Mod!Next]_models => ModelsOK'
<1> SUFFICES ASSUME ModelsOK, [Mod!Next]_models PROVE ModelsOK'
  OBVIOUS
<1> USE DownloadsAssumption DEF Mod!Absent, Mod!Bodies, Mod!FetchEnds, Mod!AcquireEnds
<1>1. CASE UNCHANGED models
  BY <1>1 DEF models, ModelsOK, Mod!TypeOK
<1>2. ASSUME NEW f \in Fetchers, \/ Mod!Lookup(f) \/ Mod!VerifyCached(f) \/ Mod!Open(f)
                                 \/ Mod!Read(f) \/ Mod!Sleep(f) \/ Mod!KillFetch(f)
      PROVE  ModelsOK'
  <2>1. fetch[f] \in FetchRecords /\ (fetch[f].pc = "sleep" => fetch[f].attempt < MaxAttempts)
    BY DEF ModelsOK, Mod!TypeOK, FetchRecords
  <2>2. /\ cached' \in {cached, "pinned"}
        /\ \E pc, attempt, body :
              /\ Mod!Fetch(f, pc, attempt, body)
              /\ [pc |-> pc, attempt |-> attempt, temporary |-> body] \in FetchRecords
              /\ pc = "sleep" => attempt < MaxAttempts
    <3>1. CASE Mod!Lookup(f)
      BY <2>1, <3>1 DEF Mod!Lookup, FetchRecords
    <3>2. CASE Mod!VerifyCached(f)
      BY <2>1, <3>2 DEF Mod!VerifyCached, FetchRecords
    <3>3. CASE Mod!Open(f)
      BY <2>1, <3>3 DEF Mod!Open, FetchRecords
    <3>4. CASE Mod!Read(f)
      BY <2>1, <3>4 DEF Mod!Read, FetchRecords
    <3>5. CASE Mod!Sleep(f)
      BY <2>1, <3>5 DEF Mod!Sleep, FetchRecords
    <3>6. CASE Mod!KillFetch(f)
      BY <2>1, <3>6 DEF Mod!KillFetch, FetchRecords
    <3> QED BY <1>2, <3>1, <3>2, <3>3, <3>4, <3>5, <3>6
  <2>3. /\ fetch' \in [Fetchers -> FetchRecords]
        /\ fetch'[f].pc = "sleep" => fetch'[f].attempt < MaxAttempts
        /\ \A g \in Fetchers \ {f} : fetch'[g] = fetch[g]
        /\ UNCHANGED <<destination, acquire>>
    BY <2>2, FetchMoves
  <2> QED BY <2>2, <2>3 DEF ModelsOK, Mod!TypeOK, FetchRecords
<1>3. ASSUME NEW a \in Acquirers,
             \/ Mod!AcquireModel(a) \/ Mod!DownloadModelFile(a) \/ Mod!VerifySnapshot(a)
             \/ Mod!CopyVerified(a) \/ Mod!Replace(a) \/ Mod!VerifyMaterialized(a)
             \/ Mod!KillAcquire(a)
      PROVE  ModelsOK'
  <2>1. acquire[a] \in AcquireRecords
    BY DEF ModelsOK, Mod!TypeOK, AcquireRecords
  <2> DEFINE Moves(pc, downloaded, staged) ==
               /\ Mod!Acquire(a, pc, downloaded, staged)
               /\ [pc |-> pc, downloaded |-> downloaded, staged |-> staged] \in AcquireRecords
               /\ pc = "replace" => staged = ModelFiles
               /\ pc = "verify" => destination' = a
  <2>2. /\ destination' = destination \/ (destination' = a /\ destination = Mod!Absent)
        /\ \E pc, downloaded, staged : Moves(pc, downloaded, staged)
    <3>1. CASE Mod!AcquireModel(a)
      BY <2>1, <3>1 DEF Mod!AcquireModel, AcquireRecords
    <3>2. CASE Mod!DownloadModelFile(a)
      <4>1. UNCHANGED destination
        BY <3>2 DEF Mod!DownloadModelFile
      <4>2. CASE Mod!Acquire(a, "failed", {}, {})
        BY <4>1, <4>2 DEF AcquireRecords
      <4>3. ASSUME NEW x \in ModelFiles,
                   Mod!Acquire(a, "download", acquire[a].downloaded \cup {x}, {})
            PROVE  \E pc, downloaded, staged : Moves(pc, downloaded, staged)
        <5>1. [pc |-> "download", downloaded |-> acquire[a].downloaded \cup {x}, staged |-> {}]
                 \in AcquireRecords
          BY <2>1 DEF AcquireRecords
        <5>2. "download" # "replace" /\ "download" # "verify"
          OBVIOUS
        <5> QED BY <4>3, <5>1, <5>2
      <4> QED BY <3>2, <4>1, <4>2, <4>3 DEF Mod!DownloadModelFile
    <3>3. CASE Mod!VerifySnapshot(a)
      BY <2>1, <3>3 DEF Mod!VerifySnapshot, AcquireRecords
    <3>4. CASE Mod!CopyVerified(a)
      BY <2>1, <3>4 DEF Mod!CopyVerified, AcquireRecords
    <3>5. CASE Mod!Replace(a)
      <4>1. CASE UNCHANGED destination /\ Mod!Acquire(a, "failed", {}, {})
        BY <4>1 DEF AcquireRecords
      <4>2. CASE /\ destination = Mod!Absent /\ destination' = a
                 /\ Mod!Acquire(a, "verify", {}, ModelFiles)
        BY <4>2 DEF AcquireRecords
      <4> QED BY <3>5, <4>1, <4>2 DEF Mod!Replace
    <3>6. CASE Mod!KillAcquire(a)
      BY <2>1, <3>6 DEF Mod!KillAcquire, AcquireRecords
    <3>7. CASE Mod!VerifyMaterialized(a)
      BY <2>1, <3>7 DEF Mod!VerifyMaterialized, AcquireRecords
    <3> QED BY <1>3, <3>1, <3>2, <3>3, <3>4, <3>5, <3>6, <3>7
  <2>3. /\ acquire' \in [Acquirers -> AcquireRecords]
        /\ acquire'[a].pc = "replace" => acquire'[a].staged = ModelFiles
        /\ acquire'[a].pc = "verify" => destination' = a
        /\ \A b \in Acquirers \ {a} : acquire'[b] = acquire[b]
        /\ UNCHANGED <<cached, fetch>>
    <3>1. PICK pc, downloaded, staged : Moves(pc, downloaded, staged)
      BY <2>2
    <3> QED BY <3>1, AcquireMoves
  <2>4. \A b \in Acquirers : acquire'[b].pc = "verify" => destination' = b
    BY <2>2, <2>3 DEF ModelsOK
  <2> QED BY <2>2, <2>3, <2>4 DEF ModelsOK, Mod!TypeOK, AcquireRecords
<1> QED BY <1>1, <1>2, <1>3 DEF Mod!Next

\* The cache gains its content in one step, which has just compared the whole body.
LEMMA PinnedBytesStep ==
    ModelsOK /\ [Mod!Next]_models =>
    [/\ cached' # cached => cached' = "pinned"
     /\ \A f \in Fetchers :
           fetch[f].pc # "returned" /\ fetch'[f].pc = "returned" => cached' = "pinned"
     /\ \A f \in Fetchers :
           fetch[f].pc = "verify" /\ cached = "pinned" => fetch'[f].pc # "refused"]_models
<1> SUFFICES ASSUME ModelsOK, Mod!Next
             PROVE  /\ cached' # cached => cached' = "pinned"
                    /\ \A f \in Fetchers :
                          /\ fetch[f].pc # "returned" /\ fetch'[f].pc = "returned" =>
                                cached' = "pinned"
                          /\ fetch[f].pc = "verify" /\ cached = "pinned" =>
                                fetch'[f].pc # "refused"
  OBVIOUS
<1>1. ASSUME NEW f \in Fetchers, \/ Mod!Lookup(f) \/ Mod!VerifyCached(f) \/ Mod!Open(f)
                                 \/ Mod!Read(f) \/ Mod!Sleep(f) \/ Mod!KillFetch(f)
      PROVE  /\ cached' # cached => cached' = "pinned"
             /\ fetch'[f].pc = "returned" => cached' = "pinned"
             /\ fetch[f].pc = "verify" /\ cached = "pinned" => fetch'[f].pc # "refused"
             /\ \A g \in Fetchers \ {f} : fetch'[g] = fetch[g]
  <2>1. /\ cached' # cached => cached' = "pinned"
        /\ \E pc, attempt, body :
              /\ Mod!Fetch(f, pc, attempt, body)
              /\ pc = "returned" => cached' = "pinned"
              /\ fetch[f].pc = "verify" /\ cached = "pinned" => pc # "refused"
    BY <1>1 DEF Mod!Lookup, Mod!VerifyCached, Mod!Open, Mod!Read, Mod!Sleep, Mod!KillFetch
  <2>2. PICK pc, attempt, body :
              /\ Mod!Fetch(f, pc, attempt, body)
              /\ pc = "returned" => cached' = "pinned"
              /\ fetch[f].pc = "verify" /\ cached = "pinned" => pc # "refused"
    BY <2>1
  <2>3. /\ fetch'[f] = [pc |-> pc, attempt |-> attempt, temporary |-> body]
        /\ \A g \in Fetchers \ {f} : fetch'[g] = fetch[g]
    BY <2>2, FetchMoves
  <2> QED BY <2>1, <2>2, <2>3
<1>2. ASSUME NEW a \in Acquirers,
             \/ Mod!AcquireModel(a) \/ Mod!DownloadModelFile(a) \/ Mod!VerifySnapshot(a)
             \/ Mod!CopyVerified(a) \/ Mod!Replace(a) \/ Mod!VerifyMaterialized(a)
             \/ Mod!KillAcquire(a)
      PROVE  UNCHANGED <<cached, fetch>>
  BY <1>2 DEF Mod!AcquireModel, Mod!DownloadModelFile, Mod!VerifySnapshot, Mod!CopyVerified,
     Mod!Replace, Mod!VerifyMaterialized, Mod!KillAcquire, Mod!Acquire
<1> QED BY <1>1, <1>2 DEF Mod!Next

\* The destination is taken once, by the directory of the process that takes it.
LEMMA InstallStep ==
    ModelsOK /\ [Mod!Next]_models =>
    [/\ destination # Mod!Absent => destination' = destination
     /\ destination' # destination => acquire[destination'].staged = ModelFiles
     /\ \A a \in Acquirers :
           acquire[a].pc # "acquired" /\ acquire'[a].pc = "acquired" => destination' = a]_models
<1> SUFFICES ASSUME ModelsOK, Mod!Next
             PROVE  /\ destination # Mod!Absent => destination' = destination
                    /\ destination' # destination => acquire[destination'].staged = ModelFiles
                    /\ \A a \in Acquirers :
                          acquire[a].pc # "acquired" /\ acquire'[a].pc = "acquired" =>
                             destination' = a
  OBVIOUS
<1>1. ASSUME NEW f \in Fetchers, \/ Mod!Lookup(f) \/ Mod!VerifyCached(f) \/ Mod!Open(f)
                                 \/ Mod!Read(f) \/ Mod!Sleep(f) \/ Mod!KillFetch(f)
      PROVE  UNCHANGED <<destination, acquire>>
  BY <1>1
     DEF Mod!Lookup, Mod!VerifyCached, Mod!Open, Mod!Read, Mod!Sleep, Mod!KillFetch, Mod!Fetch
<1>2. ASSUME NEW a \in Acquirers,
             \/ Mod!AcquireModel(a) \/ Mod!DownloadModelFile(a) \/ Mod!VerifySnapshot(a)
             \/ Mod!CopyVerified(a) \/ Mod!KillAcquire(a)
      PROVE  /\ UNCHANGED destination /\ acquire'[a].pc # "acquired"
             /\ \A b \in Acquirers \ {a} : acquire'[b] = acquire[b]
  <2>1. /\ UNCHANGED destination
        /\ \E pc, downloaded, staged :
              Mod!Acquire(a, pc, downloaded, staged) /\ pc # "acquired"
    <3>1. CASE Mod!AcquireModel(a)
      BY <3>1 DEF Mod!AcquireModel, ModelsOK, Mod!TypeOK, Mod!AcquireEnds
    <3>2. CASE Mod!DownloadModelFile(a)
      <4>1. \/ \E x \in ModelFiles :
                  Mod!Acquire(a, "download", acquire[a].downloaded \cup {x}, {})
            \/ Mod!Acquire(a, "failed", {}, {})
        BY <3>2 DEF Mod!DownloadModelFile
      <4>2. UNCHANGED destination
        BY <3>2 DEF Mod!DownloadModelFile
      <4>3. \A x : Mod!Acquire(a, "download", acquire[a].downloaded \cup {x}, {}) =>
               \E pc, downloaded, staged :
                  Mod!Acquire(a, pc, downloaded, staged) /\ pc # "acquired"
        OBVIOUS
      <4>4. "failed" # "acquired"
        OBVIOUS
      <4> QED BY <4>1, <4>2, <4>3, <4>4
    <3>3. CASE Mod!VerifySnapshot(a)
      BY <3>3 DEF Mod!VerifySnapshot, ModelsOK, Mod!TypeOK, Mod!AcquireEnds
    <3>4. CASE Mod!CopyVerified(a)
      BY <3>4 DEF Mod!CopyVerified, ModelsOK, Mod!TypeOK, Mod!AcquireEnds
    <3>5. CASE Mod!KillAcquire(a)
      BY <3>5 DEF Mod!KillAcquire, ModelsOK, Mod!TypeOK, Mod!AcquireEnds
    <3> QED BY <1>2, <3>1, <3>2, <3>3, <3>4, <3>5
  <2>2. PICK pc, downloaded, staged : Mod!Acquire(a, pc, downloaded, staged) /\ pc # "acquired"
    BY <2>1
  <2>3. /\ acquire'[a] = [pc |-> pc, downloaded |-> downloaded, staged |-> staged]
        /\ \A b \in Acquirers \ {a} : acquire'[b] = acquire[b]
    BY <2>2, AcquireMoves
  <2> QED BY <2>1, <2>2, <2>3
<1>3. ASSUME NEW a \in Acquirers, Mod!Replace(a)
      PROVE  /\ destination' = destination \/ (destination = Mod!Absent /\ destination' = a)
             /\ acquire[a].staged = ModelFiles /\ acquire'[a].pc # "acquired"
             /\ \A b \in Acquirers \ {a} : acquire'[b] = acquire[b]
  <2>1. acquire[a].staged = ModelFiles
    BY <1>3 DEF ModelsOK, Mod!Replace
  <2>2. /\ destination' = destination \/ (destination = Mod!Absent /\ destination' = a)
        /\ \E pc, staged : Mod!Acquire(a, pc, {}, staged) /\ pc # "acquired"
    <3>1. "failed" # "acquired" /\ "verify" # "acquired"
      OBVIOUS
    <3> QED BY <1>3, <3>1 DEF Mod!Replace
  <2>3. PICK pc, staged : Mod!Acquire(a, pc, {}, staged) /\ pc # "acquired"
    BY <2>2
  <2>4. /\ acquire'[a] = [pc |-> pc, downloaded |-> {}, staged |-> staged]
        /\ \A b \in Acquirers \ {a} : acquire'[b] = acquire[b]
    BY <2>3, AcquireMoves
  <2> QED BY <2>1, <2>2, <2>3, <2>4
<1>4. ASSUME NEW a \in Acquirers, Mod!VerifyMaterialized(a)
      PROVE  /\ UNCHANGED destination /\ destination = a
             /\ \A b \in Acquirers \ {a} : acquire'[b] = acquire[b]
  <2>1. PICK end \in {"acquired", "failed"} : Mod!Acquire(a, end, {}, ModelFiles)
    BY <1>4 DEF Mod!VerifyMaterialized
  <2> QED BY <1>4, <2>1, AcquireMoves DEF ModelsOK, Mod!VerifyMaterialized
<1> QED BY <1>1, <1>2, <1>3, <1>4 DEF Mod!Next

(***************************************************************************)
(* Training.  A process checks its batches against the holdout it loaded,  *)
(* and a checkpoint carries the samples and the digest of that holdout     *)
(* together; what the evaluation directory gains meanwhile is in neither.  *)
(***************************************************************************)

Holdouts == [Documents -> SUBSET {"url", "source", "hash", "family", "marker"}]
Checkpoints == [holdout : Holdouts, samples : SUBSET Documents, written : BOOLEAN]

\* What RejectLeakedSamples() and the digest of h leave of a document's facets.
Untainted(h, d) ==
    h[d] \cap ({"family"} \cup IF d \in HeldOut THEN {"hash"} ELSE {}) = {}
ProcessStates ==
    [pc : {"down", "check", "train", "heartbeat", "checkpoint", "latest", "ended"},
     step : 0..(Len(TrainingBatches) + 1), starts : 0..MaxTrainingStarts, samples : SUBSET Documents]
FileStates == [checkpoint : [1..MaxSteps -> Checkpoints], latest : 0..MaxSteps, heartbeat : 0..MaxSteps]

TrainingTyped ==
    /\ sealed \in Holdouts
    /\ holdout \in Holdouts
    /\ cache \in [Documents -> {"absent", "refused", "admitted"}]
    /\ audited \subseteq Holdouts
    /\ process \in ProcessStates
    /\ files \in FileStates

\* A process works on a batch it has checked, and its samples are of checked batches.
ProcessOK ==
    /\ process.pc \in {"train", "heartbeat", "checkpoint", "latest"} =>
          process.step \in 1..MaxSteps /\ process.step <= Len(TrainingBatches)
    /\ process.pc = "check" => process.step >= 1
    /\ process.pc = "train" =>
          \A d \in TrainingBatches[process.step] : Untainted(holdout, d)
    /\ \A d \in process.samples : Untainted(holdout, d)

\* So are those behind a checkpoint, with the holdout whose digest it carries.
CheckpointsOK ==
    \A s \in 1..MaxSteps :
        \A d \in files.checkpoint[s].samples : Untainted(files.checkpoint[s].holdout, d)

AuditsOK == \A h \in audited : Trn!AuditCorpus(h)

LatestOK ==
    /\ LatestNamesACheckpoint
    /\ process.pc = "latest" => files.checkpoint[process.step].written

TrainingOK == TrainingTyped /\ ProcessOK /\ CheckpointsOK /\ AuditsOK /\ LatestOK

\* At the beginning there are no checkpoints and no process.
LEMMA TrainingInit == Trn!Init => TrainingOK
<1> SUFFICES ASSUME Trn!Init PROVE TrainingOK
  OBVIOUS
<1> USE TrainingAssumption DEF Trn!Init
<1>1. Trn!Nothing \in Holdouts
  BY DEF Trn!Nothing, Holdouts
<1>2. Trn!NoCheckpoint \in Checkpoints /\ Trn!NoCheckpoint.samples = {}
  BY <1>1 DEF Trn!NoCheckpoint, Checkpoints
<1>3. /\ \A s \in 1..MaxSteps : files.checkpoint[s] = Trn!NoCheckpoint
      /\ files \in FileStates /\ files.latest = 0
  BY <1>2 DEF FileStates
<1>4. Len(TrainingBatches) \in Nat
  OBVIOUS
<1>5. process \in ProcessStates /\ process.pc = "down" /\ process.samples = {}
  BY <1>4 DEF ProcessStates
<1>6. TrainingTyped
  BY <1>1, <1>3, <1>5 DEF TrainingTyped, ProcessStates, FileStates
<1>7. ProcessOK /\ AuditsOK /\ LatestOK
  BY <1>3, <1>5 DEF ProcessOK, AuditsOK, LatestOK, LatestNamesACheckpoint,
     Trn!LatestNamesACheckpoint
<1>8. CheckpointsOK
  BY <1>2, <1>3 DEF CheckpointsOK
<1> QED BY <1>6, <1>7, <1>8 DEF TrainingOK

\* Every batch consists of documents.
LEMMA BatchesAreOfDocuments ==
    ASSUME NEW s \in 1..Len(TrainingBatches) PROVE TrainingBatches[s] \subseteq Documents
BY TrainingAssumption

\* No step of a run, of a kill or of the evaluation directory gives a checkpoint a sample
\* that its holdout knew.
LEMMA TrainingStep == TrainingOK /\ [Trn!Next]_training => TrainingOK'
<1> SUFFICES ASSUME TrainingOK, [Trn!Next]_training PROVE TrainingOK'
  OBVIOUS
<1>0. /\ TrainingTyped /\ ProcessOK /\ CheckpointsOK /\ AuditsOK /\ LatestOK
      /\ MaxSteps \in Nat /\ Len(TrainingBatches) \in Nat
  BY TrainingAssumption DEF TrainingOK
<1>1. CASE UNCHANGED training
  BY <1>0, <1>1
     DEF training, TrainingOK, TrainingTyped, ProcessStates, FileStates, ProcessOK,
         CheckpointsOK, AuditsOK,
     LatestOK, LatestNamesACheckpoint, Trn!LatestNamesACheckpoint
<1>2. ASSUME UNCHANGED <<holdout, audited, process, files>>, sealed' \in Holdouts,
             cache' \in [Documents -> {"absent", "refused", "admitted"}]
      PROVE  TrainingOK'
  BY <1>0, <1>2
     DEF TrainingOK, TrainingTyped, ProcessStates, FileStates, ProcessOK, CheckpointsOK,
         AuditsOK, LatestOK,
     LatestNamesACheckpoint, Trn!LatestNamesACheckpoint
<1>3. ASSUME NEW d \in Documents, Trn!Seal(d) PROVE TrainingOK'
  <2>1. PICK facet \in Facets[d] \ sealed[d] : sealed' = [sealed EXCEPT ![d] = @ \cup {facet}]
    BY <1>3 DEF Trn!Seal
  <2>2. facet \in {"url", "source", "hash", "family", "marker"}
    BY TrainingAssumption
  <2>3. sealed' \in Holdouts
    BY <1>0, <2>1, <2>2 DEF TrainingTyped, ProcessStates, FileStates, Holdouts
  <2> QED BY <1>0, <1>2, <1>3, <2>3 DEF Trn!Seal, TrainingTyped
<1>4. ASSUME NEW d \in Documents, Trn!MaterializeRecord(d) PROVE TrainingOK'
  <2>1. cache' \in [Documents -> {"absent", "refused", "admitted"}]
    BY <1>0, <1>4 DEF Trn!MaterializeRecord, TrainingTyped
  <2> QED BY <1>0, <1>2, <1>4, <2>1 DEF Trn!MaterializeRecord, TrainingTyped
<1>5. CASE Trn!CorpusAudit
  <2>1. /\ UNCHANGED <<sealed, holdout, cache, process, files>>
        /\ audited' = audited \cup {sealed} /\ Trn!AuditCorpus(sealed)
    BY <1>5 DEF Trn!CorpusAudit, Trn!LoadSealedHoldout
  <2>2. AuditsOK' /\ audited' \subseteq Holdouts
    BY <1>0, <2>1 DEF AuditsOK, TrainingTyped, Trn!AuditCorpus, Trn!LeakageHits
  <2> QED BY <1>0, <2>1, <2>2 DEF TrainingOK, TrainingTyped, ProcessOK, CheckpointsOK,
             LatestOK, LatestNamesACheckpoint, Trn!LatestNamesACheckpoint
<1>6. ASSUME UNCHANGED <<sealed, cache, audited, files>>, TrainingTyped', ProcessOK', LatestOK'
      PROVE  TrainingOK'
  BY <1>0, <1>6 DEF TrainingOK, CheckpointsOK, AuditsOK
<1>7. CASE Trn!Start
  <2>1. /\ UNCHANGED <<sealed, cache, audited, files>> /\ holdout' = sealed
        /\ process' = [pc |-> "check", step |-> 1, starts |-> process.starts + 1, samples |-> {}]
        /\ process.starts < MaxTrainingStarts
    BY <1>7 DEF Trn!Start, Trn!LoadSealedHoldout
  <2>2. process' \in ProcessStates
    <3>1. process.starts + 1 \in 0..MaxTrainingStarts /\ 1 \in 0..(Len(TrainingBatches) + 1)
      BY <1>0, <2>1, TrainingAssumption DEF TrainingTyped, ProcessStates
    <3> QED BY <2>1, <3>1 DEF ProcessStates
  <2>4. TrainingTyped'
    BY <1>0, <2>1, <2>2 DEF TrainingTyped
  <2>3. ProcessOK' /\ LatestOK'
    BY <1>0, <2>1 DEF ProcessOK, LatestOK, LatestNamesACheckpoint, Trn!LatestNamesACheckpoint
  <2> QED BY <1>6, <2>1, <2>3, <2>4
<1>8. CASE Trn!CheckBatch
  <2>1. /\ UNCHANGED <<sealed, holdout, cache, audited, files>>
        /\ process.pc = "check"
    BY <1>8 DEF Trn!CheckBatch, Trn!Goto
  <2>2. CASE process' = [process EXCEPT !.pc = "ended"]
    BY <1>0, <1>6, <2>1, <2>2
       DEF TrainingTyped, ProcessStates, FileStates, ProcessOK, LatestOK,
           LatestNamesACheckpoint,
       Trn!LatestNamesACheckpoint
  <2>3. CASE /\ process.step <= Len(TrainingBatches) /\ process.step <= MaxSteps
             /\ Trn!RejectLeakedSamples(holdout, TrainingBatches[process.step])
             /\ process' = [process EXCEPT !.pc = "train"]
    <3>1. \A d \in TrainingBatches[process.step] : Untainted(holdout, d)
      BY <2>3 DEF Trn!RejectLeakedSamples, Trn!LeakageHits, Untainted
    <3>2. TrainingTyped'
      BY <1>0, <2>1, <2>3 DEF TrainingTyped, ProcessStates, FileStates
    <3>3. ProcessOK' /\ LatestOK'
      BY <1>0, <2>1, <2>3, <3>1
         DEF TrainingTyped, ProcessStates, FileStates, ProcessOK, LatestOK,
             LatestNamesACheckpoint,
         Trn!LatestNamesACheckpoint, Untainted
    <3> QED BY <1>6, <2>1, <3>2, <3>3
  <2> QED BY <1>8, <2>2, <2>3 DEF Trn!CheckBatch, Trn!Goto, Trn!Batch
<1>9. CASE Trn!TrainStep
  <2>1. /\ UNCHANGED <<sealed, holdout, cache, audited, files>>
        /\ process.pc = "train"
        /\ process' = [process EXCEPT !.pc = "heartbeat",
                                      !.samples = @ \cup TrainingBatches[process.step]]
    BY <1>9 DEF Trn!TrainStep, Trn!Batch
  <2>2. TrainingBatches[process.step] \subseteq Documents
    BY <1>0, <2>1, BatchesAreOfDocuments DEF ProcessOK, TrainingTyped
  <2>3. TrainingTyped'
    BY <1>0, <2>1, <2>2 DEF TrainingTyped, ProcessStates, FileStates
  <2>4. ProcessOK' /\ LatestOK'
    BY <1>0, <2>1
       DEF TrainingTyped, ProcessStates, FileStates, ProcessOK, LatestOK,
           LatestNamesACheckpoint,
       Trn!LatestNamesACheckpoint, Untainted
  <2> QED BY <1>6, <2>1, <2>3, <2>4
<1>10. CASE Trn!WriteHeartbeat
  <2>1. /\ UNCHANGED <<sealed, holdout, cache, audited>>
        /\ process.pc = "heartbeat" /\ process' = [process EXCEPT !.pc = "checkpoint"]
        /\ files' = [files EXCEPT !.heartbeat = process.step]
        /\ process.step \in 1..MaxSteps
    BY <1>0, <1>10 DEF Trn!WriteHeartbeat, Trn!Goto, ProcessOK
  <2>2. /\ process' \in ProcessStates /\ process'.pc = "checkpoint"
        /\ process'.step = process.step /\ process'.samples = process.samples
    BY <1>0, <2>1 DEF TrainingTyped, ProcessStates
  <2>3. /\ files' \in FileStates
        /\ files'.checkpoint = files.checkpoint /\ files'.latest = files.latest
    BY <1>0, <2>1 DEF TrainingTyped, FileStates
  <2>4. TrainingTyped'
    BY <1>0, <2>1, <2>2, <2>3 DEF TrainingTyped
  <2>5. ProcessOK' /\ AuditsOK' /\ CheckpointsOK'
    BY <1>0, <2>1, <2>2, <2>3 DEF ProcessOK, AuditsOK, CheckpointsOK
  <2>6. LatestOK'
    BY <1>0, <2>1, <2>2, <2>3 DEF LatestOK, LatestNamesACheckpoint, Trn!LatestNamesACheckpoint
  <2> QED BY <2>4, <2>5, <2>6 DEF TrainingOK
<1>11. CASE Trn!WriteCheckpoint
  <2> DEFINE written == [holdout |-> Trn!HoldoutDigest(holdout), samples |-> process.samples,
                         written |-> TRUE]
  <2>1. /\ UNCHANGED <<sealed, holdout, cache, audited>>
        /\ process.pc = "checkpoint" /\ process' = [process EXCEPT !.pc = "latest"]
        /\ files' = [files EXCEPT !.checkpoint[process.step] = written]
        /\ process.step \in 1..MaxSteps
    BY <1>0, <1>11 DEF Trn!WriteCheckpoint, Trn!Goto, ProcessOK
  <2>2. Trn!HoldoutDigest(holdout) \in Holdouts
    BY <1>0 DEF TrainingTyped, ProcessStates, FileStates, Holdouts, Trn!HoldoutDigest
  <2>3. written \in Checkpoints
    BY <1>0, <2>2 DEF TrainingTyped, ProcessStates, FileStates, Checkpoints
  <2>4. \A d \in written.samples : Untainted(written.holdout, d)
    BY <1>0 DEF TrainingTyped, ProcessStates, FileStates, ProcessOK, Untainted, Trn!HoldoutDigest
  <2>5. written.written = TRUE
    OBVIOUS
  <2> HIDE DEF written
  <2>6. /\ files'.checkpoint = [files.checkpoint EXCEPT ![process.step] = written]
        /\ files'.latest = files.latest /\ files'.heartbeat = files.heartbeat
        /\ files' \in FileStates
    BY <1>0, <2>1, <2>3 DEF TrainingTyped, ProcessStates, FileStates
  <2>7. TrainingTyped'
    BY <1>0, <2>1, <2>6 DEF TrainingTyped, ProcessStates, FileStates
  <2>8. ProcessOK' /\ AuditsOK'
    BY <1>0, <2>1 DEF TrainingTyped, ProcessStates, FileStates, ProcessOK, AuditsOK
  <2>9. /\ \A s \in 1..MaxSteps : files'.checkpoint[s] = IF s = process.step THEN written
                                                       ELSE files.checkpoint[s]
        /\ files.latest \in 0..MaxSteps
    BY <1>0, <2>1, <2>6 DEF TrainingTyped, ProcessStates, FileStates
  <2>10. CheckpointsOK'
    BY <1>0, <2>1, <2>4, <2>9 DEF CheckpointsOK
  <2>11. LatestOK'
    BY <1>0, <2>1, <2>5, <2>6, <2>9 DEF LatestOK, LatestNamesACheckpoint,
       Trn!LatestNamesACheckpoint, TrainingTyped
  <2> QED BY <2>7, <2>8, <2>10, <2>11 DEF TrainingOK
<1>12. CASE Trn!WriteLatest
  <2>1. /\ UNCHANGED <<sealed, holdout, cache, audited>>
        /\ process.pc = "latest" /\ process' = [process EXCEPT !.pc = "check", !.step = @ + 1]
        /\ files' = [files EXCEPT !.latest = process.step]
        /\ process.step \in 1..MaxSteps /\ process.step <= Len(TrainingBatches)
    BY <1>0, <1>12 DEF Trn!WriteLatest, ProcessOK
  <2>2. /\ process' \in ProcessStates /\ process'.pc = "check"
        /\ process'.step = process.step + 1 /\ process'.samples = process.samples
    <3>1. process.step + 1 \in 0..(Len(TrainingBatches) + 1)
      BY <1>0, <2>1
    <3>2. process \in ProcessStates
      BY <1>0 DEF TrainingTyped
    <3> DEFINE next == process.step + 1
    <3>3. process' = [process EXCEPT !.pc = "check", !.step = next] /\ next \in 0..(Len(TrainingBatches) + 1)
      BY <2>1, <3>1
    <3> HIDE DEF next
    <3>4. /\ process' \in ProcessStates /\ process'.pc = "check"
          /\ process'.step = next /\ process'.samples = process.samples
      BY <3>2, <3>3 DEF ProcessStates
    <3> QED BY <3>4 DEF next
  <2>3. /\ files' \in FileStates
        /\ files'.checkpoint = files.checkpoint /\ files'.latest = process.step
    BY <1>0, <2>1 DEF TrainingTyped, FileStates
  <2>4. TrainingTyped'
    BY <1>0, <2>1, <2>2, <2>3 DEF TrainingTyped
  <2>5. ProcessOK' /\ AuditsOK' /\ CheckpointsOK'
    BY <1>0, <2>1, <2>2, <2>3 DEF ProcessOK, AuditsOK, CheckpointsOK
  <2>6. LatestOK'
    BY <1>0, <2>1, <2>2, <2>3 DEF LatestOK, LatestNamesACheckpoint, Trn!LatestNamesACheckpoint
  <2> QED BY <2>4, <2>5, <2>6 DEF TrainingOK
<1>13. CASE Trn!Stop
  BY <1>0, <1>6, <1>13 DEF Trn!Stop, TrainingTyped, ProcessStates, ProcessOK, LatestOK,
     LatestNamesACheckpoint, Trn!LatestNamesACheckpoint
<1> QED BY <1>1, <1>3, <1>4, <1>5, <1>7, <1>8, <1>9, <1>10, <1>11, <1>12, <1>13 DEF Trn!Next

\* An audit under a holdout of the same digest found what the check of the batches leaves.
LEMMA TrainingVouches == TrainingOK => CheckpointsAreUntainted
<1> SUFFICES ASSUME TrainingOK, NEW s \in 1..MaxSteps, NEW d \in files.checkpoint[s].samples
             PROVE  /\ Trn!LeakageHits(files.checkpoint[s].holdout, d, {"family"}) = {}
                    /\ d \in HeldOut =>
                          Trn!LeakageHits(files.checkpoint[s].holdout, d, {"hash"}) = {}
                    /\ (\E h \in audited : Trn!HoldoutDigest(h) = files.checkpoint[s].holdout) =>
                          files.checkpoint[s].holdout[d] = {}
  BY DEF CheckpointsAreUntainted, Trn!CheckpointsAreUntainted
<1>1. Untainted(files.checkpoint[s].holdout, d)
  BY DEF TrainingOK, CheckpointsOK
<1>2. d \in Documents /\ audited \subseteq Holdouts
  BY DEF TrainingOK, TrainingTyped, FileStates, Checkpoints
<1>3. ASSUME NEW h \in audited, Trn!HoldoutDigest(h) = files.checkpoint[s].holdout
      PROVE  files.checkpoint[s].holdout[d] = {}
  <2>1. files.checkpoint[s].holdout[d] = h[d] \ {"marker"}
    BY <1>2, <1>3 DEF Trn!HoldoutDigest
  <2>2. h[d] \cap {"url", "source", "hash", "marker"} = {}
    BY <1>2 DEF TrainingOK, AuditsOK, Trn!AuditCorpus, Trn!LeakageHits
  <2>3. h[d] \subseteq {"url", "source", "hash", "family", "marker"}
    BY <1>2 DEF Holdouts
  <2>4. "family" \notin files.checkpoint[s].holdout[d]
    BY <1>1 DEF Untainted
  <2> QED BY <2>1, <2>2, <2>3, <2>4
<1> QED BY <1>1, <1>3 DEF Untainted, Trn!LeakageHits

(***************************************************************************)
(* Reviews.  What a command read cannot change under it, and a review that *)
(* was submitted stays known, if only as a dismissed one: so what a        *)
(* command has found before it writes holds when it writes.                *)
(***************************************************************************)

ReviewedBy == People \cup {Agent, Rev!None}
RegistriesRead == [Documents -> [version : Nat, reviewer : ReviewedBy]]
Packets == [documents : SUBSET Documents, registry : RegistriesRead]

ReviewsTyped ==
    /\ registry \in RegistriesRead
    /\ packets \subseteq Packets
    /\ reviews \subseteq [author : People, packet : Packets,
                         state : {"COMMENTED", "APPROVED", "DISMISSED"}]
    /\ applier \in [Appliers -> [pc : {"idle", "provenance", "apply", "write", "applied", "refused"},
                                 read : RegistriesRead, packet : Packets,
                                 reviewer : ReviewedBy, accepted : BOOLEAN]]

\* The reviewer answers for the packet: an agent for itself, a person by a review.
Backed(a) ==
    \/ applier[a].reviewer = Agent
    \/ \E r \in reviews : /\ r.author = applier[a].reviewer
                          /\ r.packet = applier[a].packet
                          /\ r.state # "COMMENTED"

ApplierOK(a) ==
    /\ applier[a].pc \in {"apply", "write"} => Backed(a)
    /\ applier[a].pc = "write" =>
          /\ Rev!Unchanged(applier[a].packet, applier[a].read)
          /\ Rev!Strict(Rev!Reviewed(applier[a].packet, applier[a].read, applier[a].reviewer))

AnnotationsOK == ReviewsTyped /\ \A a \in Appliers : ApplierOK(a)

\* At the beginning there is no packet and no review, and no command runs.
LEMMA AnnotationsInit == Rev!Init => AnnotationsOK
<1> SUFFICES ASSUME Rev!Init PROVE AnnotationsOK
  OBVIOUS
<1>1. Rev!Absent \in [version : Nat, reviewer : ReviewedBy]
  BY DEF Rev!Absent, ReviewedBy
<1>2. Rev!NoPacket \in Packets /\ Rev!NoPacket.registry \in RegistriesRead
  BY <1>1 DEF Rev!NoPacket, Packets, RegistriesRead
<1>3. Rev!Idle \in [pc : {"idle", "provenance", "apply", "write", "applied", "refused"},
                    read : RegistriesRead, packet : Packets,
                    reviewer : ReviewedBy, accepted : BOOLEAN]
      /\ Rev!Idle.pc = "idle"
  BY <1>2 DEF Rev!Idle, ReviewedBy
<1>4. ReviewsTyped
  BY <1>1, <1>3 DEF Rev!Init, ReviewsTyped, RegistriesRead
<1>5. \A a \in Appliers : ApplierOK(a)
  BY <1>3 DEF Rev!Init, ApplierOK
<1> QED BY <1>4, <1>5 DEF AnnotationsOK

\* A step of one command leaves the others alone.
LEMMA StepMoves ==
    ASSUME ReviewsTyped, NEW a \in Appliers, NEW from,
           NEW to \in {"idle", "provenance", "apply", "write", "applied", "refused"},
           Rev!Step(a, from, to)
    PROVE  /\ applier[a].pc = from /\ applier'[a].pc = to
           /\ applier'[a].read = applier[a].read /\ applier'[a].packet = applier[a].packet
           /\ applier'[a].reviewer = applier[a].reviewer
           /\ \A b \in Appliers \ {a} : applier'[b] = applier[b]
           /\ applier' \in [Appliers ->
                 [pc : {"idle", "provenance", "apply", "write", "applied", "refused"},
                  read : RegistriesRead, packet : Packets,
                  reviewer : ReviewedBy, accepted : BOOLEAN]]
BY DEF ReviewsTyped, Rev!Step

\* No edit, review, export or command invalidates what a command has found.
LEMMA AnnotationsStep == AnnotationsOK /\ [Rev!Next]_annotations => AnnotationsOK'
<1> SUFFICES ASSUME AnnotationsOK, [Rev!Next]_annotations PROVE AnnotationsOK'
  OBVIOUS
<1>0. ReviewsTyped /\ \A a \in Appliers : ApplierOK(a)
  BY DEF AnnotationsOK
\* Commands whose records a step leaves alone stay as good as they were.
<1>1. ASSUME NEW a \in Appliers, applier'[a] = applier[a],
             \A r \in reviews : \E s \in reviews' :
                s.author = r.author /\ s.packet = r.packet
                /\ (r.state # "COMMENTED" => s.state # "COMMENTED")
      PROVE  ApplierOK(a)'
  BY <1>0, <1>1 DEF ApplierOK, Backed
<1>2. CASE UNCHANGED annotations
  BY <1>0, <1>1, <1>2 DEF annotations, AnnotationsOK, ReviewsTyped
<1>3. ASSUME NEW d \in Documents, Rev!Edit(d) PROVE AnnotationsOK'
  <2>1. PICK reviewer \in {Rev!None, registry[d].reviewer} :
           registry' = [registry EXCEPT ![d] = [version |-> @.version + 1, reviewer |-> reviewer]]
    BY <1>3 DEF Rev!Edit
  <2>2. registry' \in RegistriesRead
    <3>1. registry[d].version + 1 \in Nat /\ reviewer \in ReviewedBy
      BY <1>0 DEF ReviewsTyped, RegistriesRead, ReviewedBy
    <3> QED BY <1>0, <2>1, <3>1 DEF ReviewsTyped, RegistriesRead
  <2> QED BY <1>0, <1>1, <1>3, <2>2 DEF Rev!Edit, AnnotationsOK, ReviewsTyped
<1>4. ASSUME NEW person \in People, NEW packet \in packets, Rev!SubmitReview(person, packet)
      PROVE  AnnotationsOK'
  <2>1. PICK state \in {"COMMENTED", "APPROVED"} :
           reviews' = reviews \cup {[author |-> person, packet |-> packet, state |-> state]}
    BY <1>4 DEF Rev!SubmitReview
  <2>2. UNCHANGED <<registry, packets, applier>>
    BY <1>4 DEF Rev!SubmitReview
  <2>3. reviews' \subseteq [author : People, packet : Packets,
                           state : {"COMMENTED", "APPROVED", "DISMISSED"}]
    BY <1>0, <2>1 DEF ReviewsTyped
  <2> QED BY <1>0, <1>1, <2>1, <2>2, <2>3 DEF AnnotationsOK, ReviewsTyped
<1>5. ASSUME NEW review \in reviews, Rev!Dismiss(review) PROVE AnnotationsOK'
  <2>1. /\ review.state = "APPROVED"
        /\ reviews' = (reviews \ {review}) \cup {[review EXCEPT !.state = "DISMISSED"]}
        /\ UNCHANGED <<registry, packets, applier>>
    BY <1>5 DEF Rev!Dismiss
  <2>2. [review EXCEPT !.state = "DISMISSED"].author = review.author
        /\ [review EXCEPT !.state = "DISMISSED"].packet = review.packet
        /\ [review EXCEPT !.state = "DISMISSED"].state # "COMMENTED"
    BY <1>0 DEF ReviewsTyped
  <2>3. reviews' \subseteq [author : People, packet : Packets,
                           state : {"COMMENTED", "APPROVED", "DISMISSED"}]
    BY <1>0, <2>1 DEF ReviewsTyped
  <2> QED BY <1>0, <1>1, <2>1, <2>2, <2>3 DEF AnnotationsOK, ReviewsTyped
<1>6. CASE Rev!Export
  <2>1. PICK selected \in SUBSET {d \in Rev!Present(registry) : Rev!Unreviewed(registry[d])} \ {{}} :
           packets' = packets \cup {[documents |-> selected, registry |-> registry]}
    BY <1>6 DEF Rev!Export
  <2>2. packets' \subseteq Packets /\ UNCHANGED <<registry, reviews, applier>>
    BY <1>0, <1>6, <2>1 DEF Rev!Export, ReviewsTyped, Packets, Rev!Present
  <2> QED BY <1>0, <1>1, <2>2 DEF AnnotationsOK, ReviewsTyped
<1>7. ASSUME NEW a \in Appliers, NEW reviewer \in ReviewedBy, NEW next \in {"provenance", "apply"},
             Rev!Decide(a, reviewer, next), next = "apply" => reviewer = Agent
      PROVE  AnnotationsOK'
  <2>1. PICK packet \in packets, accepted \in BOOLEAN :
           applier' = [applier EXCEPT ![a] =
                          [pc |-> next, read |-> registry, packet |-> packet,
                           reviewer |-> reviewer, accepted |-> accepted]]
    BY <1>7 DEF Rev!Decide
  <2>2. UNCHANGED <<registry, packets, reviews>>
    BY <1>7 DEF Rev!Decide
  <2>3. ReviewsTyped'
    BY <1>0, <2>1, <2>2 DEF ReviewsTyped
  <2>4. ApplierOK(a)'
    BY <1>0, <1>7, <2>1 DEF ApplierOK, Backed, ReviewsTyped
  <2>5. \A b \in Appliers \ {a} : applier'[b] = applier[b]
    BY <1>0, <2>1 DEF ReviewsTyped
  <2> QED BY <1>1, <2>2, <2>3, <2>4, <2>5 DEF AnnotationsOK
<1>8. ASSUME NEW a \in Appliers, \/ Rev!VerifyProvenance(a) \/ Rev!ApplyValidatedDecision(a)
                                 \/ Rev!WriteAtomic(a)
      PROVE  AnnotationsOK'
  <2>1. /\ UNCHANGED <<packets, reviews>>
        /\ registry' \in {registry, Rev!Reviewed(applier[a].packet, applier[a].read,
                                                 applier[a].reviewer)}
        /\ \E from, to \in {"idle", "provenance", "apply", "write", "applied", "refused"} :
              /\ Rev!Step(a, from, to)
              /\ to \in {"apply", "write"} => Backed(a)
              /\ to = "write" =>
                    /\ Rev!Unchanged(applier[a].packet, applier[a].read)
                    /\ Rev!Strict(Rev!Reviewed(applier[a].packet, applier[a].read,
                                               applier[a].reviewer))
    <3>1. CASE Rev!VerifyProvenance(a)
      BY <3>1 DEF Rev!VerifyProvenance, Backed
    <3>2. CASE Rev!ApplyValidatedDecision(a)
      BY <1>0, <3>2 DEF Rev!ApplyValidatedDecision, ApplierOK, Rev!Step
    <3>3. CASE Rev!WriteAtomic(a)
      BY <3>3 DEF Rev!WriteAtomic
    <3> QED BY <1>8, <3>1, <3>2, <3>3
  <2>2. PICK from, to \in {"idle", "provenance", "apply", "write", "applied", "refused"} :
              /\ Rev!Step(a, from, to)
              /\ to \in {"apply", "write"} => Backed(a)
              /\ to = "write" =>
                    /\ Rev!Unchanged(applier[a].packet, applier[a].read)
                    /\ Rev!Strict(Rev!Reviewed(applier[a].packet, applier[a].read,
                                               applier[a].reviewer))
    BY <2>1
  <2>3. Rev!Reviewed(applier[a].packet, applier[a].read, applier[a].reviewer) \in RegistriesRead
    BY <1>0 DEF Rev!Reviewed, ReviewsTyped, RegistriesRead
  <2>4. /\ applier'[a].pc = to
        /\ applier'[a].read = applier[a].read /\ applier'[a].packet = applier[a].packet
        /\ applier'[a].reviewer = applier[a].reviewer
        /\ \A b \in Appliers \ {a} : applier'[b] = applier[b]
    BY <1>0, <2>2, StepMoves
  <2>5. ReviewsTyped'
    BY <1>0, <2>1, <2>2, <2>3, StepMoves DEF ReviewsTyped
  <2>6. ApplierOK(a)'
    BY <2>1, <2>2, <2>4 DEF ApplierOK, Backed
  <2> QED BY <1>1, <2>1, <2>4, <2>5, <2>6 DEF AnnotationsOK
<1> QED BY <1>2, <1>3, <1>4, <1>5, <1>6, <1>7, <1>8
        DEF Rev!Next, Rev!Apply, Rev!ApplyAgent, ReviewedBy

\* What a command writes is what it found to be unreviewed and attested.
LEMMA AttestedStep ==
    AnnotationsOK /\ [Rev!Next]_annotations =>
    [\A a \in Appliers :
        applier[a].pc = "write" /\ applier'[a].pc = "applied" =>
            /\ Rev!Strict(registry')
            /\ \A d \in Documents :
                  registry'[d] # applier[a].read[d] =>
                    Rev!Unreviewed(applier[a].read[d]) /\ Rev!Attested(d, registry'[d])]_annotations
<1> SUFFICES ASSUME AnnotationsOK, Rev!Next, NEW a \in Appliers,
                    applier[a].pc = "write", applier'[a].pc = "applied"
             PROVE  /\ Rev!Strict(registry')
                    /\ \A d \in Documents :
                          registry'[d] # applier[a].read[d] =>
                             Rev!Unreviewed(applier[a].read[d]) /\ Rev!Attested(d, registry'[d])
  OBVIOUS
<1> DEFINE written == Rev!Reviewed(applier[a].packet, applier[a].read, applier[a].reviewer)
<1>1. /\ ReviewsTyped /\ Backed(a) /\ Rev!Unchanged(applier[a].packet, applier[a].read)
      /\ Rev!Strict(written)
  BY DEF AnnotationsOK, ApplierOK
<1>2. Rev!WriteAtomic(a)
  <2>1. ASSUME applier' = applier PROVE FALSE
    BY <2>1
  <2>2. ASSUME NEW b \in Appliers, Rev!Apply(b) \/ Rev!ApplyAgent(b) PROVE FALSE
    BY <1>1, <2>2 DEF Rev!Apply, Rev!ApplyAgent, Rev!Decide, ReviewsTyped
  <2>3. ASSUME NEW b \in Appliers, Rev!VerifyProvenance(b) \/ Rev!ApplyValidatedDecision(b)
        PROVE  FALSE
    BY <1>1, <2>3 DEF Rev!VerifyProvenance, Rev!ApplyValidatedDecision, Rev!Step, ReviewsTyped
  <2>4. ASSUME NEW b \in Appliers, b # a, Rev!WriteAtomic(b) PROVE FALSE
    BY <1>1, <2>4 DEF Rev!WriteAtomic, Rev!Step, ReviewsTyped
  <2> QED BY <2>1, <2>2, <2>3, <2>4
          DEF Rev!Next, Rev!Edit, Rev!SubmitReview, Rev!Dismiss, Rev!Export
<1>3. registry' = written
  BY <1>2 DEF Rev!WriteAtomic
<1>4. ASSUME NEW d \in Documents, written[d] # applier[a].read[d]
      PROVE  Rev!Unreviewed(applier[a].read[d]) /\ Rev!Attested(d, written[d])
  <2>1. /\ d \in applier[a].packet.documents
        /\ written[d] = [applier[a].read[d] EXCEPT !.reviewer = applier[a].reviewer]
    BY <1>4 DEF Rev!Reviewed
  <2>2. /\ applier[a].read[d] = applier[a].packet.registry[d]
        /\ Rev!Unreviewed(applier[a].read[d])
    BY <1>1, <2>1 DEF Rev!Unchanged
  <2>3. applier[a].read[d] \in [version : Nat, reviewer : ReviewedBy]
    BY <1>1 DEF ReviewsTyped, RegistriesRead
  <2>4. /\ written[d].reviewer = applier[a].reviewer
        /\ applier[a].read[d] = [written[d] EXCEPT !.reviewer = Rev!None]
    BY <2>1, <2>2, <2>3 DEF Rev!Unreviewed
  <2> QED BY <1>1, <2>1, <2>2, <2>4 DEF Backed, Rev!Attested
<1> QED BY <1>1, <1>3, <1>4

(***************************************************************************)
(* Sources.  A plan is in use while a command runs for it or its manifest  *)
(* is there.  It came into use when nothing that it shares a family with   *)
(* was preregistered, so two plans in use share none; and a command goes   *)
(* through the families of its plan in their order, each of them once.     *)
(***************************************************************************)

PlanIds == DOMAIN PlanFamilies
SourceRecords == [family : STRING, content : Src!Contents, url : {a.url : a \in Answers}]
CommandStates == [pc : {"idle", "fetch", "store", "finish", "ended"}, plan : PlanIds \cup {"none"},
                  attempt : 0..MaxAttempts, sources : Seq(SourceRecords), invalid : Seq(STRING),
                  answer : Answers \cup {Src!None}]
ManifestStates == [status : {"complete", "incomplete"}, sources : Seq(SourceRecords),
                   invalid : Seq(STRING)]

SourcesTyped ==
    /\ directory \subseteq PlanIds
    /\ command \in [Commands -> CommandStates]
    /\ store \in [Src!Contents -> {"absent", "whole", "damaged"}]
    /\ manifests \in [PlanIds -> ManifestStates \cup {Src!None}]
    /\ harm \in Nat

Runs(me) == me.pc \in {"fetch", "store", "finish"}
Done(me) == Len(me.sources) + Len(me.invalid)

NamesOnce(p) == \A i, j \in DOMAIN PlanFamilies[p] : PlanFamilies[p][i] = PlanFamilies[p][j] => i = j

\* Each source of a command is of a family that it has done, and of another one.
CommandOK(me) ==
    /\ me.pc = "store" => me.answer \in Answers
    /\ Runs(me) =>
          /\ me.plan \in directory /\ NamesOnce(me.plan)
          /\ Done(me) <= Len(PlanFamilies[me.plan])
          /\ me.pc # "finish" => Done(me) < Len(PlanFamilies[me.plan])
          /\ \A i \in DOMAIN me.sources :
                \E k \in 1..Done(me) : me.sources[i].family = PlanFamilies[me.plan][k]
          /\ \A i, j \in DOMAIN me.sources :
                me.sources[i].family = me.sources[j].family => i = j

ManifestOK(p) ==
    manifests[p] # Src!None =>
        /\ p \in directory
        /\ \A i \in DOMAIN manifests[p].sources :
              manifests[p].sources[i].family \in Src!FamiliesOf(p)
        /\ \A i, j \in DOMAIN manifests[p].sources :
              i # j => /\ manifests[p].sources[i].family # manifests[p].sources[j].family
                       /\ manifests[p].sources[i].content # manifests[p].sources[j].content
                       /\ manifests[p].sources[i].url # manifests[p].sources[j].url

InUse(p) ==
    \/ \E c \in Commands : Runs(command[c]) /\ command[c].plan = p
    \/ manifests[p] # Src!None

PlansApart ==
    \A p, q \in PlanIds :
        p # q /\ InUse(p) /\ InUse(q) => Src!FamiliesOf(p) \cap Src!FamiliesOf(q) = {}

SourcesOK ==
    /\ SourcesTyped
    /\ \A c \in Commands : CommandOK(command[c])
    /\ \A p \in PlanIds : ManifestOK(p)
    /\ PlansApart

-----------------------------------------------------------------------------

\* The instance counts as this module does.
LEMMA SameCardinality == \A S : Src!Cardinality(S) = Cardinality(S)
BY DEF Src!Cardinality, Cardinality

\* A plan that loads names no family twice: it has as many families as places for them.
LEMMA LoadedPlanNamesOnce ==
    ASSUME NEW p \in PlanIds, Cardinality(Src!FamiliesOf(p)) = Len(PlanFamilies[p])
    PROVE  NamesOnce(p)
<1> DEFINE f == PlanFamilies[p]
<1>1. f \in Seq(STRING)
  BY PlansAssumption DEF PlanIds
<1>2. Src!FamiliesOf(p) = {f[i] : i \in DOMAIN f} /\ Cardinality(Src!FamiliesOf(p)) = Len(f)
  BY DEF Src!FamiliesOf, Src!ToSet
<1>3. DOMAIN f = 1..Len(f) /\ Len(f) \in Nat /\ f \in [DOMAIN f -> STRING]
  BY <1>1
<1> HIDE DEF f
<1>4. IsFiniteSet(DOMAIN f) /\ Cardinality(DOMAIN f) = Len(f)
  BY <1>3, FS_Interval
<1>5. f \in [DOMAIN f -> Src!FamiliesOf(p)]
  BY <1>2, <1>3
<1>6. f \in Surjection(DOMAIN f, Src!FamiliesOf(p))
  BY <1>2, <1>5 DEF Surjection
<1>7. f \in Injection(DOMAIN f, Src!FamiliesOf(p))
  BY <1>2, <1>4, <1>6, FS_Surjection
<1>8. \A i, j \in DOMAIN f : f[i] = f[j] => i = j
  BY <1>7, Fun_InjectionProperties
<1> QED BY <1>8 DEF NamesOnce, f

\* The family that is done next.
LEMMA NextFamily ==
    ASSUME NEW p \in PlanIds, NEW n \in Nat, n < Len(PlanFamilies[p])
    PROVE  PlanFamilies[p][n + 1] \in STRING
BY PlansAssumption DEF PlanIds

\* What a family that is sealed, or an attempt that fails, makes of a command.
Sealed(me, new, answer) ==
    /\ new \in CommandStates /\ new.plan = me.plan /\ new.invalid = me.invalid
    /\ new.pc \in {"fetch", "finish"}
    /\ new.sources = Append(me.sources, [family |-> PlanFamilies[me.plan][Done(me) + 1],
                                         content |-> answer.content, url |-> answer.url])
    /\ new.pc = "fetch" => Done(new) # Len(PlanFamilies[me.plan])

TriedAgain(me, new) ==
    /\ new \in CommandStates /\ new.plan = me.plan /\ new.sources = me.sources
    /\ new.pc \in {"fetch", "finish"}
    /\ \/ new.invalid = me.invalid /\ new.pc = "fetch"
       \/ /\ new.invalid = Append(me.invalid, PlanFamilies[me.plan][Done(me) + 1])
          /\ new.pc = "fetch" => Done(new) # Len(PlanFamilies[me.plan])

\* Facts about sums that the lengths of two sequences need.
LEMMA OneMore ==
    \A m, n \in Nat : /\ m + n \in Nat /\ m + 1 > m
                      /\ (m + 1) + n = (m + n) + 1 /\ m + (n + 1) = (m + n) + 1
OBVIOUS

\* A command that seals a family has one source more.
LEMMA SealMoves ==
    ASSUME SourcesOK, NEW c \in Commands, NEW answer \in Answers,
           command[c].pc \in {"fetch", "store"}, Src!Seal(c, answer)
    PROVE  /\ Sealed(command[c], command'[c], answer)
           /\ \A d \in Commands \ {c} : command'[d] = command[d]
           /\ command' \in [Commands -> CommandStates]
<1> DEFINE me == command[c]
           source == [family |-> PlanFamilies[me.plan][Done(me) + 1],
                      content |-> answer.content, url |-> answer.url]
           more == [me EXCEPT !.sources = Append(@, source), !.attempt = 1, !.answer = Src!None]
           new == [more EXCEPT !.pc = Src!Following(more)]
<1>1. command' = [command EXCEPT ![c] = new]
  BY DEF Src!Seal, Src!Goes, Src!Family, Done
<1>2. me \in CommandStates /\ CommandOK(me) /\ Runs(me) /\ me.pc # "finish"
  BY DEF SourcesOK, SourcesTyped, Runs
<1>3. me.plan \in PlanIds /\ Done(me) \in Nat /\ Done(me) < Len(PlanFamilies[me.plan])
  BY <1>2 DEF CommandOK, CommandStates, SourcesOK, SourcesTyped, Done
<1>4. source \in SourceRecords
  BY <1>3, NextFamily DEF SourceRecords, Src!Contents
<1> HIDE DEF source
<1>5. Append(me.sources, source) \in Seq(SourceRecords) /\ 1 \in 0..MaxAttempts
  BY <1>2, <1>4, DownloadsAssumption DEF CommandStates
<1>6. more \in CommandStates /\ more.sources = Append(me.sources, source)
      /\ more.plan = me.plan /\ more.invalid = me.invalid
  BY <1>2, <1>5 DEF CommandStates
<1> HIDE DEF more
<1>7. Src!Following(more) = IF Done(more) = Len(PlanFamilies[me.plan]) THEN "finish" ELSE "fetch"
  BY <1>6 DEF Src!Following, Done
<1>8. /\ new \in CommandStates /\ new.sources = more.sources /\ new.plan = more.plan
      /\ new.invalid = more.invalid /\ new.pc = Src!Following(more)
  BY <1>6, <1>7 DEF CommandStates
<1> HIDE DEF new, me
<1>9. Sealed(me, new, answer)
  BY <1>6, <1>7, <1>8 DEF Sealed, Done, source
<1>10. command \in [Commands -> CommandStates]
  BY DEF SourcesOK, SourcesTyped
<1> QED BY <1>1, <1>8, <1>9, <1>10 DEF me

\* A command whose attempt failed has one family more that is invalid, or as many.
LEMMA TryAgainMoves ==
    ASSUME SourcesOK, NEW c \in Commands, command[c].pc = "fetch", Src!TryAgain(c)
    PROVE  /\ TriedAgain(command[c], command'[c])
           /\ \A d \in Commands \ {c} : command'[d] = command[d]
           /\ command' \in [Commands -> CommandStates]
<1> DEFINE me == command[c]
           family == PlanFamilies[me.plan][Done(me) + 1]
           given == [me EXCEPT !.invalid = Append(@, family), !.attempt = 1]
           again == [me EXCEPT !.attempt = @ + 1, !.pc = "fetch"]
           over == [given EXCEPT !.pc = Src!Following(given)]
<1>1. command' = [command EXCEPT ![c] = IF me.attempt < MaxAttempts THEN again ELSE over]
  BY DEF Src!TryAgain, Src!Goes, Src!Family, Done
<1>2. me \in CommandStates /\ CommandOK(me) /\ Runs(me) /\ me.pc # "finish"
  BY DEF SourcesOK, SourcesTyped, Runs
<1>3. me.plan \in PlanIds /\ Done(me) \in Nat /\ Done(me) < Len(PlanFamilies[me.plan])
  BY <1>2 DEF CommandOK, CommandStates, SourcesOK, SourcesTyped, Done
<1>4. family \in STRING
  BY <1>3, NextFamily
<1> HIDE DEF family
<1>5. Append(me.invalid, family) \in Seq(STRING) /\ 1 \in 0..MaxAttempts
  BY <1>2, <1>4, DownloadsAssumption DEF CommandStates
<1>6. given \in CommandStates /\ given.invalid = Append(me.invalid, family)
      /\ given.plan = me.plan /\ given.sources = me.sources
  BY <1>2, <1>5 DEF CommandStates
<1> HIDE DEF given
<1>7. Src!Following(given) = IF Done(given) = Len(PlanFamilies[me.plan]) THEN "finish" ELSE "fetch"
  BY <1>6 DEF Src!Following, Done
<1>8. /\ over \in CommandStates /\ over.sources = given.sources /\ over.plan = given.plan
      /\ over.invalid = given.invalid /\ over.pc = Src!Following(given)
  BY <1>6, <1>7 DEF CommandStates
<1>9. me.attempt < MaxAttempts =>
         /\ again \in CommandStates /\ again.sources = me.sources /\ again.plan = me.plan
         /\ again.invalid = me.invalid /\ again.pc = "fetch"
  <2>1. ASSUME me.attempt < MaxAttempts PROVE me.attempt + 1 \in 0..MaxAttempts
    BY <1>2, <2>1, DownloadsAssumption DEF CommandStates
  <2> QED BY <1>2, <2>1 DEF CommandStates
<1> HIDE DEF over, again, me
<1>10. TriedAgain(me, IF me.attempt < MaxAttempts THEN again ELSE over)
  BY <1>6, <1>7, <1>8, <1>9 DEF TriedAgain, Done, family
<1>11. command \in [Commands -> CommandStates]
  BY DEF SourcesOK, SourcesTyped
<1> QED BY <1>1, <1>8, <1>9, <1>10, <1>11 DEF me

\* A command that does nothing is as it should be.
LEMMA IdleIsTyped ==
    Src!Idle \in CommandStates /\ Src!Idle.pc = "idle" /\ ~ Runs(Src!Idle) /\ CommandOK(Src!Idle)
<1>1. <<>> \in Seq(SourceRecords) /\ <<>> \in Seq(STRING) /\ 0 \in 0..MaxAttempts
  BY DownloadsAssumption
<1>2. Src!Idle \in CommandStates /\ Src!Idle.pc = "idle"
  BY <1>1 DEF Src!Idle, CommandStates
<1> QED BY <1>2 DEF Runs, CommandOK

\* At the beginning no plan is in use.
LEMMA SourcesInit == Src!Init => SourcesOK
<1> SUFFICES ASSUME Src!Init PROVE SourcesOK
  OBVIOUS
<1> USE DEF Src!Init
<1>1. Src!Idle \in CommandStates /\ Src!Idle.pc = "idle"
  BY IdleIsTyped
<1>2. SourcesTyped
  BY <1>1 DEF SourcesTyped, PlanIds, Src!Plans
<1>3. \A c \in Commands : CommandOK(command[c]) /\ ~ Runs(command[c])
  BY <1>1 DEF CommandOK, Runs
<1>4. \A p \in PlanIds : manifests[p] = Src!None
  BY DEF PlanIds, Src!Plans
<1> QED BY <1>2, <1>3, <1>4 DEF SourcesOK, ManifestOK, PlansApart, InUse

\* Each of the steps that go through the families leaves a command as it should be.
LEMMA SealedIsOK ==
    ASSUME SourcesOK, NEW c \in Commands, NEW new, NEW answer \in Answers,
           command[c].pc \in {"fetch", "store"}, Sealed(command[c], new, answer)
    PROVE  CommandOK(new) /\ Runs(new) /\ new.plan = command[c].plan
<1> DEFINE me == command[c]
           source == [family |-> PlanFamilies[me.plan][Done(me) + 1],
                      content |-> answer.content, url |-> answer.url]
           families == PlanFamilies[me.plan]
<1>1. /\ me \in CommandStates /\ CommandOK(me) /\ Runs(me) /\ me.pc # "finish"
      /\ new \in CommandStates
  BY DEF SourcesOK, SourcesTyped, Runs, Sealed
<1>2. me.plan \in PlanIds /\ Done(me) \in Nat /\ Done(me) < Len(families) /\ Len(families) \in Nat
  BY <1>1, PlansAssumption DEF CommandOK, CommandStates, SourcesOK, SourcesTyped, Done, PlanIds
<1>3. source \in SourceRecords /\ source.family = families[Done(me) + 1]
  BY <1>2, NextFamily DEF SourceRecords, Src!Contents
<1>4. /\ new.sources = Append(me.sources, source) /\ new.plan = me.plan
      /\ new.invalid = me.invalid /\ new.pc \in {"fetch", "finish"}
      /\ new.pc = "fetch" => Done(new) # Len(families)
  BY DEF Sealed
<1>5. me.sources \in Seq(SourceRecords) /\ Len(me.sources) \in Nat /\ Len(me.invalid) \in Nat
  BY <1>1 DEF CommandStates
<1> HIDE DEF source, me, families
<1>6. /\ Len(new.sources) = Len(me.sources) + 1 /\ DOMAIN new.sources = 1..(Len(me.sources) + 1)
      /\ \A i \in 1..Len(me.sources) : new.sources[i] = me.sources[i]
      /\ new.sources[Len(me.sources) + 1] = source
      /\ DOMAIN me.sources = 1..Len(me.sources)
  BY <1>3, <1>4, <1>5
<1>7. Done(new) = Done(me) + 1
  <2>1. Len(new.invalid) = Len(me.invalid)
    BY <1>4
  <2>2. Done(new) = (Len(me.sources) + 1) + Len(me.invalid)
    BY <1>6, <2>1 DEF Done
  <2>3. Len(me.sources) \in Nat /\ Len(me.invalid) \in Nat
    BY <1>5
  <2>4. Done(me) = Len(me.sources) + Len(me.invalid)
    BY DEF Done
  <2>5. (Len(me.sources) + 1) + Len(me.invalid) = (Len(me.sources) + Len(me.invalid)) + 1
    BY <2>3, OneMore
  <2> QED BY <2>2, <2>4, <2>5
<1>8. /\ me.plan \in directory
      /\ \A i, j \in 1..Len(families) : families[i] = families[j] => i = j
      /\ \A i \in 1..Len(me.sources) : \E k \in 1..Done(me) : me.sources[i].family = families[k]
      /\ \A i, j \in 1..Len(me.sources) : me.sources[i].family = me.sources[j].family => i = j
      /\ NamesOnce(me.plan)
  <2>1. families \in Seq(STRING)
    BY <1>2, PlansAssumption DEF PlanIds, families
  <2>2. DOMAIN families = 1..Len(families) /\ DOMAIN PlanFamilies[me.plan] = 1..Len(families)
    BY <2>1 DEF families
  <2>3. me.plan \in directory /\ NamesOnce(me.plan)
    BY <1>1 DEF CommandOK
  <2>4. /\ \A i \in DOMAIN me.sources : \E k \in 1..Done(me) : me.sources[i].family = families[k]
        /\ \A i, j \in DOMAIN me.sources : me.sources[i].family = me.sources[j].family => i = j
    BY <1>1 DEF CommandOK, families
  <2> QED BY <1>6, <2>2, <2>3, <2>4 DEF NamesOnce, families
<1>9. \A i \in 1..Len(me.sources) : me.sources[i].family # source.family
  BY <1>2, <1>3, <1>8
<1>10. \A i \in DOMAIN new.sources : \E k \in 1..Done(new) : new.sources[i].family = families[k]
  <2>1. \A i \in 1..Len(me.sources) : \E k \in 1..Done(new) : new.sources[i].family = families[k]
    <3> SUFFICES ASSUME NEW i \in 1..Len(me.sources)
                 PROVE  \E k \in 1..Done(new) : new.sources[i].family = families[k]
      OBVIOUS
    <3>1. PICK k \in 1..Done(me) : me.sources[i].family = families[k]
      BY <1>8
    <3>2. k \in 1..Done(new)
      BY <1>2, <1>7
    <3>3. new.sources[i] = me.sources[i]
      BY <1>6
    <3> QED BY <3>1, <3>2, <3>3
  <2>2. Done(new) \in 1..Done(new) /\ source.family = families[Done(new)]
    BY <1>2, <1>3, <1>7
  <2> QED BY <1>5, <1>6, <2>1, <2>2
<1>11. \A i, j \in DOMAIN new.sources : new.sources[i].family = new.sources[j].family => i = j
  <2> SUFFICES ASSUME NEW i \in 1..(Len(me.sources) + 1), NEW j \in 1..(Len(me.sources) + 1),
                      new.sources[i].family = new.sources[j].family
               PROVE  i = j
    BY <1>6
  <2>1. CASE i \in 1..Len(me.sources) /\ j \in 1..Len(me.sources)
    BY <1>6, <1>8, <2>1
  <2>2. CASE i \in 1..Len(me.sources) /\ j = Len(me.sources) + 1
    BY <1>6, <1>9, <2>2
  <2>3. CASE j \in 1..Len(me.sources) /\ i = Len(me.sources) + 1
    BY <1>6, <1>9, <2>3
  <2> QED BY <1>5, <2>1, <2>2, <2>3
<1>12. Done(new) <= Len(families) /\ (new.pc # "finish" => Done(new) < Len(families))
  BY <1>2, <1>4, <1>7
<1>13. new.pc # "store" /\ PlanFamilies[new.plan] = families
  BY <1>4 DEF families
<1> QED BY <1>4, <1>8, <1>10, <1>11, <1>12, <1>13 DEF CommandOK, Runs, me

\* The same for an attempt that failed.
LEMMA TriedAgainIsOK ==
    ASSUME SourcesOK, NEW c \in Commands, NEW new,
           command[c].pc = "fetch", TriedAgain(command[c], new)
    PROVE  CommandOK(new) /\ Runs(new) /\ new.plan = command[c].plan
<1> DEFINE me == command[c]
           families == PlanFamilies[me.plan]
<1>1. /\ me \in CommandStates /\ CommandOK(me) /\ Runs(me) /\ me.pc # "finish"
      /\ new \in CommandStates
  BY DEF SourcesOK, SourcesTyped, Runs, TriedAgain
<1>2. me.plan \in PlanIds /\ Done(me) \in Nat /\ Done(me) < Len(families) /\ Len(families) \in Nat
  BY <1>1, PlansAssumption DEF CommandOK, CommandStates, SourcesOK, SourcesTyped, Done, PlanIds
<1>3. /\ new.plan = me.plan /\ new.sources = me.sources /\ new.pc \in {"fetch", "finish"}
      /\ \/ new.invalid = me.invalid /\ new.pc = "fetch"
         \/ /\ new.invalid = Append(me.invalid, families[Done(me) + 1])
            /\ new.pc = "fetch" => Done(new) # Len(families)
  BY DEF TriedAgain
<1>4. /\ Done(new) = Done(me) \/ Done(new) = Done(me) + 1
      /\ new.pc = "fetch" => Done(new) < Len(families)
  <2>1. families[Done(me) + 1] \in STRING
    BY <1>2, NextFamily
  <2>2. me.invalid \in Seq(STRING) /\ Len(me.sources) \in Nat
    BY <1>1 DEF CommandStates
  <2> HIDE DEF me, families
  <2>3. CASE new.invalid = me.invalid /\ new.pc = "fetch"
    BY <1>2, <1>3, <2>3 DEF Done
  <2>4. CASE /\ new.invalid = Append(me.invalid, families[Done(me) + 1])
             /\ new.pc = "fetch" => Done(new) # Len(families)
    <3>1. Len(new.invalid) = Len(me.invalid) + 1 /\ Len(me.invalid) \in Nat
      BY <2>1, <2>2, <2>4
    <3>2. Done(new) = Done(me) + 1
      <4>1. Done(new) = Len(me.sources) + (Len(me.invalid) + 1)
        BY <1>3, <3>1 DEF Done
      <4>2. Done(me) = Len(me.sources) + Len(me.invalid)
        BY DEF Done
      <4>3. Len(me.sources) + (Len(me.invalid) + 1) = (Len(me.sources) + Len(me.invalid)) + 1
        BY <2>2, <3>1, OneMore
      <4> QED BY <4>1, <4>2, <4>3
    <3> QED BY <1>2, <2>4, <3>2
  <2> QED BY <1>3, <2>3, <2>4
<1>5. \A k \in 1..Done(me) : k \in 1..Done(new)
  BY <1>2, <1>4
<1> QED BY <1>1, <1>2, <1>3, <1>4, <1>5 DEF CommandOK, Runs

\* Whoever is in use is preregistered.
LEMMA InUseIsListed ==
    ASSUME SourcesOK, NEW p \in PlanIds, InUse(p)
    PROVE  p \in directory
BY DEF SourcesOK, InUse, CommandOK, ManifestOK

\* Steps that bring no plan into use, and change one command at most.
LEMMA KeepsSources ==
    ASSUME SourcesOK, SourcesTyped', directory' = directory,
           \A p \in PlanIds : ManifestOK(p)',
           NEW c \in Commands, CommandOK(command'[c]),
           \A d \in Commands \ {c} : command'[d] = command[d],
           Runs(command'[c]) => InUse(command'[c].plan),
           \A p \in PlanIds : manifests'[p] # Src!None => InUse(p)
    PROVE  SourcesOK'
<1>1. \A d \in Commands : CommandOK(command[d])'
  BY DEF SourcesOK, CommandOK
<1>2. ASSUME NEW p \in PlanIds, InUse(p)' PROVE InUse(p)
  <2>1. CASE manifests'[p] # Src!None
    BY <2>1
  <2>2. CASE \E d \in Commands : Runs(command'[d]) /\ command'[d].plan = p
    BY <2>2 DEF InUse
  <2> QED BY <1>2, <2>1, <2>2 DEF InUse, Runs
<1>3. PlansApart'
  BY <1>2 DEF SourcesOK, PlansApart
<1> QED BY <1>1, <1>3 DEF SourcesOK

\* A new plan is not in use yet.
LEMMA PreregisterOK ==
    ASSUME SourcesOK, NEW p \in PlanIds \ directory, Src!Preregister(p)
    PROVE  SourcesOK'
<1>1. /\ directory' = directory \cup {p} /\ command' = command /\ manifests' = manifests
      /\ store' = store /\ harm' = harm
  BY DEF Src!Preregister
<1>2. SourcesTyped'
  BY <1>1 DEF SourcesOK, SourcesTyped, CommandStates, ManifestStates
<1>3. \A c \in Commands : CommandOK(command[c])'
  BY <1>1 DEF SourcesOK, CommandOK
<1>4. \A q \in PlanIds : ManifestOK(q)'
  BY <1>1 DEF SourcesOK, ManifestOK
<1>5. PlansApart'
  BY <1>1 DEF SourcesOK, PlansApart, InUse
<1> QED BY <1>2, <1>3, <1>4, <1>5 DEF SourcesOK

\* A command takes a plan into use that shares no family with any other in the directory.
LEMMA StartOK ==
    ASSUME SourcesOK, NEW c \in Commands, NEW p \in PlanIds, Src!Start(c, p)
    PROVE  SourcesOK'
<1> DEFINE new == [Src!Idle EXCEPT !.pc = "fetch", !.plan = p, !.attempt = 1]
<1>1. /\ p \in directory /\ Src!PlanLoads(p) /\ command[c].pc = "idle"
      /\ directory' = directory /\ command' = [command EXCEPT ![c] = new]
      /\ manifests' = manifests /\ store' = store /\ harm' = harm
  BY DEF Src!Start
<1>2. Src!Idle \in CommandStates /\ 1 \in 0..MaxAttempts
  BY IdleIsTyped, DownloadsAssumption
<1>3. new \in CommandStates /\ new.pc = "fetch" /\ new.plan = p /\ new.sources = <<>>
      /\ new.invalid = <<>>
  BY <1>2 DEF CommandStates, Src!Idle
<1> HIDE DEF new
<1>4. command \in [Commands -> CommandStates]
  BY DEF SourcesOK, SourcesTyped
<1>5. /\ command' \in [Commands -> CommandStates] /\ command'[c] = new
      /\ \A d \in Commands \ {c} : command'[d] = command[d]
  BY <1>1, <1>3, <1>4
<1>6. SourcesTyped'
  BY <1>1, <1>5 DEF SourcesOK, SourcesTyped
<1>7. CommandOK(new)
  <2>1. NamesOnce(p)
    BY <1>1, LoadedPlanNamesOnce, SameCardinality DEF Src!PlanLoads
  <2>2. PlanFamilies[p] # <<>> /\ PlanFamilies[p] \in Seq(STRING)
    BY PlansAssumption DEF PlanIds
  <2>3. Len(PlanFamilies[p]) \in Nat \ {0}
    BY <2>2
  <2>4. Done(new) = 0 /\ DOMAIN new.sources = {}
    BY <1>3 DEF Done
  <2> QED BY <1>1, <1>3, <2>1, <2>3, <2>4 DEF CommandOK
<1>8. \A d \in Commands : CommandOK(command[d])'
  BY <1>1, <1>5, <1>7 DEF SourcesOK, CommandOK
<1>9. \A q \in PlanIds : ManifestOK(q)'
  BY <1>1 DEF SourcesOK, ManifestOK
<1>10. ASSUME NEW q \in PlanIds, q # p, InUse(q)
       PROVE  Src!FamiliesOf(p) \cap Src!FamiliesOf(q) = {}
  <2>1. q \in directory \ {p}
    BY <1>10, InUseIsListed
  <2>2. Src!FamiliesOf(q) \subseteq Src!Consumed(p)
    BY <2>1 DEF Src!Consumed
  <2> QED BY <1>1, <2>2 DEF Src!PlanLoads
<1>11. ASSUME NEW q \in PlanIds, InUse(q)' PROVE q = p \/ InUse(q)
  BY <1>1, <1>3, <1>5, <1>11 DEF InUse, Runs
<1>12. PlansApart'
  BY <1>10, <1>11 DEF PlansApart, SourcesOK
<1> QED BY <1>6, <1>8, <1>9, <1>12 DEF SourcesOK

\* Fail, Download and Store move one command over a family, or have it try again.
LEMMA CommandMovesOK ==
    ASSUME SourcesOK, NEW c \in Commands, command[c].pc \in {"fetch", "store"},
           \/ \E answer \in Answers : Sealed(command[c], command'[c], answer)
           \/ command[c].pc = "fetch" /\ TriedAgain(command[c], command'[c]),
           command' \in [Commands -> CommandStates],
           \A d \in Commands \ {c} : command'[d] = command[d],
           directory' = directory, manifests' = manifests, harm' = harm,
           store' \in [Src!Contents -> {"absent", "whole", "damaged"}]
    PROVE  SourcesOK'
<1>1. CommandOK(command'[c]) /\ Runs(command'[c]) /\ command'[c].plan = command[c].plan
  BY SealedIsOK, TriedAgainIsOK
<1>2. SourcesTyped'
  BY DEF SourcesOK, SourcesTyped
<1>3. \A p \in PlanIds : ManifestOK(p)'
  BY DEF SourcesOK, ManifestOK
<1>4. InUse(command'[c].plan)
  BY <1>1 DEF InUse, Runs
<1>5. \A p \in PlanIds : manifests'[p] # Src!None => InUse(p)
  BY DEF InUse
<1> QED BY <1>1, <1>2, <1>3, <1>4, <1>5, KeepsSources

\* A failed attempt keeps the invariant.
LEMMA FailOK ==
    ASSUME SourcesOK, NEW c \in Commands, Src!Fail(c) PROVE SourcesOK'
<1>1. /\ command[c].pc = "fetch" /\ Src!TryAgain(c)
      /\ directory' = directory /\ manifests' = manifests /\ harm' = harm /\ store' = store
  BY DEF Src!Fail
<1>2. store \in [Src!Contents -> {"absent", "whole", "damaged"}]
  BY DEF SourcesOK, SourcesTyped
<1>3. /\ TriedAgain(command[c], command'[c])
      /\ \A d \in Commands \ {c} : command'[d] = command[d]
      /\ command' \in [Commands -> CommandStates]
  BY <1>1, TryAgainMoves
<1> QED BY <1>1, <1>2, <1>3, CommandMovesOK

\* An answer is to be stored, is sealed, or counts as a failed attempt.
LEMMA DownloadOK ==
    ASSUME SourcesOK, NEW c \in Commands, Src!Download(c) PROVE SourcesOK'
<1>1. /\ command[c].pc = "fetch"
      /\ directory' = directory /\ manifests' = manifests /\ harm' = harm /\ store' = store
  BY DEF Src!Download
<1>2. store' \in [Src!Contents -> {"absent", "whole", "damaged"}]
  BY <1>1 DEF SourcesOK, SourcesTyped
<1>3. PICK answer \in Answers :
         \/ Src!Goes(c, [command[c] EXCEPT !.pc = "store", !.answer = answer])
         \/ Src!Seal(c, answer)
         \/ Src!TryAgain(c)
  BY DEF Src!Download
<1>4. CASE Src!Goes(c, [command[c] EXCEPT !.pc = "store", !.answer = answer])
  <2> DEFINE new == [command[c] EXCEPT !.pc = "store", !.answer = answer]
  <2>1. command' = [command EXCEPT ![c] = new]
    BY <1>4 DEF Src!Goes
  <2>2. command \in [Commands -> CommandStates] /\ command[c] \in CommandStates
    BY DEF SourcesOK, SourcesTyped
  <2>3. /\ new \in CommandStates /\ new.pc = "store" /\ new.plan = command[c].plan
        /\ new.sources = command[c].sources /\ new.invalid = command[c].invalid
        /\ new.answer = answer
    BY <2>2 DEF CommandStates
  <2> HIDE DEF new
  <2>4. /\ command' \in [Commands -> CommandStates] /\ command'[c] = new
        /\ \A d \in Commands \ {c} : command'[d] = command[d]
    BY <2>1, <2>2, <2>3
  <2>5. CommandOK(command[c]) /\ Runs(command[c])
    BY <1>1 DEF SourcesOK, Runs
  <2>6. CommandOK(new)
    <3>1. Done(new) = Done(command[c])
      BY <2>3 DEF Done
    <3> QED BY <1>1, <2>3, <2>5, <3>1 DEF CommandOK, Runs
  <2>7. SourcesTyped'
    BY <1>1, <1>2, <2>4 DEF SourcesOK, SourcesTyped
  <2>8. \A p \in PlanIds : ManifestOK(p)' /\ (manifests'[p] # Src!None => InUse(p))
    BY <1>1 DEF SourcesOK, ManifestOK, InUse
  <2>9. InUse(new.plan)
    BY <2>3, <2>5 DEF InUse
  <2> QED BY <1>1, <2>4, <2>6, <2>7, <2>8, <2>9, KeepsSources
<1>5. CASE Src!Seal(c, answer)
  <2>1. /\ Sealed(command[c], command'[c], answer)
        /\ \A d \in Commands \ {c} : command'[d] = command[d]
        /\ command' \in [Commands -> CommandStates]
    BY <1>1, <1>5, SealMoves
  <2> QED BY <1>1, <1>2, <2>1, CommandMovesOK
<1>6. CASE Src!TryAgain(c)
  <2>1. /\ TriedAgain(command[c], command'[c])
        /\ \A d \in Commands \ {c} : command'[d] = command[d]
        /\ command' \in [Commands -> CommandStates]
    BY <1>1, <1>6, TryAgainMoves
  <2> QED BY <1>1, <1>2, <2>1, CommandMovesOK
<1> QED BY <1>3, <1>4, <1>5, <1>6

\* What is stored is sealed in the same step.
LEMMA StoreOK ==
    ASSUME SourcesOK, NEW c \in Commands, Src!Store(c) PROVE SourcesOK'
<1>1. /\ command[c].pc = "store" /\ Src!Seal(c, command[c].answer)
      /\ store' = [store EXCEPT ![command[c].answer.content] = "whole"]
      /\ directory' = directory /\ manifests' = manifests /\ harm' = harm
  BY DEF Src!Store
<1>2. command[c].answer \in Answers
  BY <1>1 DEF SourcesOK, CommandOK
<1>3. store \in [Src!Contents -> {"absent", "whole", "damaged"}]
  BY DEF SourcesOK, SourcesTyped
<1>4. store' \in [Src!Contents -> {"absent", "whole", "damaged"}]
  BY <1>1, <1>3
<1>5. /\ Sealed(command[c], command'[c], command[c].answer)
      /\ \A d \in Commands \ {c} : command'[d] = command[d]
      /\ command' \in [Commands -> CommandStates]
  BY <1>1, <1>2, SealMoves
<1> QED BY <1>1, <1>2, <1>4, <1>5, CommandMovesOK

\* A manifest has the sources of its command, and those are of the families of its plan.
LEMMA FinishOK ==
    ASSUME SourcesOK, NEW c \in Commands, Src!Finish(c) PROVE SourcesOK'
<1> DEFINE me == command[c]
           over == [Src!Idle EXCEPT !.pc = "ended"]
           manifest == [status |-> IF me.invalid = <<>> THEN "complete" ELSE "incomplete",
                        sources |-> me.sources, invalid |-> me.invalid]
<1>1. /\ me.pc = "finish" /\ command' = [command EXCEPT ![c] = over]
      /\ directory' = directory /\ store' = store /\ harm' = harm
      /\ \/ manifests' = manifests
         \/ /\ Src!ManifestValid(me)
            /\ manifests' = [manifests EXCEPT ![me.plan] = manifest]
  BY DEF Src!Finish, Src!Goes, Src!WriteManifestAtomic
<1>2. me \in CommandStates /\ CommandOK(me) /\ Runs(me)
  BY <1>1 DEF SourcesOK, SourcesTyped, Runs
<1>3. over \in CommandStates /\ over.pc = "ended"
  BY IdleIsTyped DEF CommandStates
<1>4. CommandOK(over) /\ ~ Runs(over)
  BY <1>3 DEF CommandOK, Runs
<1> HIDE DEF over
<1>5. command \in [Commands -> CommandStates]
  BY DEF SourcesOK, SourcesTyped
<1>6. /\ command' \in [Commands -> CommandStates] /\ command'[c] = over
      /\ \A d \in Commands \ {c} : command'[d] = command[d]
  BY <1>1, <1>3, <1>5
<1>7. me.plan \in directory /\ me.plan \in PlanIds
  BY <1>2 DEF CommandOK, SourcesOK, SourcesTyped
<1>8. manifest \in ManifestStates /\ manifest.sources = me.sources
  BY <1>2 DEF ManifestStates, CommandStates
<1> HIDE DEF manifest
<1>9. manifests \in [PlanIds -> ManifestStates \cup {Src!None}]
  BY DEF SourcesOK, SourcesTyped
<1>10. manifests' \in [PlanIds -> ManifestStates \cup {Src!None}]
  BY <1>1, <1>7, <1>8, <1>9
<1>11. SourcesTyped'
  BY <1>1, <1>6, <1>10 DEF SourcesOK, SourcesTyped
<1>12. \A p \in PlanIds : manifests'[p] = manifests[p]
                          \/ (Src!ManifestValid(me) /\ p = me.plan /\ manifests'[p] = manifest)
  BY <1>1, <1>7, <1>9
<1>13. ASSUME NEW p \in PlanIds PROVE ManifestOK(p)'
  <2>1. CASE manifests'[p] = manifests[p]
    BY <1>1, <2>1 DEF SourcesOK, ManifestOK
  <2>2. CASE Src!ManifestValid(me) /\ p = me.plan /\ manifests'[p] = manifest
    <3>1. ASSUME NEW i \in DOMAIN me.sources PROVE me.sources[i].family \in Src!FamiliesOf(p)
      <4>1. PICK k \in 1..Done(me) : me.sources[i].family = PlanFamilies[p][k]
        BY <1>2, <2>2 DEF CommandOK
      <4>2. PlanFamilies[p] \in Seq(STRING) /\ Len(PlanFamilies[p]) \in Nat
        BY <1>7, <2>2, PlansAssumption DEF PlanIds
      <4>3. Done(me) \in Nat /\ Done(me) <= Len(PlanFamilies[p])
        <5>1. Len(me.sources) \in Nat /\ Len(me.invalid) \in Nat
          BY <1>2 DEF CommandStates
        <5>2. Done(me) <= Len(PlanFamilies[p])
          BY <1>2, <2>2 DEF CommandOK
        <5>3. Done(me) = Len(me.sources) + Len(me.invalid)
          BY DEF Done
        <5> HIDE DEF me
        <5> QED BY <5>1, <5>2, <5>3, OneMore
      <4>4. k \in DOMAIN PlanFamilies[p]
        BY <4>2, <4>3
      <4> QED BY <4>1, <4>4 DEF Src!FamiliesOf, Src!ToSet
    <3>2. ASSUME NEW i \in DOMAIN me.sources, NEW j \in DOMAIN me.sources, i # j
          PROVE  /\ me.sources[i].family # me.sources[j].family
                 /\ me.sources[i].content # me.sources[j].content
                 /\ me.sources[i].url # me.sources[j].url
      BY <1>2, <2>2, <3>2 DEF CommandOK, Src!ManifestValid
    <3>3. p \in directory' /\ manifests'[p].sources = me.sources
      BY <1>1, <1>7, <1>8, <2>2
    <3> QED BY <3>1, <3>2, <3>3 DEF ManifestOK
  <2> QED BY <1>12, <2>1, <2>2
<1>14. \A p \in PlanIds : manifests'[p] # Src!None => InUse(p)
  BY <1>2, <1>12 DEF InUse
<1> HIDE DEF me
<1> QED BY <1>1, <1>4, <1>6, <1>11, <1>13, <1>14, KeepsSources

\* A command that is killed is as if it had not run.
LEMMA KillOK ==
    ASSUME SourcesOK, NEW c \in Commands, Src!Kill(c) PROVE SourcesOK'
<1>1. /\ command' = [command EXCEPT ![c] = Src!Idle]
      /\ directory' = directory /\ store' = store /\ harm' = harm /\ manifests' = manifests
  BY DEF Src!Kill, Src!Goes
<1>2. command \in [Commands -> CommandStates]
  BY DEF SourcesOK, SourcesTyped
<1>3. /\ command' \in [Commands -> CommandStates] /\ command'[c] = Src!Idle
      /\ \A d \in Commands \ {c} : command'[d] = command[d]
  BY <1>1, <1>2, IdleIsTyped
<1>4. SourcesTyped'
  BY <1>1, <1>3 DEF SourcesOK, SourcesTyped
<1>5. \A p \in PlanIds : ManifestOK(p)' /\ (manifests'[p] # Src!None => InUse(p))
  BY <1>1 DEF SourcesOK, ManifestOK, InUse
<1> QED BY <1>1, <1>3, <1>4, <1>5, IdleIsTyped, KeepsSources

\* A damaged file is none of what the invariant is about.
LEMMA DamageOK ==
    ASSUME SourcesOK, NEW x \in Src!Contents, Src!Damage(x) PROVE SourcesOK'
<1>1. /\ directory' = directory /\ command' = command /\ manifests' = manifests
      /\ store' = [store EXCEPT ![x] = "damaged"] /\ harm' = harm + 1
  BY DEF Src!Damage
<1>2. SourcesTyped'
  BY <1>1 DEF SourcesOK, SourcesTyped
<1>3. \A c \in Commands : CommandOK(command[c])'
  BY <1>1 DEF SourcesOK, CommandOK
<1>4. \A p \in PlanIds : ManifestOK(p)'
  BY <1>1 DEF SourcesOK, ManifestOK
<1>5. PlansApart'
  BY <1>1 DEF SourcesOK, PlansApart, InUse
<1> QED BY <1>2, <1>3, <1>4, <1>5 DEF SourcesOK

\* No step of a command, of a preregistration or of a disk disturbs the invariant.
LEMMA SourcesStep == SourcesOK /\ [Src!Next]_sources => SourcesOK'
<1> SUFFICES ASSUME SourcesOK, [Src!Next]_sources PROVE SourcesOK'
  OBVIOUS
<1>1. CASE UNCHANGED sources
  BY <1>1 DEF sources, SourcesOK, SourcesTyped, CommandOK, ManifestOK, PlansApart, InUse
<1>2. ASSUME NEW p \in Src!Plans \ directory, Src!Preregister(p) PROVE SourcesOK'
  BY <1>2, PreregisterOK DEF Src!Plans, PlanIds
<1>3. ASSUME NEW c \in Commands, NEW p \in Src!Plans, Src!Start(c, p) PROVE SourcesOK'
  BY <1>3, StartOK DEF Src!Plans, PlanIds
<1>4. ASSUME NEW c \in Commands,
             Src!Fail(c) \/ Src!Download(c) \/ Src!Store(c) \/ Src!Finish(c) \/ Src!Kill(c)
      PROVE  SourcesOK'
  BY <1>4, FailOK, DownloadOK, StoreOK, FinishOK, KillOK
<1>5. ASSUME NEW x \in Src!Contents, Src!Damage(x) PROVE SourcesOK'
  BY <1>5, DamageOK
<1> QED BY <1>1, <1>2, <1>3, <1>4, <1>5 DEF Src!Next

\* Plans in use share no family, and the sources of a plan no family either.
LEMMA SourcesServe == SourcesOK => Src!SourcesServeOnce
<1> SUFFICES ASSUME SourcesOK,
                    NEW p \in Src!Plans, manifests[p] # Src!None,
                    NEW q \in Src!Plans, manifests[q] # Src!None,
                    NEW i \in DOMAIN manifests[p].sources, NEW j \in DOMAIN manifests[q].sources
             PROVE  LET s == manifests[p].sources[i]
                        t == manifests[q].sources[j]
                    IN  /\ s.family = t.family => p = q /\ i = j
                        /\ p = q /\ i # j => s.content # t.content /\ s.url # t.url
  BY DEF Src!SourcesServeOnce
<1>1. ManifestOK(p) /\ ManifestOK(q) /\ p \in PlanIds /\ q \in PlanIds
  BY DEF SourcesOK, Src!Plans, PlanIds
<1>2. /\ manifests[p].sources[i].family \in Src!FamiliesOf(p)
      /\ manifests[q].sources[j].family \in Src!FamiliesOf(q)
  BY <1>1 DEF ManifestOK
<1>3. p # q => Src!FamiliesOf(p) \cap Src!FamiliesOf(q) = {}
  BY <1>1 DEF SourcesOK, PlansApart, InUse
<1> QED BY <1>1, <1>2, <1>3 DEF ManifestOK


\* A family is sealed when its bytes were found whole, or have just been written.
LEMMA SealedStep ==
    SourcesOK /\ [Src!Next]_sources =>
       [\A c \in Commands :
          LET old == command[c]
              new == command'[c]
          IN  Len(new.sources) > Len(old.sources) =>
                 store'[Src!Last(new.sources).content] = "whole"]_sources
<1> SUFFICES ASSUME SourcesOK, Src!Next, NEW c \in Commands,
                    Len(command'[c].sources) > Len(command[c].sources)
             PROVE  store'[Src!Last(command'[c].sources).content] = "whole"
  OBVIOUS
<1>1. /\ command \in [Commands -> CommandStates] /\ command[c].sources \in Seq(SourceRecords)
      /\ store \in [Src!Contents -> {"absent", "whole", "damaged"}]
      /\ CommandOK(command[c])
  BY DEF SourcesOK, SourcesTyped, CommandStates
<1>2. ASSUME command'[c].sources = command[c].sources \/ command'[c].sources = <<>> PROVE FALSE
  BY <1>1, <1>2
<1>3. ASSUME NEW answer \in Answers, Src!Seal(c, answer), store'[answer.content] = "whole",
             command[c].pc \in {"fetch", "store"}
      PROVE  store'[Src!Last(command'[c].sources).content] = "whole"
  <2> DEFINE source == [family |-> PlanFamilies[command[c].plan][Done(command[c]) + 1],
                        content |-> answer.content, url |-> answer.url]
  <2>1. command'[c].sources = Append(command[c].sources, source)
    BY <1>3, SealMoves DEF Sealed
  <2>2. source.content = answer.content
    OBVIOUS
  <2> HIDE DEF source
  <2>3. Src!Last(Append(command[c].sources, source)) = source
    BY <1>1 DEF Src!Last
  <2> QED BY <1>3, <2>1, <2>2, <2>3
<1>4. ASSUME NEW p \in Src!Plans, Src!Preregister(p) PROVE FALSE
  BY <1>2, <1>4 DEF Src!Preregister
<1>5. ASSUME NEW d \in Commands, NEW p \in Src!Plans, Src!Start(d, p) PROVE FALSE
  BY <1>1, <1>2, <1>5 DEF Src!Start, Src!Idle
<1>6. ASSUME NEW d \in Commands, command[d].pc = "fetch", Src!TryAgain(d) PROVE FALSE
  BY <1>1, <1>2, <1>6, TryAgainMoves DEF TriedAgain
<1>7. ASSUME NEW d \in Commands, NEW answer \in Answers, Src!Seal(d, answer),
             command[d].pc \in {"fetch", "store"}
      PROVE  d = c
  BY <1>2, <1>7, SealMoves
<1>8. ASSUME NEW d \in Commands, Src!Fail(d) PROVE FALSE
  BY <1>6, <1>8 DEF Src!Fail
<1>9. ASSUME NEW d \in Commands, Src!Download(d)
       PROVE  store'[Src!Last(command'[c].sources).content] = "whole"
  <2>1. PICK answer \in Answers :
           \/ Src!Goes(d, [command[d] EXCEPT !.pc = "store", !.answer = answer])
           \/ store[answer.content] = "whole" /\ Src!Seal(d, answer)
           \/ Src!TryAgain(d)
    BY <1>9 DEF Src!Download
  <2>2. command[d].pc = "fetch" /\ store' = store
    BY <1>9 DEF Src!Download
  <2>3. ~ Src!Goes(d, [command[d] EXCEPT !.pc = "store", !.answer = answer])
    <3> SUFFICES ASSUME Src!Goes(d, [command[d] EXCEPT !.pc = "store", !.answer = answer])
                 PROVE  command'[c].sources = command[c].sources
      BY <1>2
    <3>1. command[d] \in CommandStates
      BY <1>1
    <3>2. [command[d] EXCEPT !.pc = "store", !.answer = answer].sources = command[d].sources
      BY <3>1 DEF CommandStates
    <3> QED BY <1>1, <3>2 DEF Src!Goes
  <2> QED BY <1>3, <1>6, <1>7, <2>1, <2>2, <2>3
<1>10. ASSUME NEW d \in Commands, Src!Store(d)
       PROVE  store'[Src!Last(command'[c].sources).content] = "whole"
  <2>1. command[d].pc = "store" /\ command[d].answer \in Answers /\ Src!Seal(d, command[d].answer)
    BY <1>10 DEF Src!Store, SourcesOK, CommandOK
  <2>2. store'[command[d].answer.content] = "whole"
    BY <1>1, <1>10, <2>1 DEF Src!Store, Src!Contents
  <2> QED BY <1>3, <1>7, <2>1, <2>2
<1>11. ASSUME NEW d \in Commands, Src!Finish(d) PROVE FALSE
  BY <1>1, <1>2, <1>11 DEF Src!Finish, Src!Goes, Src!Idle
<1>12. ASSUME NEW d \in Commands, Src!Kill(d) PROVE FALSE
  BY <1>1, <1>2, <1>12 DEF Src!Kill, Src!Goes, Src!Idle
<1>13. ASSUME NEW x \in Src!Contents, Src!Damage(x) PROVE FALSE
  BY <1>2, <1>13 DEF Src!Damage
<1> QED BY <1>4, <1>5, <1>8, <1>9, <1>10, <1>11, <1>12, <1>13 DEF Src!Next
(***************************************************************************)
(* Symbols.  What the directory of a part keeps of the catalogue remains   *)
(* what the catalogue has, as a revision is never changed; and a report    *)
(* that says "pass" is of the files as they are, as whatever changes one   *)
(* of them begins with a run or with new evidence, which ends the report.  *)
(***************************************************************************)

Identities == {bundle.identity : bundle \in Evidence}
Revisions == [identity : Identities, content : {bundle.content : bundle \in Evidence},
              numbers : Readings, regions : {Slc!Gate!Ids(bundle) : bundle \in Evidence},
              status : {"published", "quarantined"}]

SymbolsTyped ==
    /\ fixture \in Evidence
    /\ outputs = [n \in Slc!Names |-> outputs[n]]
    /\ catalogue \in Seq(Revisions)
    /\ served \in Nat /\ served <= Len(catalogue)

SpecOK == outputs.spec # absent => outputs.spec.identity \in Identities
                                   /\ outputs.spec.numbers \in Readings

IngestOK == outputs.ingest # absent => outputs.ingest \in DOMAIN catalogue

ResolvedOK ==
    LET resolved == outputs.resolved
    IN  resolved # absent =>
           /\ resolved.shaped = TRUE
           /\ resolved.revision \in DOMAIN catalogue
           /\ catalogue[resolved.revision].status = "published"
           /\ catalogue[resolved.revision].numbers = resolved.numbers

ProvenanceOK ==
    LET provenance == outputs.provenance
    IN  provenance # absent =>
           /\ provenance.fits = TRUE
           /\ provenance.revision \in DOMAIN catalogue
           /\ catalogue[provenance.revision].identity = provenance.identity
           /\ catalogue[provenance.revision].content = provenance.content
           /\ catalogue[provenance.revision].status = provenance.status

SymbolsOK ==
    /\ SymbolsTyped
    /\ SpecOK /\ IngestOK /\ ResolvedOK /\ ProvenanceOK
    /\ outputs.symbol # absent => outputs.symbol.empty = FALSE
    /\ outputs.spec # absent => outputs.spec.fits = TRUE
    /\ report = "pass" => todo = <<>> /\ Slc!VerifiedSlicesAgree

-----------------------------------------------------------------------------

\* What the verification passes: no check of any part failed.
LEMMA FailingNone ==
    ASSUME NEW checks, Slc!Gate!Failing(checks) = {}
    PROVE  \A name \in DOMAIN checks : checks[name]
BY DEF Slc!Gate!Failing

\* Every file is there and passes its own checks when the slice passes.
LEMMA SlicePasses ==
    ASSUME NEW bundle, NEW given, Slc!Gate!VerifySlice(bundle, given, TRUE) = {}
    PROVE  /\ given.spec # absent
           /\ Slc!Gate!VerifySymbolSpec(given.spec, bundle) = {}
           /\ Slc!Gate!VerifySymbolFile(given.symbol, given.spec) = {}
           /\ given.provenance # absent
           /\ Slc!Gate!VerifyProvenance(given.provenance, bundle, given.spec) = {}
           /\ given.resolved # absent
           /\ Slc!Gate!VerifyResolvedSymbol(given.resolved, given.spec) = {}
<1> DEFINE spec == given.spec
           Unless(file, failures) == IF file # absent THEN failures ELSE {"missing"}
           parts == [evidence |-> Slc!Gate!VerifyEvidenceBundle(bundle),
                     spec |-> IF spec = absent THEN {"missing"}
                              ELSE Slc!Gate!VerifySymbolSpec(spec, bundle),
                     symbol |-> IF spec = absent THEN {}
                                ELSE Slc!Gate!VerifySymbolFile(given.symbol, spec),
                     provenance |-> IF spec = absent THEN {}
                        ELSE Unless(given.provenance,
                                    Slc!Gate!VerifyProvenance(given.provenance, bundle, spec)),
                     resolved |-> IF spec = absent THEN {}
                        ELSE Unless(given.resolved,
                                    Slc!Gate!VerifyResolvedSymbol(given.resolved, spec))]
<1>1. bundle # absent /\ {<<part, parts[part]>> : part \in {p \in DOMAIN parts : parts[p] # {}}} = {}
  BY DEF Slc!Gate!VerifySlice
<1>2. \A p \in DOMAIN parts : parts[p] = {}
  <2> HIDE DEF parts
  <2> QED BY <1>1
<1>3. parts.spec = {} /\ parts.symbol = {} /\ parts.provenance = {} /\ parts.resolved = {}
  BY <1>2
<1> QED BY <1>3

\* A specification that passes is of the part and the bytes of the evidence.
LEMMA SpecPasses ==
    ASSUME NEW spec, NEW bundle, Slc!Gate!VerifySymbolSpec(spec, bundle) = {}
    PROVE  spec.identity = bundle.identity /\ spec.content = bundle.content
<1> DEFINE pins == spec.pins
           checks == [identity |-> spec.identity = bundle.identity,
             regions |-> \A i \in DOMAIN pins : pins[i].evidence \subseteq Slc!Gate!Ids(bundle),
             datasheet |-> spec.datasheet = bundle.datasheet,
             content |-> spec.content = bundle.content,
             numbers |-> \A i, j \in DOMAIN pins : pins[i].number = pins[j].number => i = j,
             confidence |-> \A i \in DOMAIN pins : pins[i].confidence >= 60]
<1>1. Slc!Gate!Failing(checks) = {}
  BY DEF Slc!Gate!VerifySymbolSpec
<1>2. \A name \in DOMAIN checks : checks[name]
  BY <1>1, FailingNone
<1>3. "identity" \in DOMAIN checks /\ "content" \in DOMAIN checks
  OBVIOUS
<1>4. checks["identity"] /\ checks["content"]
  <2> HIDE DEF checks
  <2> QED BY <1>2, <1>3
<1> QED BY <1>4

\* A symbol that passes is of the part of the specification.
LEMMA SymbolPasses ==
    ASSUME NEW symbol, NEW spec, Slc!Gate!VerifySymbolFile(symbol, spec) = {}
    PROVE  symbol.identity = spec.identity
<1> DEFINE checks == [properties |-> symbol.properties, identity |-> symbol.identity = spec.identity]
<1>1. Slc!Gate!Failing(checks) = {}
  BY DEF Slc!Gate!VerifySymbolFile
<1>2. \A name \in DOMAIN checks : checks[name]
  BY <1>1, FailingNone
<1>3. checks["identity"]
  <2>1. "identity" \in DOMAIN checks
    OBVIOUS
  <2> HIDE DEF checks
  <2> QED BY <1>2, <2>1
<1> QED BY <1>3

\* A provenance that passes is published, and of the number, package and bytes.
LEMMA ProvenancePasses ==
    ASSUME NEW provenance, NEW bundle, NEW spec,
           Slc!Gate!VerifyProvenance(provenance, bundle, spec) = {}
    PROVE  /\ provenance.identity.mpn = spec.identity.mpn
           /\ provenance.identity.package = spec.identity.package
           /\ provenance.content = bundle.content
           /\ provenance.status = "published"
<1> DEFINE checks == [mpn |-> provenance.identity.mpn = spec.identity.mpn,
                  package |-> provenance.identity.package = spec.identity.package,
                  regions |-> provenance.regions \subseteq Slc!Gate!Ids(bundle),
                  content |-> Slc!Gate!SameContent(provenance, bundle),
                  status |-> provenance.status = "published"]
<1>1. Slc!Gate!Failing(checks) = {}
  BY DEF Slc!Gate!VerifyProvenance
<1>2. \A name \in DOMAIN checks : checks[name]
  BY <1>1, FailingNone
<1>3. {"mpn", "package", "content", "status"} \subseteq DOMAIN checks
  OBVIOUS
<1>4. checks["mpn"] /\ checks["package"] /\ checks["content"] /\ checks["status"]
  <2> HIDE DEF checks
  <2> QED BY <1>2, <1>3
<1> QED BY <1>4 DEF Slc!Gate!SameContent

\* A resolved symbol that passes shows every pin of the specification.
LEMMA ResolvedPasses ==
    ASSUME NEW resolved, NEW spec, Slc!Gate!VerifyResolvedSymbol(resolved, spec) = {}
    PROVE  \A i \in DOMAIN spec.pins : spec.pins[i].number \in resolved.numbers
<1> DEFINE numbers == {spec.pins[i].number : i \in DOMAIN spec.pins}
           checks == [generated |-> resolved.generated, pins |-> numbers \subseteq resolved.numbers]
<1>1. Slc!Gate!Failing(checks) = {}
  BY DEF Slc!Gate!VerifyResolvedSymbol
<1>2. \A name \in DOMAIN checks : checks[name]
  BY <1>1, FailingNone
<1>3. checks["pins"]
  <2>1. "pins" \in DOMAIN checks
    OBVIOUS
  <2> HIDE DEF checks
  <2> QED BY <1>2, <2>1
<1> QED BY <1>3

\* What passes is of the present evidence.
LEMMA VerifiedAgree ==
    ASSUME SymbolsOK,
           Slc!Gate!VerifySlice(fixture, [outputs EXCEPT !.spec = Slc!PinsOf(@)], TRUE) = {}
    PROVE  LET shown == catalogue[outputs.resolved.revision]
               recorded == catalogue[outputs.provenance.revision]
           IN  /\ outputs.spec.content = fixture.content /\ recorded.content = fixture.content
               /\ {outputs.spec.identity, outputs.symbol.identity} = {fixture.identity}
               /\ recorded.identity.mpn = fixture.identity.mpn
               /\ recorded.identity.package = fixture.identity.package
               /\ shown.status = "published" /\ recorded.status = "published"
               /\ outputs.spec.numbers \subseteq shown.numbers
<1> DEFINE given == [outputs EXCEPT !.spec = Slc!PinsOf(@)]
           spec == Slc!PinsOf(outputs.spec)
<1>1. outputs = [n \in Slc!Names |-> outputs[n]] /\ DOMAIN outputs = Slc!Names
  BY DEF SymbolsOK, SymbolsTyped
<1>2. /\ given.spec = spec /\ given.symbol = outputs.symbol
      /\ given.provenance = outputs.provenance /\ given.resolved = outputs.resolved
  BY <1>1 DEF Slc!Names
<1> HIDE DEF given, spec
<1>3. /\ spec # absent
      /\ Slc!Gate!VerifySymbolSpec(spec, fixture) = {}
      /\ Slc!Gate!VerifySymbolFile(outputs.symbol, spec) = {}
      /\ outputs.provenance # absent
      /\ Slc!Gate!VerifyProvenance(outputs.provenance, fixture, spec) = {}
      /\ outputs.resolved # absent
      /\ Slc!Gate!VerifyResolvedSymbol(outputs.resolved, spec) = {}
  BY <1>2, SlicePasses DEF given
<1>4. /\ spec.identity = outputs.spec.identity /\ spec.content = outputs.spec.content
      /\ \A n \in outputs.spec.numbers : n \in DOMAIN spec.pins /\ spec.pins[n].number = n
  BY <1>3 DEF spec, Slc!PinsOf
<1>5. outputs.spec.identity = fixture.identity /\ outputs.spec.content = fixture.content
  BY <1>3, <1>4, SpecPasses
<1>6. outputs.symbol.identity = fixture.identity
  BY <1>3, <1>4, <1>5, SymbolPasses
<1>7. /\ outputs.provenance.identity.mpn = fixture.identity.mpn
      /\ outputs.provenance.identity.package = fixture.identity.package
      /\ outputs.provenance.content = fixture.content
      /\ outputs.provenance.status = "published"
  BY <1>3, <1>4, <1>5, ProvenancePasses
<1>8. outputs.spec.numbers \subseteq outputs.resolved.numbers
  BY <1>3, <1>4, ResolvedPasses
<1>9. ResolvedOK /\ ProvenanceOK
  BY DEF SymbolsOK
<1> QED BY <1>3, <1>5, <1>6, <1>7, <1>8, <1>9 DEF ResolvedOK, ProvenanceOK

\* At the beginning the directory and the catalogue are empty.
LEMMA SymbolsInit == Slc!Init => SymbolsOK
<1> SUFFICES ASSUME Slc!Init PROVE SymbolsOK
  OBVIOUS
<1>1. /\ fixture \in Evidence /\ catalogue = <<>> /\ served = 0 /\ report = "none"
      /\ outputs = [f \in Slc!Names |-> absent]
  BY DEF Slc!Init
<1>2. SymbolsTyped
  BY <1>1 DEF SymbolsTyped
<1>3. \A f \in {"spec", "symbol", "ingest", "resolved", "provenance"} : outputs[f] = absent
  BY <1>1 DEF Slc!Names
<1> QED BY <1>1, <1>2, <1>3 DEF SymbolsOK, SpecOK, IngestOK, ResolvedOK, ProvenanceOK

\* A stage leaves one file and the others as they are.
LEMMA LeaveMoves ==
    ASSUME SymbolsOK, NEW file \in Slc!Names, NEW content, Slc!Leave(file, content)
    PROVE  /\ outputs' = [n \in Slc!Names |-> outputs'[n]]
           /\ outputs'[file] = content
           /\ \A n \in Slc!Names \ {file} : outputs'[n] = outputs[n]
<1>1. outputs = [n \in Slc!Names |-> outputs[n]] /\ outputs' = [outputs EXCEPT ![file] = content]
  BY DEF Slc!Leave, SymbolsOK, SymbolsTyped
<1>2. outputs' = [n \in Slc!Names |-> IF n = file THEN content ELSE outputs[n]]
  BY <1>1
<1> QED BY <1>2

\* The stages of a run have something to do, and so no report of it that says "pass".
LEMMA StageStops ==
    ASSUME SymbolsOK, NEW stage, Slc!At(stage), Slc!Stop \/ Slc!Onward
    PROVE  /\ fixture' = fixture /\ report' = report /\ report' # "pass"
BY DEF SymbolsOK, Slc!At, Slc!Stop, Slc!Onward

\* A step that changes neither the catalogue nor what the server knows, and one file at most.
LEMMA OneFileOK ==
    ASSUME SymbolsOK, fixture' = fixture, report' # "pass",
           catalogue' = catalogue, served' \in Nat, served' <= Len(catalogue),
           NEW file \in Slc!Names,
           outputs' = [n \in Slc!Names |-> outputs'[n]],
           \A n \in Slc!Names \ {file} : outputs'[n] = outputs[n],
           file = "spec" => SpecOK' /\ (outputs'.spec # absent => outputs'.spec.fits = TRUE),
           file = "symbol" => outputs'.symbol.empty = FALSE,
           file = "ingest" => IngestOK',
           file = "resolved" => ResolvedOK',
           file = "provenance" => ProvenanceOK'
    PROVE  SymbolsOK'
<1>1. SymbolsTyped'
  BY DEF SymbolsOK, SymbolsTyped
<1>2. SpecOK' /\ (outputs'.spec # absent => outputs'.spec.fits = TRUE)
  BY DEF SymbolsOK, SpecOK, Slc!Names
<1>3. outputs'.symbol # absent => outputs'.symbol.empty = FALSE
  BY DEF SymbolsOK, Slc!Names
<1>4. IngestOK'
  BY DEF SymbolsOK, IngestOK, Slc!Names
<1>5. ResolvedOK'
  BY DEF SymbolsOK, ResolvedOK, Slc!Names
<1>6. ProvenanceOK'
  BY DEF SymbolsOK, ProvenanceOK, Slc!Names
<1> QED BY <1>1, <1>2, <1>3, <1>4, <1>5, <1>6 DEF SymbolsOK

\* An ingestion keeps the revisions, and answers with one that is there.
LEMMA IngestStep ==
    ASSUME SymbolsOK, NEW answer \in {"revision", "other", "lost"}, Slc!Ingest(answer)
    PROVE  SymbolsOK'
<1>1. PICK r \in IF Slc!Kept # {} THEN Slc!Kept ELSE {Len(catalogue) + 1} :
         /\ catalogue' = IF r > Len(catalogue) THEN Append(catalogue, Slc!Revision) ELSE catalogue
         /\ \/ Slc!Leave("ingest", r) /\ Slc!Onward
            \/ Slc!Leave("ingest", absent) /\ Slc!Stop
            \/ UNCHANGED outputs /\ Slc!Stop
  BY DEF Slc!Ingest
<1>2. Slc!At("ingest") /\ outputs.spec # absent /\ served' = served
  BY DEF Slc!Ingest
<1>3. /\ catalogue \in Seq(Revisions) /\ Len(catalogue) \in Nat
      /\ DOMAIN catalogue = 1..Len(catalogue) /\ served \in Nat /\ served <= Len(catalogue)
  BY DEF SymbolsOK, SymbolsTyped
<1>4. Slc!Revision \in Revisions
  BY <1>2 DEF SymbolsOK, SymbolsTyped, SpecOK, Revisions, Slc!Revision
<1>5. r \in 1..Len(catalogue) \/ r = Len(catalogue) + 1
  BY <1>1, <1>3 DEF Slc!Kept
<1>6. /\ catalogue' \in Seq(Revisions) /\ Len(catalogue') \in Nat
      /\ DOMAIN catalogue' = 1..Len(catalogue') /\ r \in DOMAIN catalogue'
      /\ Len(catalogue) <= Len(catalogue')
      /\ \A q \in DOMAIN catalogue : q \in DOMAIN catalogue' /\ catalogue'[q] = catalogue[q]
  <2>1. CASE r \in 1..Len(catalogue)
    BY <1>1, <1>3, <2>1
  <2>2. CASE r = Len(catalogue) + 1
    <3>1. r > Len(catalogue)
      BY <1>3, <2>2, OneMore
    <3>2. catalogue' = Append(catalogue, Slc!Revision)
      BY <1>1, <3>1
    <3> QED BY <1>3, <1>4, <2>2, <3>2
  <2> QED BY <1>5, <2>1, <2>2
<1>7. fixture' = fixture /\ report' # "pass"
  BY <1>1, <1>2, StageStops
<1>8. /\ outputs' = [n \in Slc!Names |-> outputs'[n]]
      /\ \A n \in Slc!Names \ {"ingest"} : outputs'[n] = outputs[n]
      /\ outputs'.ingest \in {r, absent, outputs.ingest}
  <2>1. outputs = [n \in Slc!Names |-> outputs[n]] /\ "ingest" \in Slc!Names
    BY DEF SymbolsOK, SymbolsTyped, Slc!Names
  <2>2. CASE Slc!Leave("ingest", r)
    BY <2>1, <2>2, LeaveMoves
  <2>3. CASE Slc!Leave("ingest", absent)
    BY <2>1, <2>3, LeaveMoves
  <2>4. CASE UNCHANGED outputs
    BY <2>1, <2>4
  <2> QED BY <1>1, <2>2, <2>3, <2>4
<1>9. /\ outputs'.spec = outputs.spec /\ outputs'.symbol = outputs.symbol
      /\ outputs'.resolved = outputs.resolved /\ outputs'.provenance = outputs.provenance
  BY <1>8 DEF Slc!Names
<1>10. SymbolsTyped'
  BY <1>2, <1>3, <1>6, <1>7, <1>8 DEF SymbolsOK, SymbolsTyped
<1>11. SpecOK' /\ (outputs'.spec # absent => outputs'.spec.fits = TRUE)
       /\ (outputs'.symbol # absent => outputs'.symbol.empty = FALSE)
  BY <1>9 DEF SymbolsOK, SpecOK
<1>12. IngestOK'
  BY <1>6, <1>8 DEF SymbolsOK, IngestOK
<1>13. ResolvedOK' /\ ProvenanceOK'
  BY <1>6, <1>9 DEF SymbolsOK, ResolvedOK, ProvenanceOK
<1> QED BY <1>7, <1>10, <1>11, <1>12, <1>13 DEF SymbolsOK

\* No stage, failure or new evidence lets the directory or a report disagree with the
\* catalogue.
LEMMA SymbolsStep == SymbolsOK /\ [Slc!Next]_symbols => SymbolsOK'
<1> SUFFICES ASSUME SymbolsOK, [Slc!Next]_symbols PROVE SymbolsOK'
  OBVIOUS
<1>1. CASE UNCHANGED symbols
  BY <1>1 DEF symbols, SymbolsOK, SymbolsTyped, SpecOK, IngestOK, ResolvedOK, ProvenanceOK,
              Slc!VerifiedSlicesAgree
<1>2. {"spec", "symbol", "ingest", "resolved", "provenance"} = Slc!Names
  BY DEF Slc!Names
<1>3. served \in Nat /\ served <= Len(catalogue) /\ Len(catalogue) \in Nat
      /\ catalogue \in Seq(Revisions) /\ DOMAIN catalogue = 1..Len(catalogue)
  BY DEF SymbolsOK, SymbolsTyped
\* What changes no file and no revision, and leaves no report.
<1>4. ASSUME outputs' = outputs, catalogue' = catalogue, served' = served, report' # "pass",
             fixture' \in Evidence
      PROVE  SymbolsOK'
  BY <1>4 DEF SymbolsOK, SymbolsTyped, SpecOK, IngestOK, ResolvedOK, ProvenanceOK
<1>5. ASSUME NEW stages \in Slc!StageLists, Slc!Start(stages) PROVE SymbolsOK'
  <2>1. fixture \in Evidence
    BY DEF SymbolsOK, SymbolsTyped
  <2> QED BY <1>4, <1>5, <2>1 DEF Slc!Start
<1>6. ASSUME NEW numbers \in Readings, Slc!Extract(numbers) PROVE SymbolsOK'
  <2> DEFINE spec == [fits |-> TRUE, identity |-> fixture.identity, datasheet |-> fixture.datasheet,
                      content |-> fixture.content, numbers |-> numbers]
  <2>1. Slc!At("extract") /\ Slc!Onward /\ catalogue' = catalogue /\ served' = served
    BY <1>6 DEF Slc!Extract
  <2>2. Slc!Leave("spec", spec)
    BY <1>6 DEF Slc!Extract
  <2>3. spec.fits = TRUE /\ spec.identity \in Identities /\ spec.numbers \in Readings
    BY DEF SymbolsOK, SymbolsTyped, Identities
  <2> HIDE DEF spec
  <2>4. /\ outputs' = [n \in Slc!Names |-> outputs'[n]] /\ outputs'.spec = spec
        /\ \A n \in Slc!Names \ {"spec"} : outputs'[n] = outputs[n]
    BY <1>2, <2>2, LeaveMoves
  <2>5. SpecOK' /\ outputs'.spec.fits = TRUE
    BY <2>3, <2>4 DEF SpecOK
  <2> QED BY <1>2, <1>3, <2>1, <2>4, <2>5, StageStops, OneFileOK
<1>7. ASSUME Slc!Compile PROVE SymbolsOK'
  <2> DEFINE symbol == [empty |-> FALSE, properties |-> TRUE, identity |-> outputs.spec.identity]
  <2>1. /\ Slc!At("compile") /\ Slc!Onward /\ catalogue' = catalogue /\ served' = served
        /\ Slc!Leave("symbol", symbol)
    BY <1>7 DEF Slc!Compile
  <2>2. symbol.empty = FALSE
    OBVIOUS
  <2> HIDE DEF symbol
  <2>3. /\ outputs' = [n \in Slc!Names |-> outputs'[n]] /\ outputs'.symbol = symbol
        /\ \A n \in Slc!Names \ {"symbol"} : outputs'[n] = outputs[n]
    BY <1>2, <2>1, LeaveMoves
  <2> QED BY <1>2, <1>3, <2>1, <2>2, <2>3, StageStops, OneFileOK
<1>8. ASSUME Slc!Sync PROVE SymbolsOK'
  <2>1. /\ Slc!At("sync") /\ Slc!Onward /\ catalogue' = catalogue /\ served' = Len(catalogue)
        /\ outputs' = outputs
    BY <1>8 DEF Slc!Sync
  <2>2. fixture' = fixture /\ report' # "pass"
    BY <2>1, StageStops
  <2> QED BY <1>3, <2>1, <2>2
          DEF SymbolsOK, SymbolsTyped, SpecOK, IngestOK, ResolvedOK, ProvenanceOK
<1>9. ASSUME Slc!Resolve PROVE SymbolsOK'
  <2>1. PICK r \in 1..served :
           /\ catalogue[r].status = "published"
           /\ Slc!Leave("resolved", [shaped |-> TRUE, generated |-> TRUE, revision |-> r,
                                     numbers |-> catalogue[r].numbers])
    BY <1>9 DEF Slc!Resolve
  <2> DEFINE resolved == [shaped |-> TRUE, generated |-> TRUE, revision |-> r,
                          numbers |-> catalogue[r].numbers]
  <2>2. Slc!At("resolve") /\ Slc!Onward /\ catalogue' = catalogue /\ served' = served
    BY <1>9 DEF Slc!Resolve
  <2>3. resolved.shaped = TRUE /\ resolved.revision = r /\ resolved.numbers = catalogue[r].numbers
    OBVIOUS
  <2>4. Slc!Leave("resolved", resolved)
    BY <2>1
  <2> HIDE DEF resolved
  <2>5. /\ outputs' = [n \in Slc!Names |-> outputs'[n]] /\ outputs'.resolved = resolved
        /\ \A n \in Slc!Names \ {"resolved"} : outputs'[n] = outputs[n]
    BY <1>2, <2>4, LeaveMoves
  <2>6. r \in DOMAIN catalogue
    BY <1>3
  <2>7. ResolvedOK'
    BY <2>1, <2>2, <2>3, <2>5, <2>6 DEF ResolvedOK
  <2> QED BY <1>2, <1>3, <2>2, <2>5, <2>7, StageStops, OneFileOK
<1>10. ASSUME Slc!Provenance PROVE SymbolsOK'
  <2> DEFINE r == outputs.ingest
             entry == catalogue[r]
             provenance == [fits |-> TRUE, identity |-> entry.identity, content |-> entry.content,
                            regions |-> entry.regions, status |-> entry.status, revision |-> r]
  <2>1. /\ Slc!At("provenance") /\ Slc!Onward /\ catalogue' = catalogue /\ served' = served
        /\ outputs.ingest # absent /\ Slc!Leave("provenance", provenance)
    BY <1>10 DEF Slc!Provenance
  <2>2. /\ provenance.fits = TRUE /\ provenance.revision = r
        /\ provenance.identity = catalogue[r].identity /\ provenance.content = catalogue[r].content
        /\ provenance.status = catalogue[r].status
    OBVIOUS
  <2>3. r \in DOMAIN catalogue
    BY <2>1 DEF SymbolsOK, IngestOK
  <2> HIDE DEF provenance, r
  <2>4. /\ outputs' = [n \in Slc!Names |-> outputs'[n]] /\ outputs'.provenance = provenance
        /\ \A n \in Slc!Names \ {"provenance"} : outputs'[n] = outputs[n]
    BY <1>2, <2>1, LeaveMoves
  <2>5. ProvenanceOK'
    BY <2>1, <2>2, <2>3, <2>4 DEF ProvenanceOK
  <2> QED BY <1>2, <1>3, <2>1, <2>4, <2>5, StageStops, OneFileOK
<1>11. ASSUME Slc!Verify PROVE SymbolsOK'
  <2>1. /\ todo' = <<>> /\ fixture' = fixture /\ outputs' = outputs /\ catalogue' = catalogue
        /\ served' = served
        /\ report' = IF Slc!Gate!VerifySlice(fixture, [outputs EXCEPT !.spec = Slc!PinsOf(@)], TRUE) = {}
                     THEN "pass" ELSE "fail"
    BY <1>11 DEF Slc!Verify
  <2>2. CASE report' = "pass"
    <3>1. Slc!Gate!VerifySlice(fixture, [outputs EXCEPT !.spec = Slc!PinsOf(@)], TRUE) = {}
      BY <2>1, <2>2
    <3>2. Slc!VerifiedSlicesAgree'
      BY <2>1, <3>1, VerifiedAgree DEF Slc!VerifiedSlicesAgree
    <3> QED BY <2>1, <3>2 DEF SymbolsOK, SymbolsTyped, SpecOK, IngestOK, ResolvedOK, ProvenanceOK
  <2>3. CASE report' # "pass"
    BY <1>4, <2>1, <2>3 DEF SymbolsOK, SymbolsTyped
  <2> QED BY <2>2, <2>3
<1>12. ASSUME Slc!Fail PROVE SymbolsOK'
  <2>1. report # "pass" /\ fixture \in Evidence
    BY <1>12 DEF Slc!Fail, SymbolsOK, SymbolsTyped
  <2> QED BY <1>4, <1>12, <2>1 DEF Slc!Fail
<1>13. ASSUME NEW bundle \in Evidence, Slc!Rebuild(bundle) PROVE SymbolsOK'
  BY <1>4, <1>13 DEF Slc!Rebuild
<1>14. ASSUME NEW answer \in {"revision", "other", "lost"}, Slc!Ingest(answer) PROVE SymbolsOK'
  BY <1>14, IngestStep
<1> QED BY <1>1, <1>5, <1>6, <1>7, <1>8, <1>9, <1>10, <1>11, <1>12, <1>13, <1>14 DEF Slc!Next
-----------------------------------------------------------------------------

(***************************************************************************)
(* The composition.                                                        *)
(***************************************************************************)

IInv ==
    /\ ObjectsOK /\ VectorsOK /\ ModelsOK /\ TrainingOK /\ AnnotationsOK /\ SourcesOK
    /\ SymbolsOK

\* A step is one of the subject, and leaves the other components alone.
LEMMA StepsOf ==
    [Next]_vars => /\ [Obj!Next]_objects
                   /\ [Vec!Next]_vectors
                   /\ [Mod!Next]_models
                   /\ [Trn!Next]_training
                   /\ [Rev!Next]_annotations
                   /\ [Src!Next]_sources
                   /\ [Slc!Next]_symbols
BY DEF Next, vars, objects, vectors, models, training, annotations, sources, symbols

\* The components begin in states of their invariants.
LEMMA Initially == Init => IInv
BY ObjectsInit, VectorsInit, ModelsInit, TrainingInit, AnnotationsInit, SourcesInit,
   SymbolsInit DEF Init, IInv

\* Every step of the composition keeps them.
LEMMA Inductively == IInv /\ [Next]_vars => IInv'
BY StepsOf, ObjectsStep, VectorsStep, ModelsStep, TrainingStep, AnnotationsStep, SourcesStep,
   SymbolsStep DEF IInv

\* Every component of the offline work keeps its invariant, whatever steps the subject
\* takes: the states of object_store.py, accelerators.py, eval_download.py,
\* training_runtime.py, visual_review.py, retrieval_source_seal.py and demo_run.py that
\* the other theorems rest on.
THEOREM Invariance == Spec => []IInv
<1>1. Init => IInv
  BY Initially
<1>2. IInv /\ [Next]_vars => IInv'
  BY Inductively
<1> QED BY <1>1, <1>2, PTL DEF Spec

\* object_store.py: whoever writes the key too, dies in it or loses an answer, a reference
\* that was returned resolves, to the payload unless the object was damaged since, and
\* nobody reads part of a payload.
THEOREM ReferencesResolve == Spec => []ReturnedReferencesResolve
<1>1. IInv => ReturnedReferencesResolve
  BY ObjectsResolve DEF IInv
<1> QED BY <1>1, Invariance, PTL

\* accelerators.py: when nothing is under way and no call stayed failed, a search finds
\* every region, for any number of callers and batches and however rebuilds were mixed; a
\* rebuild that ran alone leaves its own payloads and no others.
THEOREM IndexIsRestored == Spec => []RebuildRestoresTheIndex
<1>1. IInv => RebuildRestoresTheIndex
  BY VectorsRestore DEF IInv
<1> QED BY <1>1, Invariance, PTL

\* training_runtime.py, sealed_holdout.py: none of the samples of a checkpoint was known to
\* the holdout whose digest it carries, by family or by a digest passed along, and nothing
\* of any of them was if the corpus passed an audit under a holdout of that digest.
THEOREM NoCheckpointIsTainted == Spec => []CheckpointsAreUntainted
<1>1. IInv => CheckpointsAreUntainted
  BY TrainingVouches DEF IInv
<1> QED BY <1>1, Invariance, PTL

\* training_runtime.py: latest.json names a checkpoint that is there, whenever the process
\* is killed, and the last one of the process that runs.
THEOREM LatestExists == Spec => []LatestNamesACheckpoint
<1>1. IInv => LatestNamesACheckpoint
  BY DEF IInv, TrainingOK, LatestOK, LatestNamesACheckpoint
<1> QED BY <1>1, Invariance, PTL

\* retrieval_preregistration.py, retrieval_source_seal.py: a family is sealed for one
\* cycle at most and a document for one family of it, for any plans and answers.
THEOREM ServedOnce == Spec => []SourcesServeOnce
<1>1. IInv => SourcesServeOnce
  BY SourcesServe DEF IInv, SourcesServeOnce
<1> QED BY <1>1, Invariance, PTL

\* scripts/demo_run.py, scripts/verify.py: what passes the verification is of the part and
\* the datasheet that the evidence speaks of now, for any evidence and readings of it.
THEOREM SlicesAgree == Spec => []VerifiedSlicesAgree
<1>1. SymbolsOK => VerifiedSlicesAgree
  BY DEF SymbolsOK, VerifiedSlicesAgree, Slc!VerifiedSlicesAgree
<1> QED BY <1>1, Invariance, PTL DEF IInv

\* eval_download.py: a fetch returns, and the cache gains, the pinned bytes alone, and no
\* fetch is refused for a cache that holds them.
THEOREM PinnedBytes == Spec => OnlyPinnedBytesAreAccepted
<1>1. ModelsOK /\ [Mod!Next]_models =>
         [/\ cached' # cached => cached' = "pinned"
          /\ \A f \in Fetchers :
                fetch[f].pc # "returned" /\ fetch'[f].pc = "returned" => cached' = "pinned"
          /\ \A f \in Fetchers :
                fetch[f].pc = "verify" /\ cached = "pinned" => fetch'[f].pc # "refused"]_models
  BY PinnedBytesStep
<1>2. [Next]_vars => [Mod!Next]_models
  BY StepsOf
<1> QED BY <1>1, <1>2, Invariance, PTL
       
                DEF Spec, IInv, OnlyPinnedBytesAreAccepted, Mod!OnlyPinnedBytesAreAccepted,
                    Mod!vars, models

\* model_manifest.py: of several processes that materialize a model one installs it, whole.
THEOREM OneInstalls == Spec => OneModelIsInstalled
<1>1. ModelsOK /\ [Mod!Next]_models =>
         [/\ destination # Mod!Absent => destination' = destination
          /\ destination' # destination => acquire[destination'].staged = ModelFiles
          /\ \A a \in Acquirers :
                acquire[a].pc # "acquired" /\ acquire'[a].pc = "acquired" =>
                   destination' = a]_models
  BY InstallStep
<1>2. [Next]_vars => [Mod!Next]_models
  BY StepsOf
<1> QED BY <1>1, <1>2, Invariance, PTL
        DEF Spec, IInv, OneModelIsInstalled, Mod!OneModelIsInstalled, Mod!vars, models

\* visual_review.py: what a command marks as reviewed was unreviewed when it read it and is
\* attested in that very version, for any people, documents and commands.
THEOREM Attestation == Spec => ReviewsAreAttested
<1>1. AnnotationsOK /\ [Rev!Next]_annotations =>
         [\A a \in Appliers :
             applier[a].pc = "write" /\ applier'[a].pc = "applied" =>
                /\ Rev!Strict(registry')
                /\ \A d \in Documents :
                      registry'[d] # applier[a].read[d] =>
                         Rev!Unreviewed(applier[a].read[d]) /\ Rev!Attested(d, registry'[d])]_annotations
  BY AttestedStep
<1>2. [Next]_vars => [Rev!Next]_annotations
  BY StepsOf
<1> QED BY <1>1, <1>2, Invariance, PTL
        DEF Spec, IInv, ReviewsAreAttested, Rev!ReviewsAreAttested, Rev!vars, annotations

\* retrieval_source_seal.py: the cache holds the bytes that a family is sealed with.
THEOREM SealedWhole == Spec => SealedBytesAreWhole
<1>1. SourcesOK /\ [Src!Next]_sources =>
         [\A c \in Commands :
             LET old == command[c]
                 new == command'[c]
             IN  Len(new.sources) > Len(old.sources) =>
                    store'[Src!Last(new.sources).content] = "whole"]_sources
  BY SealedStep
<1>2. [Next]_vars => [Src!Next]_sources
  BY StepsOf
<1> QED BY <1>1, <1>2, Invariance, PTL
        DEF Spec, IInv, SealedBytesAreWhole, Src!SealedBytesAreWhole, Src!vars, sources
=============================================================================
