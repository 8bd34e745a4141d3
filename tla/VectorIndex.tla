---------------------------- MODULE VectorIndex ----------------------------
(***************************************************************************)
(* accelerators.py, QdrantIndex: one retrieval pack of one tenant in a     *)
(* Qdrant collection, rebuilt and dropped by several processes at a time.  *)
(* The docs call the index derived state that a rebuild restores.          *)
(*                                                                         *)
(* Every await is a request, and a caller may die or be refused between    *)
(* any two of them.  A point's id is made of tenant, pack and region, so a *)
(* second upsert of a region replaces the first; its payload names the     *)
(* policy (and project, renderer, preprocessing) of the call.              *)
(***************************************************************************)
EXTENDS Naturals, FiniteSets

CONSTANTS Rebuilders,   \* calls of rebuild_pack, each with identities of its own
          Droppers,     \* calls of drop_pack
          Batches,      \* a pack's regions come in batches 1..Batches of 128
          MaxStarts     \* how often one caller may start again

VARIABLES payloadIndexes, \* payload indexes of the collection, NoCollection if there is none
          points,         \* [batch -> the caller whose payload the points carry]
          caller,         \* [caller -> program counter, next batch and starts]
          alone           \* history: who started last, if nothing was under way then

vars == <<payloadIndexes, points, caller, alone>>

Callers == Rebuilders \cup Droppers
Absent == "absent"
NoCollection == 99
AllIndexes == 4          \* tenant_id, pack_sha256, source_sha256, project_id

Steps == {"idle", "exists", "delete", "ensure", "create", "index", "upsert", "done", "dead"}

TypeOK ==
    /\ payloadIndexes \in 0..AllIndexes \cup {NoCollection}
    /\ points \in [1..Batches -> Rebuilders \cup {Absent}]
    /\ caller \in [Callers -> [pc : Steps, at : 0..(Batches + AllIndexes), starts : 0..MaxStarts]]
    /\ alone \in Callers \cup {Absent}

Init ==
    /\ payloadIndexes = NoCollection
    /\ points = [b \in 1..Batches |-> Absent]
    /\ caller = [c \in Callers |-> [pc |-> "idle", at |-> 0, starts |-> 0]]
    /\ alone = Absent

Busy == {c \in Callers : caller[c].pc \notin {"idle", "done", "dead"}}

Goto(c, from, to, at) ==
    /\ caller[c].pc = from
    /\ caller' = [caller EXCEPT ![c].pc = to, ![c].at = at]

----------------------------------------------------------------------------

\* rebuild_pack and drop_pack begin with drop_pack; a dead or finished caller may
\* be started again.
Start(c) ==
    /\ caller[c].pc \in {"idle", "done", "dead"}
    /\ caller[c].starts < MaxStarts
    /\ caller' = [caller EXCEPT ![c] = [pc |-> "exists", at |-> 0, starts |-> @.starts + 1]]
    /\ alone' = IF Busy = {} THEN c ELSE Absent
    /\ UNCHANGED <<payloadIndexes, points>>

AfterDrop(c) == IF c \in Rebuilders THEN "ensure" ELSE "done"

\* collection_exists(): nothing to drop if there is no collection.
DropExists(c) ==
    /\ Goto(c, "exists", IF payloadIndexes = NoCollection THEN AfterDrop(c) ELSE "delete", 0)
    /\ UNCHANGED <<payloadIndexes, points, alone>>

\* delete() by tenant and pack waits until the points are gone.
DropPack(c) ==
    /\ Goto(c, "delete", AfterDrop(c), 0)
    /\ points' = [b \in 1..Batches |-> Absent]
    /\ UNCHANGED <<payloadIndexes, alone>>

\* ensure_collection(): a collection that exists is taken as complete.
EnsureExists(c) ==
    /\ IF payloadIndexes = NoCollection
       THEN Goto(c, "ensure", "create", 0)
       ELSE Goto(c, "ensure", "upsert", 1)
    /\ UNCHANGED <<payloadIndexes, points, alone>>

\* create_collection(): the second of two creators is refused and raises.
CreateCollection(c) ==
    /\ IF payloadIndexes = NoCollection
       THEN Goto(c, "create", "index", 0) /\ payloadIndexes' = 0
       ELSE Goto(c, "create", "dead", 0) /\ UNCHANGED payloadIndexes
    /\ UNCHANGED <<points, alone>>

\* create_payload_index(), four times and only by the creator.
CreatePayloadIndex(c) ==
    /\ caller[c].pc = "index"
    /\ IF payloadIndexes + 1 = AllIndexes
       THEN Goto(c, "index", "upsert", 1)
       ELSE Goto(c, "index", "index", 0)
    /\ payloadIndexes' = payloadIndexes + 1
    /\ UNCHANGED <<points, alone>>

\* Faulty: the last batch is left out.
FaultyIndexPack(c) ==
    /\ caller[c].pc = "upsert"
    /\ LET b == caller[c].at
       IN  /\ IF b + 1 >= Batches THEN Goto(c, "upsert", "done", 0)
                                  ELSE Goto(c, "upsert", "upsert", b + 1)
           /\ points' = [points EXCEPT ![b] = c]
    /\ UNCHANGED <<payloadIndexes, alone>>

\* index_pack(): one upsert per batch, each waited for.
IndexPack(c) ==
    /\ caller[c].pc = "upsert"
    /\ LET b == caller[c].at
       IN  /\ IF b = Batches THEN Goto(c, "upsert", "done", 0)
                             ELSE Goto(c, "upsert", "upsert", b + 1)
           /\ points' = [points EXCEPT ![b] = c]
    /\ UNCHANGED <<payloadIndexes, alone>>

\* The process ends, or Qdrant refuses or times out: the call raises where it is.
Fail(c) ==
    /\ caller[c].pc \notin {"idle", "done", "dead"}
    /\ caller' = [caller EXCEPT ![c].pc = "dead", ![c].at = 0]
    /\ UNCHANGED <<payloadIndexes, points, alone>>

\* search_dense() filters by tenant and pack alone: the regions it can find, and
\* whose payloads they carry.
SearchDense == [b \in {b \in 1..Batches : points[b] # Absent} |-> points[b]]

Next ==
    \E c \in Callers :
        \/ Start(c) \/ DropExists(c) \/ DropPack(c) \/ EnsureExists(c)
        \/ CreateCollection(c) \/ CreatePayloadIndex(c) \/ IndexPack(c) \/ Fail(c)

Spec == Init /\ [][Next]_vars

----------------------------------------------------------------------------
(* Properties. *)

\* The index is derived state that a rebuild restores.  If nothing is under way and
\* no call stays failed, a search finds every region, however rebuilds were
\* interleaved, died and were repeated, and the payload indexes are there unless one
\* of them died.  A rebuild that ran alone leaves its own payloads and no others.
RebuildRestoresTheIndex ==
    /\ (/\ Busy = {}
        /\ \A c \in Callers : caller[c].pc # "dead"
        /\ \A c \in Droppers : caller[c].pc = "idle"
        /\ \E c \in Rebuilders : caller[c].pc = "done") =>
           /\ DOMAIN SearchDense = 1..Batches
           /\ (\A c \in Callers : caller[c].starts <= 1) => payloadIndexes = AllIndexes
    /\ alone \in Rebuilders /\ caller[alone].pc = "done" =>
           SearchDense = [b \in 1..Batches |-> alone]
=============================================================================
