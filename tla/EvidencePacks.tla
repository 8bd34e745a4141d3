--------------------------- MODULE EvidencePacks ---------------------------
(***************************************************************************)
(* The published evidence pack of one document and identity.  Jobs for it  *)
(* run at the same time, each in a disposable child process               *)
(* (retrieve_symbol_evidence in pipeline.py, _worker_main in worker.py)    *)
(* that its parent may kill at any point.  The children serialise on a     *)
(* file lock, which the operating system releases when its holder dies.    *)
(* The parents read the crops of the pack without it (_artifacts in        *)
(* platform_worker.py).  Files of a published pack may decay on the disk.  *)
(***************************************************************************)
EXTENDS Integers, FiniteSets

CONSTANTS
    Jobs,      \* leases of the same document and identity
    NoOne,     \* the lock is free
    MaxKills,     \* bound: children killed by a timeout or a resource limit
    MaxFailures,  \* bound: operating system errors in a child
    MaxDecays     \* bound: times that a published pack decays

ASSUME NoOneIsFresh == NoOne \notin Jobs
ASSUME PackBounds == {MaxKills, MaxFailures, MaxDecays} \subseteq Nat

VARIABLES
    acceptable,  \* whether the document holds the evidence asked for
    pack,        \* the directory <pack id>
    aside,       \* the directory .<pack id>.corrupt
    staging,     \* the temporary directory that each job's last child made
    lock,        \* the child that holds the file lock
    pc,          \* the next step of each job
    bundled,     \* the crops that each job's parent has read for its bundle
    kills, failures, decays

disk == <<pack, aside, staging>>
faults == <<kills, failures, decays>>
vars == <<acceptable, disk, lock, pc, bundled, faults>>

\* Steps inside the lock, and all steps of the child process.
Inside == {"check", "extract", "inspect", "clear", "move", "drop", "publish", "return"}
Child == Inside \cup {"lock"}

Goto(j, step) == pc' = [pc EXCEPT ![j] = step]

-----------------------------------------------------------------------------
(* The child                                                               *)

Acquire(j) ==
    /\ pc[j] = "lock"
    /\ lock = NoOne
    /\ lock' = j
    /\ Goto(j, "check")
    /\ UNCHANGED <<acceptable, disk, bundled, faults>>

\* FileLockTimeout after 60 seconds becomes a RetrievalError, for which
\* process_lease fails the job for good as invalid_or_unsupported_pdf.
GiveUp(j) ==
    /\ pc[j] = "lock"
    /\ lock # NoOne
    /\ Goto(j, "invalid")
    /\ UNCHANGED <<acceptable, disk, lock, bundled, faults>>

\* _load_cached_bundle accepts a pack only if all its files pass; otherwise a
\* staging directory is made.
Check(j) ==
    /\ pc[j] = "check"
    /\ IF pack = "good"
       THEN Goto(j, "return") /\ UNCHANGED staging
       ELSE /\ Goto(j, "extract")
            /\ staging' = [staging EXCEPT ![j] = "partial"]
    /\ UNCHANGED <<acceptable, pack, aside, lock, bundled, faults>>

\* Crops first, evidence.json last.
Extract(j) ==
    /\ pc[j] = "extract"
    /\ acceptable
    /\ staging' = [staging EXCEPT ![j] = "good"]
    /\ Goto(j, "inspect")
    /\ UNCHANGED <<acceptable, pack, aside, lock, bundled, faults>>

\* A RetrievalError of the document: the finally clause removes the directory.
Reject(j) ==
    /\ pc[j] = "extract"
    /\ ~acceptable
    /\ staging' = [staging EXCEPT ![j] = "none"]
    /\ lock' = NoOne
    /\ Goto(j, "invalid")
    /\ UNCHANGED <<acceptable, pack, aside, bundled, faults>>

Inspect(j) ==
    /\ pc[j] = "inspect"
    /\ Goto(j, IF pack = "none" THEN "publish" ELSE "clear")
    /\ UNCHANGED <<acceptable, disk, lock, bundled, faults>>

\* Faulty: what a killed child left is not removed.
ClearNothing(j) ==
    /\ pc[j] = "clear"
    /\ Goto(j, "move")
    /\ UNCHANGED <<acceptable, disk, lock, bundled, faults>>

\* What a killed child left of an earlier corrupt pack is removed.
Clear(j) ==
    /\ pc[j] = "clear"
    /\ aside' = "none"
    /\ Goto(j, "move")
    /\ UNCHANGED <<acceptable, pack, staging, lock, bundled, faults>>

\* An OSError ends the attempt, which is retried (worker_error): the finally clause
\* removes the staging directory, and nothing removes what else is there.
Raise(j) ==
    /\ staging' = [staging EXCEPT ![j] = "none"]
    /\ lock' = NoOne
    /\ Goto(j, "lock")
    /\ UNCHANGED <<acceptable, pack, aside, bundled>>

\* An error of the operating system, also of the finally clause itself (rmtree in
\* pipeline.py 748-750), which then leaves the staging directory, and which hides the
\* RetrievalError of a document that it rejected.
Fail(j) ==
    /\ pc[j] \in Inside
    /\ failures < MaxFailures
    /\ failures' = failures + 1
    /\ \/ Raise(j)
       \/ /\ pc[j] \notin {"check", "return"}
          /\ lock' = NoOne
          /\ Goto(j, "lock")
          /\ UNCHANGED <<acceptable, disk, bundled>>
    /\ UNCHANGED <<kills, decays>>

\* The operating system refuses to replace a directory that is not empty.
MoveAside(j) ==
    /\ pc[j] = "move"
    /\ IF aside = "none"
       THEN /\ aside' = pack
            /\ pack' = "none"
            /\ Goto(j, "drop")
            /\ UNCHANGED <<acceptable, staging, lock, bundled>>
       ELSE Raise(j)
    /\ UNCHANGED faults

DropAside(j) ==
    /\ pc[j] = "drop"
    /\ aside' = "none"
    /\ Goto(j, "publish")
    /\ UNCHANGED <<acceptable, pack, staging, lock, bundled, faults>>

\* Faulty: the crops are moved one by one into the published directory.
PublishInPlace(j) ==
    /\ pc[j] = "publish"
    /\ pack' = IF pack = "none" THEN "partial" ELSE staging[j]
    /\ staging' = IF pack = "none" THEN staging ELSE [staging EXCEPT ![j] = "none"]
    /\ Goto(j, IF pack = "none" THEN "publish" ELSE "return")
    /\ UNCHANGED <<acceptable, aside, lock, bundled, faults>>

Publish(j) ==
    /\ pc[j] = "publish"
    /\ IF pack = "none"
       THEN /\ pack' = staging[j]
            /\ staging' = [staging EXCEPT ![j] = "none"]
            /\ Goto(j, "return")
            /\ UNCHANGED <<acceptable, aside, lock, bundled>>
       ELSE Raise(j)
    /\ UNCHANGED faults

\* The child leaves the lock and writes its result for the parent.
Return(j) ==
    /\ pc[j] = "return"
    /\ lock' = NoOne
    /\ Goto(j, "collect")
    /\ UNCHANGED <<acceptable, disk, bundled, faults>>

\* The parent's timeout or a resource limit kills the child; no finally clause runs,
\* and its staging directory stays, where nothing looks at it again.  WorkerTimeout
\* and WorkerError are retryable: the job starts again.
Kill(j) ==
    /\ pc[j] \in Child
    /\ kills < MaxKills
    /\ kills' = kills + 1
    /\ lock' = IF lock = j THEN NoOne ELSE lock
    /\ Goto(j, "lock")
    /\ UNCHANGED <<acceptable, disk, bundled, failures, decays>>

-----------------------------------------------------------------------------
(* The parent and the disk                                                 *)

\* _artifacts reads one crop after the other and does not compare their hashes: a
\* first crop, then the others.  A file that is gone is an OSError, and the job is
\* retried with nothing read.
Collect(j) ==
    /\ pc[j] \in {"collect", "rest"}
    /\ \/ /\ pack # "none"
          /\ Goto(j, IF pc[j] = "collect" THEN "rest" ELSE "succeeded")
          /\ bundled' = [bundled EXCEPT ![j] = @ \cup {pack}]
       \/ /\ pack # "good"
          /\ Goto(j, "lock")
          /\ bundled' = [bundled EXCEPT ![j] = {}]
    /\ UNCHANGED <<acceptable, disk, lock, faults>>

Decay ==
    /\ pack = "good"
    /\ decays < MaxDecays
    /\ decays' = decays + 1
    /\ pack' = "bad"
    /\ UNCHANGED <<acceptable, aside, staging, lock, pc, bundled, kills, failures>>

-----------------------------------------------------------------------------

Init ==
    /\ acceptable \in BOOLEAN
    /\ pack \in IF acceptable THEN {"none", "good"} ELSE {"none"}
    /\ aside = "none"
    /\ staging = [j \in Jobs |-> "none"]
    /\ lock = NoOne
    /\ pc = [j \in Jobs |-> "lock"]
    /\ bundled = [j \in Jobs |-> {}]
    /\ kills = 0
    /\ failures = 0
    /\ decays = 0

Advance(j) ==
    \/ Acquire(j) \/ Check(j) \/ Extract(j) \/ Reject(j)
    \/ Inspect(j) \/ Clear(j) \/ MoveAside(j) \/ DropAside(j)
    \/ Publish(j) \/ Return(j) \/ Collect(j)

Next ==
    \/ \E j \in Jobs : Advance(j) \/ GiveUp(j) \/ Fail(j) \/ Kill(j)
    \/ Decay

Spec == Init /\ [][Next]_vars

\* Children and parents run; the lock is polled, so a waiter that is not the first
\* to see it free is served when the others are done.
FairSpec == Spec /\ \A j \in Jobs : WF_vars(Advance(j))

-----------------------------------------------------------------------------
(* Properties                                                              *)

Ended == {"succeeded", "invalid"}
Contents == {"none", "partial", "good", "bad"}

\* Directories, lock and jobs keep their types.
TypeOK ==
    /\ acceptable \in BOOLEAN
    /\ pack \in Contents
    /\ aside \in Contents
    /\ staging \in [Jobs -> Contents]
    /\ lock \in Jobs \cup {NoOne}
    /\ pc \in [Jobs -> Child \cup {"collect", "rest"} \cup Ended]
    /\ bundled \in [Jobs -> SUBSET {"partial", "good", "bad"}]
    /\ {kills, failures, decays} \subseteq Nat

\* One child at a time checks, swaps or publishes, whoever is killed or gives up
\* ("written under a keyed lock", SECURITY.md 41).
OneChildInside ==
    \A i, j \in Jobs : pc[i] \in Inside /\ pc[j] \in Inside => i = j

\* No directory ever stands under the pack's name that was not completely written
\* ("atomically published", SECURITY.md 42), and none for a rejected document.
PackIsComplete == pack \in {"none"} \cup (IF acceptable THEN {"good", "bad"} ELSE {})

\* While the disk is sound, the pack that a child returned is there for its parent,
\* who reads it without the lock: no other child swaps a pack that validates
\* (pipeline.py 664-667, platform_worker.py 35-45).
PackOutlivesTheLock ==
    decays = 0 => \A j \in Jobs : pc[j] \in {"collect", "rest"} => pack = "good"

\* A parent that reads crops while another child swaps a decayed pack bundles whole
\* files of published packs or is retried (platform_worker.py 35-45); a bundle whose
\* pack never decayed holds what was extracted.
BundlesAreComplete ==
    \A j \in Jobs : pc[j] = "succeeded" =>
        /\ acceptable
        /\ bundled[j] # {}
        /\ bundled[j] \subseteq IF decays = 0 THEN {"good"} ELSE {"good", "bad"}

\* Without a killed child and an error of the operating system no staging directory
\* outlives its child, and no corrupt directory outlives the swap.
LeftoversHaveCauses ==
    kills = 0 /\ failures = 0 =>
        /\ \A j \in Jobs : staging[j] # "none" => pc[j] \in Inside
        /\ aside # "none" => \E j \in Jobs : pc[j] = "drop"

\* Whatever children wait, die or fail and whatever the disk does: one child at a
\* time, only whole packs and bundles, and nothing left over without a cause.
PacksAreSound ==
    /\ OneChildInside
    /\ PackIsComplete
    /\ PackOutlivesTheLock
    /\ BundlesAreComplete
    /\ LeftoversHaveCauses

\* Every job ends: dead holders do not keep the lock, and what they left on the
\* disk does not make the next child fail (pipeline.py 741-750).
EveryJobEnds == \A j \in Jobs : <>(pc[j] \in Ended)

\* A job fails as invalid only for a document that is: "evidence pack is busy; retry
\* the request" (pipeline.py 752).
OnlyInvalidFails == \A j \in Jobs : pc[j] = "invalid" => ~acceptable

=============================================================================
