------------------------------ MODULE JobMoves ------------------------------
(***************************************************************************)
(* What one transaction of platform_db.py can do to a job as a reader of   *)
(* its event log sees it: the state it finds, the kind of the one event it *)
(* appends, the state it leaves.  PlatformJobs is checked to make no other *)
(* moves; EventStream lets its writers make any of them.                   *)
(***************************************************************************)
Ended == {"succeeded", "failed", "cancelled"}

\* finish() on a job that is not tried again.
Endings == UNION {[from: {"running"}, kind: {e}, to: {e}] : e \in Ended}

Moves ==
    [from: {"absent"}, kind: {"queued"}, to: {"queued"}]                \* submit
    \cup [from: {"queued", "running"}, kind: {"leased"}, to: {"running"}]
    \cup [from: {"running"}, kind: {"progress"}, to: {"running"}]       \* heartbeat
    \cup [from: {"running"}, kind: {"retrying"}, to: {"queued"}]        \* finish
    \cup Endings
    \cup [from: {"queued"}, kind: {"cancel_requested"}, to: {"cancelled"}]
    \cup [from: {"running"}, kind: {"cancel_requested"}, to: {"running"}]

=============================================================================
