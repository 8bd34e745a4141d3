--------------------------- MODULE MCPlatformJobs ---------------------------
(* The job service, checked with the moves that EventStream's writers make.  *)
EXTENDS PlatformJobs, JobMoves

\* A column of the row changes, other than by the clock passing lease_expires_at.
RowWritten(j) == job'[j] \notin {job[j], Lapsed(job[j])}

\* Whenever a transaction writes a job's row, and whenever the job's log changes at
\* all, exactly one event is appended, and event and row make a move of JobMoves: the
\* assumption under which EventStream models the writers of platform_db.py.  (The
\* renewal of a live lease is the one row write the model does not see; it is logged.)
WritesAreMoves ==
    [][\A j \in Jobs : RowWritten(j) \/ log'[j] # log[j] =>
          \E move \in Moves :
              /\ move.from = job[j].state /\ move.to = job'[j].state
              /\ log'[j] = Append(log[j], move.kind)]_vars

=============================================================================
