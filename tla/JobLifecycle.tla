---------------------------- MODULE JobLifecycle ----------------------------
(***************************************************************************)
(* What the job service promises, without a table, workers or a clock.     *)
(* Every claim of a job hands out a fencing token, the number of the claim *)
(* (the "fenced lease" of docs/SERVICE_ARCHITECTURE.md:179).  Tokens are   *)
(* never handed out twice, any number of them may be lost or still be in   *)
(* flight, and only the newest one decides how the job goes on.            *)
(***************************************************************************)
EXTENDS Integers

CONSTANTS
    Jobs,
    AttemptLimits    \* how many claims a submission may allow

VARIABLES
    phase,      \* how far each job is
    limit,      \* the claims its submission allows
    claims,     \* the claims made so far; the newest token
    tokens,     \* the tokens that some process still holds
    revoked     \* the jobs whose cancellation was accepted

vars == <<phase, limit, claims, tokens, revoked>>

Ended == {"succeeded", "failed", "cancelled"}

Init ==
    /\ phase = [j \in Jobs |-> "absent"]
    /\ limit = [j \in Jobs |-> 0]
    /\ claims = [j \in Jobs |-> 0]
    /\ tokens = [j \in Jobs |-> {}]
    /\ revoked = {}

Accept(j) ==
    /\ phase[j] = "absent"
    /\ phase' = [phase EXCEPT ![j] = "queued"]
    /\ \E l \in AttemptLimits : limit' = [limit EXCEPT ![j] = l]
    /\ UNCHANGED <<claims, tokens, revoked>>

\* A running job can be claimed again: its last holder may be dead.
Claim(j) ==
    /\ phase[j] \in {"queued", "running"}
    /\ claims[j] < limit[j]
    /\ j \notin revoked
    /\ phase' = [phase EXCEPT ![j] = "running"]
    /\ claims' = [claims EXCEPT ![j] = @ + 1]
    /\ tokens' = [tokens EXCEPT ![j] = @ \cup {claims[j] + 1}]
    /\ UNCHANGED <<limit, revoked>>

\* The holder of the newest token ends its claim.
Decide(j) ==
    /\ phase[j] = "running"
    /\ claims[j] \in tokens[j]
    /\ tokens' = [tokens EXCEPT ![j] = @ \ {claims[j]}]
    /\ \E p \in {"queued", "succeeded", "failed", "cancelled"} :
           /\ (p = "cancelled") <=> (j \in revoked)
           /\ p = "queued" => claims[j] < limit[j]
           /\ phase' = [phase EXCEPT ![j] = p]
    /\ UNCHANGED <<limit, claims, revoked>>

\* A process dies, or learns that its token is stale.
Lose(j, t) ==
    /\ t \in tokens[j]
    /\ tokens' = [tokens EXCEPT ![j] = @ \ {t}]
    /\ UNCHANGED <<phase, limit, claims, revoked>>

Revoke(j) ==
    /\ phase[j] \in {"queued", "running"}
    /\ revoked' = revoked \cup {j}
    /\ phase' = [phase EXCEPT ![j] = IF @ = "queued" THEN "cancelled" ELSE @]
    /\ UNCHANGED <<limit, claims, tokens>>

Next ==
    \E j \in Jobs :
        \/ Accept(j) \/ Claim(j) \/ Decide(j) \/ Revoke(j)
        \/ \E t \in tokens[j] : Lose(j, t)

Spec == Init /\ [][Next]_vars

=============================================================================
