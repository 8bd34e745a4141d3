----------------------------- MODULE SubmitOnce -----------------------------
(***************************************************************************)
(* What the submission endpoint promises its clients: an idempotency key   *)
(* is bound, in one step and for ever, to the request that came first, and *)
(* every answer is given against that binding.                             *)
(***************************************************************************)
CONSTANTS Submissions, Keys, Requests, NoRequest

VARIABLES
    key, request,   \* what each submission carries
    bound,          \* the request each key is bound to
    answer          \* what each submission has been told

once == <<key, request, bound, answer>>

Init ==
    /\ key \in [Submissions -> Keys]
    /\ request \in [Submissions -> Requests]
    /\ bound = [k \in Keys |-> NoRequest]
    /\ answer = [s \in Submissions |-> "none"]

Answer(s, verdict) ==
    /\ answer[s] = "none"
    /\ answer' = [answer EXCEPT ![s] = verdict]

Bind(s) ==
    /\ bound[key[s]] = NoRequest
    /\ bound' = [bound EXCEPT ![key[s]] = request[s]]
    /\ Answer(s, "created")
    /\ UNCHANGED <<key, request>>

Repeat(s) ==
    /\ bound[key[s]] = request[s]
    /\ Answer(s, "existing")
    /\ UNCHANGED <<key, request, bound>>

Refuse(s) ==
    /\ bound[key[s]] \notin {NoRequest, request[s]}
    /\ Answer(s, "conflict")
    /\ UNCHANGED <<key, request, bound>>

\* The answer is lost; the client will submit again.
Lose(s) ==
    /\ answer' = [answer EXCEPT ![s] = "none"]
    /\ UNCHANGED <<key, request, bound>>

Next == \E s \in Submissions : Bind(s) \/ Repeat(s) \/ Refuse(s) \/ Lose(s)

Spec == Init /\ [][Next]_once

=============================================================================
