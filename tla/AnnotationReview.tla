-------------------------- MODULE AnnotationReview --------------------------
(***************************************************************************)
(* The review of visual annotations (visual_review.py and                  *)
(* scripts/review_visual_annotations.py).  A packet is exported from the   *)
(* draft registry; people review it in a pull request, or an agent audits  *)
(* it; the decision is applied to the registry as it is by then.           *)
(*                                                                         *)
(* An annotation's digest covers all its fields and its review state: here *)
(* it is the pair of its version and its reviewer.  A packet's digest      *)
(* covers its documents and the registry it was exported from.  Files      *)
(* whose own digests are wrong, malformed files and download failures end  *)
(* a command before it has changed anything and are left out.              *)
(***************************************************************************)
EXTENDS Naturals, FiniteSets

CONSTANTS Documents,
          HeldOutDocuments,  \* those of the calibration and evaluation splits
          People,            \* GitHub accounts
          Agent,             \* the reviewer of an owner-authorized agent audit
          Appliers,          \* apply and apply-agent commands
          MaxVersion, MaxPackets, MaxReviews

VARIABLES registry,  \* [document -> annotation], in the file both --registry and --out name
          packets,   \* exported packets
          reviews,   \* GitHub's pull-request reviews that quote a packet's digest
          applier    \* [command -> pc, the registry it read, its packet and decision]

vars == <<registry, packets, reviews, applier>>

None == "none"
Absent == [version |-> 0, reviewer |-> None]
Annotations == [version : 1..MaxVersion, reviewer : People \cup {Agent, None}] \cup {Absent}
Registries == [Documents -> Annotations]
Present(r) == {d \in Documents : r[d] # Absent}
Unreviewed(annotation) == annotation # Absent /\ annotation.reviewer = None

\* What load_visual_registry_data() insists on without the draft flag.
Strict(r) == \A d \in Present(r) \cap HeldOutDocuments : ~Unreviewed(r[d])

NoPacket == [documents |-> {}, registry |-> [d \in Documents |-> Absent]]
Idle == [pc |-> "idle", read |-> NoPacket.registry, packet |-> NoPacket, reviewer |-> None,
         accepted |-> FALSE]

TypeOK ==
    /\ registry \in Registries
    /\ \A p \in packets : p.documents \subseteq Documents /\ p.registry \in Registries
    /\ \A r \in reviews : /\ r.author \in People /\ r.packet \in packets
                          /\ r.state \in {"COMMENTED", "APPROVED", "DISMISSED"}
    /\ \A a \in Appliers : /\ applier[a].pc \in {"idle", "provenance", "apply", "write",
                                                 "applied", "refused"}
                           /\ applier[a].read \in Registries
                           /\ applier[a].reviewer \in People \cup {Agent, None}

Init ==
    /\ registry = [d \in Documents |-> Absent]
    /\ packets = {}
    /\ reviews = {}
    /\ applier = [a \in Appliers |-> Idle]

----------------------------------------------------------------------------
(* People and GitHub. *)

\* An annotation is drafted or changed by hand; whoever changes a reviewed one may
\* forget to take its review back.
Edit(d) ==
    /\ registry[d].version < MaxVersion
    /\ \E reviewer \in {None, registry[d].reviewer} :
          registry' = [registry EXCEPT ![d] =
                          [version |-> @.version + 1, reviewer |-> reviewer]]
    /\ UNCHANGED <<packets, reviews, applier>>

\* A review names the packet it is about, or quotes its digest as a mere comment.
SubmitReview(person, packet) ==
    /\ Cardinality(reviews) < MaxReviews
    /\ \E state \in {"COMMENTED", "APPROVED"} :
          reviews' = reviews \cup {[author |-> person, packet |-> packet, state |-> state]}
    /\ UNCHANGED <<registry, packets, applier>>

Dismiss(review) ==
    /\ review.state = "APPROVED"
    /\ reviews' = (reviews \ {review}) \cup {[review EXCEPT !.state = "DISMISSED"]}
    /\ UNCHANGED <<registry, packets, applier>>

----------------------------------------------------------------------------
(* The commands. *)

\* export: build_review_packet takes unreviewed annotations only, whose sheets it
\* renders from the pinned sources.
Export ==
    /\ Cardinality(packets) < MaxPackets
    /\ \E selected \in SUBSET {d \in Present(registry) : Unreviewed(registry[d])} \ {{}} :
          packets' = packets \cup {[documents |-> selected, registry |-> registry]}
    /\ UNCHANGED <<registry, reviews, applier>>

Step(a, from, to) ==
    /\ applier[a].pc = from
    /\ applier' = [applier EXCEPT ![a].pc = to]

\* A command reads the registry, a packet and a decision on every case of it.
Decide(a, reviewer, next) ==
    /\ applier[a].pc = "idle"
    /\ \E packet \in packets, accepted \in BOOLEAN :
          applier' = [applier EXCEPT ![a] =
                         [pc |-> next, read |-> registry, packet |-> packet,
                          reviewer |-> reviewer, accepted |-> accepted]]
    /\ UNCHANGED <<registry, packets, reviews>>

\* apply: whoever wrote the decision, by hand or with attest, typed the reviewer's name.
Apply(a) == \E person \in People : Decide(a, person, "provenance")

\* apply-agent asks nobody.
ApplyAgent(a) == Decide(a, Agent, "apply")

\* verify_github_review_provenance for the review the decision's URL names: author,
\* state and digest are GitHub's, as of now.
VerifyProvenance(a) ==
    /\ \/ /\ \E r \in reviews : /\ r.author = applier[a].reviewer
                                /\ r.packet = applier[a].packet
                                /\ r.state = "APPROVED"
          /\ Step(a, "provenance", "apply")
       \/ Step(a, "provenance", "refused")        \* any other review, or none
    /\ UNCHANGED <<registry, packets, reviews>>

\* Faulty: the digests of the annotations are not compared.
FaultyUnchanged(packet, r) == \A d \in packet.documents : Unreviewed(r[d])

\* The annotations a packet selects are unchanged and unreviewed in the registry.
Unchanged(packet, r) ==
    \A d \in packet.documents : r[d] = packet.registry[d] /\ Unreviewed(r[d])

Reviewed(packet, r, reviewer) ==
    [d \in Documents |-> IF d \in packet.documents THEN [r[d] EXCEPT !.reviewer = reviewer]
                                                   ELSE r[d]]

\* _apply_validated_decision: no rejected case, and the result must load without the draft flag.
ApplyValidatedDecision(a) ==
    /\ LET packet == applier[a].packet
           r == applier[a].read
       IN  IF /\ applier[a].accepted
              /\ Unchanged(packet, r)
              /\ Strict(Reviewed(packet, r, applier[a].reviewer))
           THEN Step(a, "apply", "write")
           ELSE Step(a, "apply", "refused")
    /\ UNCHANGED <<registry, packets, reviews>>

\* _write_atomic replaces whatever the file holds by now.
WriteAtomic(a) ==
    /\ Step(a, "write", "applied")
    /\ registry' = Reviewed(applier[a].packet, applier[a].read, applier[a].reviewer)
    /\ UNCHANGED <<packets, reviews>>

Next ==
    \/ \E d \in Documents : Edit(d)
    \/ \E person \in People, packet \in packets : SubmitReview(person, packet)
    \/ \E review \in reviews : Dismiss(review)
    \/ Export
    \/ \E a \in Appliers : \/ Apply(a) \/ ApplyAgent(a) \/ VerifyProvenance(a)
                           \/ ApplyValidatedDecision(a) \/ WriteAtomic(a)

Spec == Init /\ [][Next]_vars

----------------------------------------------------------------------------
(* Properties. *)

\* The version of the annotation is one this reviewer answers for: an agent for
\* itself, a person by an approval of a packet that showed exactly this version.
Attested(d, annotation) ==
    \/ annotation.reviewer = Agent
    \/ \E r \in reviews :
          /\ r.author = annotation.reviewer
          /\ r.state # "COMMENTED"
          /\ d \in r.packet.documents
          /\ r.packet.registry[d] = [annotation EXCEPT !.reviewer = None]

\* No command marks an annotation as reviewed but one nobody had reviewed and in the
\* version its reviewer was shown, however it was edited, reviewed and applied by
\* others meanwhile; and what it writes has no unreviewed held-out annotation.
ReviewsAreAttested ==
    [][\A a \in Appliers :
          applier[a].pc = "write" /\ applier'[a].pc = "applied" =>
            /\ Strict(registry')
            /\ \A d \in Documents :
                  registry'[d] # applier[a].read[d] =>
                    Unreviewed(applier[a].read[d]) /\ Attested(d, registry'[d])]_vars

\* apply_review_decision's docstring: the registry may have gained unrelated documents
\* since the packet was created.  A decision that could have been applied to the
\* registry its packet was exported from is not refused while its own annotations are
\* unchanged.
GrowthIsAllowed ==
    \A a \in Appliers :
        LET packet == applier[a].packet
        IN  /\ applier[a].pc = "refused"
            /\ applier[a].reviewer = Agent
            /\ applier[a].accepted
            /\ Strict(Reviewed(packet, packet.registry, Agent))
            => ~Unchanged(packet, applier[a].read)
=============================================================================
