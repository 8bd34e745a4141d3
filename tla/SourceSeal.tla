----------------------------- MODULE SourceSeal -----------------------------
(***************************************************************************)
(* Acquiring the sources of frozen retrieval plans                         *)
(* (retrieval_preregistration.py, retrieval_source_seal.py,                *)
(* scripts/acquire_retrieval_cycle_sources.py): each family of the plan is *)
(* downloaded from its official site, a few times if need be, and stored   *)
(* by its digest in a cache that commands share; the manifest accounts for *)
(* every family.                                                           *)
(*                                                                         *)
(* A site answers differently each time it is asked.  An answer is a pair  *)
(* of content and final URL that passes the checks of one download (HTTPS, *)
(* size, PDF, identity marker); every other one is a failed attempt.  The  *)
(* bytes of a content have one digest, which is its name in the cache.     *)
(***************************************************************************)
EXTENDS Naturals, Sequences, FiniteSets, SequencesExt

CONSTANTS Families,    \* [plan -> the sequence of its families]
          Registered,  \* families and documents of the visual registry
          Answers,     \* [content, url]
          Commands,    \* processes that acquire
          Attempts,    \* attempts for one family
          MaxDamage    \* bound: how often a cached file is damaged

VARIABLES directory,  \* the preregistrations in evaluation/
          command,    \* [command -> where it is, and what it has found]
          cache,      \* [content -> its file is absent, whole or damaged]
          manifests,  \* [plan -> the manifest in evaluation/, or None]
          damage

vars == <<directory, command, cache, manifests, damage>>

None == [status |-> "none"]
Plans == DOMAIN Families
Contents == {a.content : a \in Answers}
Idle == [pc |-> "idle", plan |-> "none", attempt |-> 0, sources |-> <<>>, invalid |-> <<>>,
         answer |-> None]

Init ==
    /\ directory = {}
    /\ command = [c \in Commands |-> Idle]
    /\ cache = [x \in Contents |-> "absent"]
    /\ manifests = [p \in Plans |-> None]
    /\ damage = 0

FamiliesOf(plan) == ToSet(Families[plan])

\* A plan is written and its digest is frozen in the code.
Preregister(p) ==
    /\ directory' = directory \cup {p}
    /\ UNCHANGED <<command, cache, manifests, damage>>

\* Faulty: only plans that have a manifest use up their families.
FaultyConsumed(plan) ==
    Registered \cup UNION {FamiliesOf(q) : q \in {q \in directory \ {plan} : manifests[q] # None}}

\* main: what the registry and every other plan of the directory use.
Consumed(plan) == Registered \cup UNION {FamiliesOf(q) : q \in directory \ {plan}}

\* load_retrieval_preregistration.
PlanLoads(plan) ==
    /\ Cardinality(FamiliesOf(plan)) = Len(Families[plan])
    /\ FamiliesOf(plan) \cap Consumed(plan) = {}

Start(c, plan) ==
    /\ command[c].pc = "idle"
    /\ plan \in directory /\ PlanLoads(plan)
    /\ command' = [command EXCEPT ![c] = [Idle EXCEPT !.pc = "fetch", !.plan = plan, !.attempt = 1]]
    /\ UNCHANGED <<directory, cache, manifests, damage>>

----------------------------------------------------------------------------
(* One family after the other.                                               *)

Family(me) == Families[me.plan][Len(me.sources) + Len(me.invalid) + 1]
Following(me) == IF Len(me.sources) + Len(me.invalid) = Len(Families[me.plan]) THEN "finish" ELSE "fetch"

Goes(c, me) == command' = [command EXCEPT ![c] = me]

\* An attempt fails: try again, or the family is invalidated.
TryAgain(c) ==
    LET me == command[c]
        given == [me EXCEPT !.invalid = Append(@, Family(me)), !.attempt = 1]
    IN  IF me.attempt < Attempts
        THEN Goes(c, [me EXCEPT !.attempt = @ + 1, !.pc = "fetch"])
        ELSE Goes(c, [given EXCEPT !.pc = Following(given)])

\* Its bytes are in the cache: the family is sealed.
Seal(c, answer) ==
    LET me == command[c]
        source == [family |-> Family(me), content |-> answer.content, url |-> answer.url]
        more == [me EXCEPT !.sources = Append(@, source), !.attempt = 1, !.answer = None]
    IN  Goes(c, [more EXCEPT !.pc = Following(more)])

Fail(c) ==
    /\ command[c].pc = "fetch"
    /\ TryAgain(c)
    /\ UNCHANGED <<directory, cache, manifests, damage>>

\* Faulty: a cached file is not compared.
FaultyDownload(c) ==
    /\ command[c].pc = "fetch"
    /\ \E answer \in Answers :
          IF cache[answer.content] = "absent"
          THEN Goes(c, [command[c] EXCEPT !.pc = "store", !.answer = answer])
          ELSE Seal(c, answer)
    /\ UNCHANGED <<directory, cache, manifests, damage>>

\* The whole answer is read and checked; what the cache has for its digest must be it.
Download(c) ==
    /\ command[c].pc = "fetch"
    /\ \E answer \in Answers :
          \/ /\ cache[answer.content] = "absent"
             /\ Goes(c, [command[c] EXCEPT !.pc = "store", !.answer = answer])
          \/ cache[answer.content] = "whole" /\ Seal(c, answer)
          \/ cache[answer.content] = "damaged" /\ TryAgain(c)
    /\ UNCHANGED <<directory, cache, manifests, damage>>

\* The file was missing when it was looked for: the temporary one replaces what is there.
Store(c) ==
    /\ command[c].pc = "store"
    /\ cache' = [cache EXCEPT ![command[c].answer.content] = "whole"]
    /\ Seal(c, command[c].answer)
    /\ UNCHANGED <<directory, manifests, damage>>

----------------------------------------------------------------------------
(* The manifest.                                                             *)

\* validate_source_manifest: two families never have the same bytes or the same URL.
ManifestValid(me) ==
    \A i, j \in DOMAIN me.sources :
        i # j => /\ me.sources[i].content # me.sources[j].content
                 /\ me.sources[i].url # me.sources[j].url

\* write_manifest_atomic: the plan's manifest is replaced in one step.
WriteManifestAtomic(me) ==
    manifests' = [manifests EXCEPT ![me.plan] =
                     [status |-> IF me.invalid = <<>> THEN "complete" ELSE "incomplete",
                      sources |-> me.sources, invalid |-> me.invalid]]

\* An incomplete manifest is written all the same, one that is not valid is not.
Finish(c) ==
    /\ command[c].pc = "finish"
    /\ IF ManifestValid(command[c]) THEN WriteManifestAtomic(command[c])
                                    ELSE UNCHANGED manifests
    /\ Goes(c, [Idle EXCEPT !.pc = "ended"])
    /\ UNCHANGED <<directory, cache, damage>>

Kill(c) ==
    /\ command[c].pc \notin {"idle", "ended"}
    /\ Goes(c, Idle)
    /\ UNCHANGED <<directory, cache, manifests, damage>>

Damage(x) ==
    /\ cache[x] = "whole" /\ damage < MaxDamage
    /\ cache' = [cache EXCEPT ![x] = "damaged"]
    /\ damage' = damage + 1
    /\ UNCHANGED <<directory, command, manifests>>

Next ==
    \/ \E p \in Plans \ directory : Preregister(p)
    \/ \E c \in Commands :
          \/ \E p \in Plans : Start(c, p)
          \/ Fail(c)
          \/ Download(c)
          \/ Store(c)
          \/ Finish(c)
          \/ Kill(c)
    \/ \E x \in Contents : Damage(x)

Spec == Init /\ [][Next]_vars

----------------------------------------------------------------------------
(* Properties.                                                               *)

\* retrieval_source_seal.py: at the moment a family is sealed the cache holds the bytes
\* it is sealed with, whatever others damaged or wrote there before.
SealedBytesAreWhole ==
    [][\A c \in Commands :
          LET old == command[c]
              new == command'[c]
          IN  Len(new.sources) > Len(old.sources) =>
                 cache'[Last(new.sources).content] = "whole"]_vars

\* retrieval_source_seal.py and acquire_retrieval_cycle_sources.py: a family is sealed
\* for one cycle at most, although plans are preregistered and acquired meanwhile, and
\* within a cycle no two families are the same document.
SourcesServeOnce ==
    \A p, q \in {r \in Plans : manifests[r] # None} :
        \A i \in DOMAIN manifests[p].sources, j \in DOMAIN manifests[q].sources :
            LET s == manifests[p].sources[i]
                t == manifests[q].sources[j]
            IN  /\ s.family = t.family => p = q /\ i = j
                /\ p = q /\ i # j => s.content # t.content /\ s.url # t.url
=============================================================================
