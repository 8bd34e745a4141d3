----------------------------- MODULE SymbolSlice -----------------------------
(***************************************************************************)
(* The runner that takes one part from its evidence to a symbol served by  *)
(* the catalogue (scripts/demo_run.py), and the verification at its end    *)
(* (scripts/verify.py).  Extractor, compiler, catalogue and server are     *)
(* programs of their own; what they do is external to this repository.     *)
(*                                                                         *)
(* Every stage leaves a file in the directory of the part and reads those  *)
(* of the stages before it, of this run or of an earlier one.              *)
(***************************************************************************)
EXTENDS Naturals, Sequences, FiniteSets

CONSTANTS Bundles,       \* what may be the evidence of the part
          Readings,      \* the pins the extractor may read from it: sets of numbers
          MaxRuns,       \* bound on the runs
          MaxRevisions,  \* bound on the revisions of the catalogue
          absent

VARIABLES fixture,    \* the evidence
          files,      \* the directory of the part
          catalogue,  \* the revisions of the symbol, in the order of their ingestion
          served,     \* how many of them the server knows
          todo,       \* the stages that the present run has before it
          runs,       \* how many have begun
          report      \* of the verification that ended the last run, if it did

vars == <<fixture, files, catalogue, served, todo, runs, report>>

Gate == INSTANCE SymbolGate

Names == {"spec", "symbol", "ingest", "resolved", "provenance"}

\* STAGE_ORDER, what a run does unless it is told to do some of them.
Order == <<"extract", "compile", "ingest", "sync", "resolve", "provenance", "verify">>
StageLists == {Order} \cup {<<Order[i]>> : i \in DOMAIN Order}

Init ==
    /\ fixture \in Bundles
    /\ files = [f \in Names |-> absent]
    /\ catalogue = <<>> /\ served = 0
    /\ todo = <<>> /\ runs = 0 /\ report = "none"

----------------------------------------------------------------------------
(* Stages.                                                                   *)

At(stage) == todo # <<>> /\ Head(todo) = stage
Leave(file, content) == files' = [files EXCEPT ![file] = content]
Stop == todo' = <<>> /\ UNCHANGED <<fixture, runs, report>>
Onward == todo' = Tail(todo) /\ UNCHANGED <<fixture, runs, report>>

\* A run of all stages has nothing of the report of another one, nor has one of a single stage.
Start(stages) ==
    /\ todo = <<>> /\ runs < MaxRuns
    /\ todo' = stages /\ runs' = runs + 1 /\ report' = "none"
    /\ UNCHANGED <<fixture, files, catalogue, served>>

\* stage_extract
Extract(numbers) ==
    /\ At("extract")
    /\ Leave("spec", [fits |-> TRUE, identity |-> fixture.identity, datasheet |-> fixture.datasheet,
                      content |-> fixture.content, numbers |-> numbers])
    /\ Onward /\ UNCHANGED <<catalogue, served>>

\* stage_compile; the compiler keeps the numbers of the pins.
Compile ==
    /\ At("compile") /\ files.spec # absent
    /\ Leave("symbol", [empty |-> FALSE, properties |-> TRUE, identity |-> files.spec.identity])
    /\ Onward /\ UNCHANGED <<catalogue, served>>

\* The catalogue publishes what it is sent if both are of one datasheet, and a datasheet
\* of a part once.
Revision ==
    [identity |-> files.spec.identity, content |-> fixture.content, numbers |-> files.spec.numbers,
     regions |-> Gate!Ids(fixture),
     status |-> IF files.spec.content = fixture.content THEN "published" ELSE "quarantined"]
Kept == {r \in DOMAIN catalogue : /\ catalogue[r].status = "published"
                                  /\ catalogue[r].identity = files.spec.identity
                                  /\ catalogue[r].content = fixture.content}

\* stage_ingest: the specification and the evidence as they are now.  What the catalogue
\* has stored is not known here if the answer is lost; an answer without a revision is
\* written over the last one before it is refused.
Ingest(answer) ==
    /\ At("ingest") /\ files.spec # absent
    /\ \E r \in IF Kept # {} THEN Kept ELSE {Len(catalogue) + 1} :
          /\ r <= MaxRevisions
          /\ catalogue' = IF r > Len(catalogue) THEN Append(catalogue, Revision) ELSE catalogue
          /\ CASE answer = "revision" -> Leave("ingest", r) /\ Onward
               [] answer = "other" -> Leave("ingest", absent) /\ Stop
               [] answer = "lost"  -> UNCHANGED files /\ Stop
    /\ UNCHANGED served

\* stage_sync
Sync ==
    /\ At("sync")
    /\ served' = Len(catalogue)
    /\ Onward /\ UNCHANGED <<files, catalogue>>

\* stage_resolve: the latest published revision of the part that the server knows.
Resolve ==
    /\ At("resolve") /\ files.spec # absent
    /\ \E r \in 1..served :
          /\ \A q \in 1..served : /\ catalogue[q].status = "published"
                                  /\ catalogue[q].identity = files.spec.identity => q <= r
          /\ catalogue[r].status = "published" /\ catalogue[r].identity = files.spec.identity
          /\ Leave("resolved", [shaped |-> TRUE, generated |-> TRUE, revision |-> r,
                                numbers |-> catalogue[r].numbers])
    /\ Onward /\ UNCHANGED <<catalogue, served>>

\* stage_provenance: of the revision of the last answer to an ingestion.
Provenance ==
    /\ At("provenance") /\ files.ingest # absent /\ files.ingest <= served
    /\ LET r == catalogue[files.ingest]
       IN  Leave("provenance", [fits |-> TRUE, identity |-> r.identity, content |-> r.content,
                                regions |-> r.regions, status |-> r.status,
                                revision |-> files.ingest])
    /\ Onward /\ UNCHANGED <<catalogue, served>>

\* What the verification reads of the specification: a pin for each number.
PinsOf(spec) ==
    IF spec = absent THEN absent
    ELSE [fits |-> spec.fits, identity |-> spec.identity, datasheet |-> spec.datasheet,
          content |-> spec.content,
          pins |-> [n \in spec.numbers |-> [number |-> n, confidence |-> 86,
                                            evidence |-> {"r_pinout_01", "r_pin_table_01"}]]]

\* verify, at the end of a run or alone.
Verify ==
    /\ At("verify")
    /\ LET failures == Gate!VerifySlice(fixture, [files EXCEPT !.spec = PinsOf(@)], TRUE)
       IN  report' = IF failures = {} THEN "pass" ELSE "fail"
    /\ todo' = <<>>
    /\ UNCHANGED <<fixture, files, catalogue, served, runs>>

\* StageError: a tool or a file is missing, a command fails or a service does not answer.
\* The run ends, and what it left stays.
Fail ==
    /\ todo # <<>> /\ Head(todo) # "verify"
    /\ todo' = <<>>
    /\ UNCHANGED <<fixture, files, catalogue, served, runs, report>>

\* build_fixture.py writes the evidence anew, whatever runs.
Rebuild(bundle) ==
    /\ fixture' = bundle /\ bundle # fixture
    /\ report' = "none"
    /\ UNCHANGED <<files, catalogue, served, todo, runs>>

Next ==
    \/ \E stages \in StageLists : Start(stages)
    \/ \E numbers \in Readings : Extract(numbers)
    \/ Compile
    \/ \E answer \in {"revision", "other", "lost"} : Ingest(answer)
    \/ Sync
    \/ Resolve
    \/ Provenance
    \/ Verify
    \/ Fail
    \/ \E bundle \in Bundles : Rebuild(bundle)

Spec == Init /\ [][Next]_vars

----------------------------------------------------------------------------

\* demo_run.py, verify.py: however stages of several runs are mixed and whatever fails,
\* what passes the verification is a specification and a symbol of the part and the
\* datasheet that the evidence now speaks of, a provenance of that number, package and
\* datasheet, and a published revision that shows every pin of the specification.
VerifiedSlicesAgree ==
    report = "pass" =>
        LET shown == catalogue[files.resolved.revision]
            recorded == catalogue[files.provenance.revision]
        IN  /\ files.spec.content = fixture.content /\ recorded.content = fixture.content
            /\ {files.spec.identity, files.symbol.identity} = {fixture.identity}
            /\ recorded.identity.mpn = fixture.identity.mpn
            /\ recorded.identity.package = fixture.identity.package
            /\ shown.status = "published" /\ recorded.status = "published"
            /\ files.spec.numbers \subseteq shown.numbers

\* verify.py:512 says that a resolved symbol "must match the compiled spec identity".
\* It does not hold: verify_resolved_symbol compares the pins alone, so a symbol resolved
\* before the evidence was corrected to another part passes.
ResolvedSymbolsMatch ==
    report = "pass" => catalogue[files.resolved.revision].identity = files.spec.identity

\* verify.py:421 says "provenance's region_ids/manufacturer/mpn match".  It does not hold:
\* verify_provenance never looks at the manufacturer, so the provenance of the part of
\* another one passes when number, package and datasheet are the same.
ProvenanceMakersMatch ==
    report = "pass" => catalogue[files.provenance.revision].identity = files.spec.identity
=============================================================================
