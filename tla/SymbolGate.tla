----------------------------- MODULE SymbolGate -----------------------------
(***************************************************************************)
(* The checks of scripts/verify.py on what a symbol of the Tokito          *)
(* catalogue is made of: the evidence, the specification of its pins, the  *)
(* compiled symbol, the catalogue's record of its provenance, and what the *)
(* catalogue serves.  Each operator is the set of the checks that fail.    *)
(*                                                                         *)
(* absent is a file that is not there; fits says that a document fits its  *)
(* schema, which ends the checks of it if it does not.                     *)
(***************************************************************************)
EXTENDS Naturals, Sequences, FiniteSets

CONSTANT absent

Failing(checks) == {name \in DOMAIN checks : ~ checks[name]}

Ids(bundle) == {region.id : region \in bundle.regions}

VerifyEvidenceBundle(bundle) ==
    LET Accepted(type) == \E r \in bundle.regions : r.type = type /\ r.accepted
        grounded == /\ bundle.proof.accepted
                    /\ bundle.proof.observed = {"manufacturer", "mpn", "package"}
                    /\ bundle.proof.regions \subseteq Ids(bundle)
    IN  IF ~ bundle.fits THEN {"schema"}
        ELSE Failing([pinout |-> Accepted("pinout"), table |-> Accepted("table"),
                      package |-> Accepted("package"), identity |-> grounded,
                      bbox |-> \A r \in bundle.regions : r.ordered])

VerifySymbolSpec(spec, bundle) ==
    LET pins == spec.pins
    IN  IF ~ spec.fits THEN {"schema"}
        ELSE Failing(
            [identity |-> spec.identity = bundle.identity,
             regions |-> \A i \in DOMAIN pins : pins[i].evidence \subseteq Ids(bundle),
             datasheet |-> spec.datasheet = bundle.datasheet,
             content |-> spec.content = bundle.content,
             numbers |-> \A i, j \in DOMAIN pins : pins[i].number = pins[j].number => i = j,
             confidence |-> \A i \in DOMAIN pins : pins[i].confidence >= 60])

\* The file is read, not parsed: what it says of the part, and which properties it has.
VerifySymbolFile(symbol, spec) ==
    IF symbol = absent THEN {"missing"}
    ELSE IF symbol.empty THEN {"empty"}
    ELSE Failing([properties |-> symbol.properties, identity |-> symbol.identity = spec.identity])

\* Faulty: the contents are not compared.
FaultySameContent(provenance, bundle) == TRUE

SameContent(provenance, bundle) == provenance.content = bundle.content

VerifyProvenance(provenance, bundle, spec) ==
    IF ~ provenance.fits THEN {"schema"}
    ELSE Failing([mpn |-> provenance.identity.mpn = spec.identity.mpn,
                  package |-> provenance.identity.package = spec.identity.package,
                  regions |-> provenance.regions \subseteq Ids(bundle),
                  content |-> SameContent(provenance, bundle),
                  status |-> provenance.status = "published"])

\* The compiler may have added pins.
VerifyResolvedSymbol(resolved, spec) ==
    LET numbers == {spec.pins[i].number : i \in DOMAIN spec.pins}
    IN  IF ~ resolved.shaped THEN {"shape"}
        ELSE Failing([generated |-> resolved.generated, pins |-> numbers \subseteq resolved.numbers])

\* verify_slice: what was compiled, and, if it must be published, what the catalogue says.
VerifySlice(bundle, files, published) ==
    IF bundle = absent THEN {<<"evidence", {"missing"}>>}
    ELSE LET spec == files.spec
             Unless(file, failures) == IF file # absent THEN failures
                                       ELSE IF published THEN {"missing"} ELSE {}
             parts == [evidence |-> VerifyEvidenceBundle(bundle),
                       spec |-> IF spec = absent THEN {"missing"} ELSE VerifySymbolSpec(spec, bundle),
                       symbol |-> IF spec = absent THEN {} ELSE VerifySymbolFile(files.symbol, spec),
                       provenance |-> IF spec = absent THEN {}
                                      ELSE Unless(files.provenance,
                                                  VerifyProvenance(files.provenance, bundle, spec)),
                       resolved |-> IF spec = absent THEN {}
                                    ELSE Unless(files.resolved,
                                                VerifyResolvedSymbol(files.resolved, spec))]
         IN  {<<part, parts[part]>> : part \in {p \in DOMAIN parts : parts[p] # {}}}
=============================================================================
