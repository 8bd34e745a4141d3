--------------------------- MODULE DatasheetText ---------------------------
(***************************************************************************)
(* What DS-ViRe reads in the text of a datasheet (pipeline.py): the parts  *)
(* it finds in it, the proof that a requested part is listed, the regions  *)
(* that hold its pins, and the benchmark that gates on both                *)
(* (evaluation.py).                                                        *)
(*                                                                         *)
(* A line is a sequence of words; Parts[w] is the sequence of alphanumeric *)
(* runs of w in normal form, joined by hyphens in w itself.  A document is *)
(* a sequence of pages with their lines and their text blocks; heights are *)
(* in thousandths of the page.  The words a row may carry in brackets or   *)
(* in another case are their normal form.  Documents are PDFs of a size    *)
(* and a number of pages that are accepted, and their crops can be         *)
(* rendered.                                                               *)
(***************************************************************************)
EXTENDS Naturals, Sequences, FiniteSets, SequencesExt, FiniteSetsExt, TLC

CONSTANTS Parts,        \* word -> its runs of letters and digits
          Lettered,     \* the words with a letter
          Digited,      \* the words with a digit
          PackageWords, \* the words PACKAGE_TOKEN matches as a whole
          Lengthy,      \* the words of more than 40 characters
          Bytes,        \* run -> its length in UTF-8
          Begins        \* pairs of a run and a longer one that begins with it

None == "none"

Tokens(line) == FlattenSeq([i \in DOMAIN line |-> Parts[line[i]]])
PageTokens(lines) == FlattenSeq([i \in DOMAIN lines |-> Tokens(lines[i])])

\* _contains_phrase: an empty phrase is in no text.
ContainsPhrase(tokens, phrase) ==
    /\ phrase # <<>>
    /\ \E k \in 0..(Len(tokens) - Len(phrase)) :
          SubSeq(tokens, k + 1, k + Len(phrase)) = phrase

\* _contains_ordered_tokens: from a first token on, the rest in order with at most two
\* others in between.
ContainsOrderedTokens(tokens, phrase) ==
    phrase # <<>> /\ \E at \in [DOMAIN phrase -> DOMAIN tokens] :
        /\ \A k \in DOMAIN phrase : tokens[at[k]] = phrase[k] /\ (k > 1 => at[k - 1] < at[k])
        /\ at[Len(phrase)] <= at[1] + Len(phrase) + 1

\* _contains_exact_mpn: between characters that are not letters or digits, so a hyphen
\* delimits it too.
ContainsExactMpn(line, mpn) == \E i \in DOMAIN line : ContainsPhrase(Parts[line[i]], Parts[mpn])

\* Faulty: no line starts the row of another part.
FaultyStartsNewPartRow(line, package) == FALSE

\* _starts_new_part_row: its first word has letters and digits, and the name of the
\* requested package does not begin with it.
StartsNewPartRow(line, package) ==
    /\ line # <<>> /\ line[1] \in Lettered \cap Digited
    /\ LET first == Parts[line[1]]
           name == Parts[package]
           n == Len(first)
       IN  ~ /\ n <= Len(name)
             /\ \A k \in 1..(n - 1) : first[k] = name[k]
             /\ first[n] = name[n] \/ <<first[n], name[n]>> \in Begins

----------------------------------------------------------------------------
(* The proof of a requested identity.                                        *)

\* Faulty: the row begins after its line and takes three.
FaultyRow(lines, i, package) == SubSeq(lines, i + 1, Min({i + 3, Len(lines)}))

\* The row of line i: the line and up to three that continue it.
Row(lines, i, package) ==
    LET Continues(j) == \A k \in (i + 1)..j : ~ StartsNewPartRow(lines[k], package)
        last == Max({j \in i..Min({i + 3, Len(lines)}) : Continues(j)})
    IN  SubSeq(lines, i, last)

\* Runs are joined by one hyphen or space.
Within(limit, phrase) == FoldLeft(LAMBDA n, run : n + Bytes[run] + 1, 0, phrase) <= limit + 1

\* DatasheetIdentity.validate: no field is blank or over its limit.
Valid(identity) ==
    /\ identity.maker # <<>> /\ Within(160, identity.maker)
    /\ identity.mpn # None /\ Within(120, Parts[identity.mpn])
    /\ identity.package # None /\ Within(120, Parts[identity.package])

Mentions(page, mpn) == {i \in DOMAIN page.lines : ContainsExactMpn(page.lines[i], mpn)}

Associates(page, identity) ==
    \E i \in Mentions(page, identity.mpn) :
        ContainsOrderedTokens(PageTokens(Row(page.lines, i, identity.package)),
                              Parts[identity.package])

\* _identity_package_candidate: "proved", or the reason it abstains for.
ProveIdentity(document, identity) ==
    LET pages == {document[i] : i \in DOMAIN document}
    IN  IF \A p \in pages : ~ ContainsPhrase(PageTokens(p.lines), identity.maker)
        THEN "manufacturer"
        ELSE IF \A p \in pages : Mentions(p, identity.mpn) = {} THEN "mpn"
        ELSE IF \A p \in pages : ~ Associates(p, identity) THEN "association"
        ELSE "proved"

----------------------------------------------------------------------------
(* The identities a document itself offers.                                  *)

NoHint == [maker |-> <<>>, mpn |-> None, package |-> None]

LooksLikeMpn(word) == word \in (Lettered \cap Digited) \ (PackageWords \cup Lengthy)

HintMatches(identity, hint) ==
    /\ hint.maker # <<>> => ContainsPhrase(identity.maker, hint.maker)
    /\ hint.mpn # None => Parts[identity.mpn] = Parts[hint.mpn]
    /\ hint.package # None => ContainsOrderedTokens(Parts[identity.package], Parts[hint.package])

\* The i-th word looks like a part number after words that may be its manufacturer, and
\* the j-th is the first package after it.
NamesPart(line, i, j) ==
    /\ LooksLikeMpn(line[i])
    /\ i > 1 /\ \A k \in 1..(i - 1) : line[k] \notin Digited
    /\ i < j /\ line[j] \in PackageWords
    /\ \A k \in (i + 1)..(j - 1) : line[k] \notin PackageWords

LineIdentities(line) ==
    UNION {{[maker |-> Tokens(SubSeq(line, 1, i - 1)), mpn |-> line[i], package |-> line[j]] :
               j \in {j \in DOMAIN line : NamesPart(line, i, j)}} : i \in DOMAIN line}

\* discover_part_identities does not validate what it finds.
Discover(document, hint) ==
    UNION {UNION {{identity \in LineIdentities(document[p].lines[i]) :
                      /\ ContainsPhrase(PageTokens(document[p].lines), identity.maker)
                      /\ HintMatches(identity, hint)} :
                  i \in DOMAIN document[p].lines} : p \in DOMAIN document}

Complete(hint) == hint.maker # <<>> /\ hint.mpn # None /\ hint.package # None

\* resolve_identity: a valid complete hint is believed here, and proved later.
ResolveIdentity(document, hint) ==
    LET candidates == Discover(document, hint)
    IN  IF Complete(hint)
        THEN IF Valid(hint) THEN [outcome |-> "resolved", candidates |-> {hint}]
             ELSE [outcome |-> "refused", candidates |-> {}]
        ELSE IF candidates = {} THEN [outcome |-> "refused", candidates |-> {}]
        ELSE IF Cardinality(candidates) > 1 THEN [outcome |-> "ambiguous", candidates |-> candidates]
        ELSE [outcome |-> "resolved", candidates |-> candidates]

----------------------------------------------------------------------------
(* The regions with the pins.                                                *)

Kinds == {"pinout", "table"}

\* score_candidate, in thousandths: a region has sets of title and header terms and of
\* pin tokens; overlapping titles of a table count once.
ScoreCandidate(kind, region) ==
    LET titles == Cardinality(region[kind])
        header == Cardinality(region.header)
        pins == Cardinality(region.pins)
        score == IF kind = "pinout"
                 THEN 340 * titles + 45 * Min({pins, 12})
                 ELSE 300 * Min({titles, 1}) + 90 * Min({header, 3}) + 30 * Min({pins, 16})
        capped == Min({1000, score})
    IN  [score |-> capped,
         verified |-> /\ titles >= 1 /\ pins >= 4
                      /\ IF kind = "pinout" THEN capped >= 700 ELSE header >= 2 /\ capped >= 720]

\* _candidate_for_page: the block with most title terms, the topmost of several, and all
\* that reaches into the window below it; {} if the page has no title.
CandidateForPage(kind, page, blocks) ==
    LET anchors == {b \in ToSet(blocks) : b[kind] # {}}
        Better(a, b) == \/ Cardinality(a[kind]) > Cardinality(b[kind])
                        \/ Cardinality(a[kind]) = Cardinality(b[kind]) /\ a.y0 <= b.y0
        anchor == CHOOSE a \in anchors : \A b \in anchors : Better(a, b)
        top == IF anchor.y0 > 35 THEN anchor.y0 - 35 ELSE 0
        bottom == Min({1000, Max({anchor.y1 + 160, top + (IF kind = "pinout" THEN 340 ELSE 420)})})
        nearby == {b \in ToSet(blocks) : b.y1 >= top /\ b.y0 <= bottom}
        region == [f \in {"pinout", "table", "header", "pins"} |-> UNION {b[f] : b \in nearby}]
    IN  IF anchors = {} THEN {} ELSE {ScoreCandidate(kind, region) @@ [page |-> page]}

\* _best_candidates: for each kind the highest score, the first page of several; {} if it
\* abstains because a kind is missing or the best of it does not verify.
BestCandidates(document) ==
    LET all(kind) == UNION {CandidateForPage(kind, p, document[p].blocks) : p \in DOMAIN document}
        best(kind) == {c \in all(kind) : \A d \in all(kind) :
                          d.score < c.score \/ (d.score = c.score /\ c.page <= d.page)}
    IN  IF \E kind \in Kinds : \A c \in best(kind) : ~ c.verified THEN {}
        ELSE {[kind \in Kinds |-> CHOOSE c \in best(kind) : TRUE]}

\* retrieve_symbol_evidence, as far as the text decides it: the request, the regions, the
\* proof.
Retrieve(document, identity) ==
    IF ~ Valid(identity) THEN "invalid"
    ELSE IF BestCandidates(document) = {} THEN "regions"
    ELSE ProveIdentity(document, identity)

----------------------------------------------------------------------------
(* The identity benchmark (evaluation.py).                                   *)

\* load_registry_data: no id twice, no group and no content in two splits.
LoadRegistry(registry) ==
    /\ registry # <<>>
    /\ \A i, j \in DOMAIN registry :
          LET d == registry[i]
              e == registry[j]
          IN  /\ i # j => d.id # e.id
              /\ d.group = e.group => d.split = e.split
              /\ d.digest = e.digest => d.group = e.group /\ d.split = e.split
    /\ \A i \in DOMAIN registry :
          /\ registry[i].split \in {"development", "evaluation"}
          /\ registry[i].negatives # <<>>
          /\ \A a, b \in DOMAIN registry[i].negatives :
                registry[i].negatives[a].id = registry[i].negatives[b].id => a = b

\* evaluate_registry on what is fetched for each document, and its digest: every positive
\* is proved and every negative abstains for the reason expected of it.
GatePassed(registry, fetched, digests) ==
    \A i \in DOMAIN registry :
        LET entry == registry[i]
            document == fetched[entry.id]
        IN  /\ digests[entry.id] = entry.digest
            /\ Retrieve(document, entry.identity) = "proved"
            /\ \A n \in DOMAIN entry.negatives :
                LET outcome == Retrieve(document, entry.negatives[n].identity)
                IN  outcome # "proved" /\ outcome = entry.negatives[n].expected
=============================================================================
