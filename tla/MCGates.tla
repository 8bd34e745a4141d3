------------------------------- MODULE MCGates -------------------------------
(***************************************************************************)
(* The inputs of the gates, all small ones of every subject, and what the  *)
(* algorithms that read and draw documents promise of theirs.              *)
(***************************************************************************)
EXTENDS Gates, TLC

CONSTANTS Scores,      \* what an adapter may score, out of 0..Unit
          Regions,     \* number of regions of a retrieval pack
          RankedTotal  \* number of cases of a ranking

\* The cases of two documents in the order of their ids.
CaseNames == <<<<"i1", "c1">>, <<"i1", "c2">>, <<"i1", "c3">>, <<"i1", "c4">>,
               <<"i2", "c1">>, <<"i2", "c2">>, <<"i2", "c3">>, <<"i2", "c4">>>>
Placed == [id \in ToSet(CaseNames) |-> CHOOSE p \in DOMAIN CaseNames : CaseNames[p] = id]
PackTypes == {"pinout", "table"}
VectorValues == 3 * Regions

\* The words of the datasheets: an MPN, a longer one and another one, and two packages.
Words == [Acme |-> <<"acme">>, A1 |-> <<"a1">>, A2 |-> <<"a2">>, A1Q1 |-> <<"a1", "q1">>,
          SO8 |-> <<"so", "8">>, TO3 |-> <<"to", "3">>, TO39 |-> <<"to", "39">>,
          SO |-> <<"so">>, Eight |-> <<"8">>, Long |-> <<"long">>]
LetteredWords == DOMAIN Words \ {"Eight"}
DigitedWords == DOMAIN Words \ {"Acme", "SO", "Long"}
Packages == {"SO8", "TO3", "TO39"}
LengthyWords == {"Long"}
\* A manufacturer can be requested by its long name, but not with the short one before it.
RunBytes == [run \in UNION {ToSet(Words[w]) : w \in DOMAIN Words} |-> IF run = "long" THEN 156 ELSE 4]
RunBegins == {<<"3", "39">>}

Fus == INSTANCE RegionFusion WITH Width <- 4, Height <- 4

PinNames == {"GND", "GNDA", "VIN", "PH", "BOOT", "PA1", "EP"}
Sym == INSTANCE SymbolCompile WITH Numbers <- {"1", "2", "3", "4", "10", "1A"}, Names <- PinNames,
           KindWords <- {"power", "input", "output", "ground", "thermal"},
           Rank <- [n \in {"1", "2", "3", "4", "10", "1A"} |->
                       CASE n = "1" -> 1 [] n = "1A" -> 2 [] n = "2" -> 3 [] n = "3" -> 4
                         [] n = "4" -> 5 [] n = "10" -> 6],
           Width <- [n \in PinNames |-> 4], HoldGnd <- {"GND", "GNDA"}, EndInGnd <- {"GND"},
           GpioNames <- {"PA1"}
Gat == INSTANCE SymbolGate WITH absent <- "absent"

----------------------------------------------------------------------------
(* Registries.                                                               *)

TheIdentity == [manufacturer |-> "m", mpn |-> "p", package |-> "q"]
Case(id, label, region, view, claimed) ==
    [id |-> id, label |-> label, region |-> region, view |-> view, claimed |-> claimed,
     box |-> [x0 |-> 0, y0 |-> 0, x1 |-> 1, y1 |-> 1]]
PositiveCases == <<Case("c1", "positive", "pinout", "none", TheIdentity),
                   Case("c2", "positive", "table", "none", TheIdentity),
                   Case("c3", "positive", "package", "top", TheIdentity)>>

\* The fourth case: two that belong there and two that do not.
Negatives ==
    {Case("c4", "wrong_view", "package", view, TheIdentity) : view \in {"top", "bottom"}}
    \cup {Case("c4", "wrong_package", "package", "none", [TheIdentity EXCEPT !.package = q])
          : q \in {"q", "r"}}
Negative == Case("c4", "wrong_figure", "table", "none", TheIdentity)

Document(id, group, split, digest, status, negative) ==
    [id |-> id, group |-> group, split |-> split, digest |-> digest, category |-> "regulator",
     identity |-> TheIdentity, cases |-> Append(PositiveCases, negative),
     review |-> IF status = "reviewed"
                THEN [status |-> status, reviewers |-> <<"person">>, at |-> "then"]
                ELSE [status |-> status, reviewers |-> <<>>, at |-> "none"]]

Documents(id, splits, statuses, negatives) ==
    {Document(id, group, split, digest, status, negative) :
        group \in {"g1", "g2"}, split \in splits, digest \in {"h1", "h2"},
        status \in statuses, negative \in negatives}

Registries ==
    {<<a, b>> : a \in Documents("i1", Pol!Splits, {"reviewed", "unreviewed"}, Negatives),
                b \in Documents("i2", Pol!Splits, {"reviewed", "unreviewed"}, {Negative})}

\* Documents of two categories, and policies whose strata may overlap or leave one out.
Ledgers ==
    {<<[a EXCEPT !.category = c], [b EXCEPT !.category = d]>> :
        a \in {Document("i1", "g1", s, "h1", r, Negative) :
                  s \in Pol!Splits, r \in {"reviewed", "unreviewed"}},
        b \in {Document("i2", "g2", s, "h2", r, Negative) :
                  s \in Pol!Splits, r \in {"reviewed", "unreviewed"}},
        c \in {"regulator", "sensor"}, d \in {"regulator", "sensor"}}
Categories == (SUBSET {"regulator", "sensor"}) \ {{}}
LedgerPolicies ==
    [strata : {<<c>> : c \in Categories} \cup {<<c, d>> : c \in Categories, d \in Categories},
     splits : (SUBSET Pol!Splits) \ {{}}, labels : {Pol!Labels}, regions : {Pol!RegionTypes},
     documents : {2}, queries : {1}]

\* A registry of reviewed documents that are in order by themselves, and a plan.
HeldOutRegistries ==
    {<<a, b>> : a \in Documents("i1", Pol!HeldOut, {"reviewed"}, {Negative}),
                b \in Documents("i2", Pol!HeldOut, {"reviewed"}, {Negative})}
Plans == {{[id |-> "i1", split |-> "calibration", digest |-> d, category |-> "regulator"],
           [id |-> "i2", split |-> "evaluation", digest |-> e, category |-> "regulator"]} :
              d, e \in {"h1", "h2"}}
Swapped(plan) ==
    {[f EXCEPT !.split = IF @ = "calibration" THEN "evaluation" ELSE "calibration"] : f \in plan}

\* The ranking of a whole split in which all cases score the same.
RankingOf(registry, split) ==
    LET cases == SelectSeq(CaseNames, LAMBDA c : c \in Rnk!Universe(registry, split))
    IN  [r \in DOMAIN cases |-> [case |-> cases[r], score |-> 1]]
Judgeable == {c \in ToSet(CaseNames) : c[2] # "c3"}
Queries ==
    {[id |-> "q", group |-> g, split |-> s, type |-> t, hard |-> {hard},
      judgments |-> <<[case |-> case, grade |-> 2]>>, reviewed |-> reviewed] :
        g \in {"g1", "g2"}, s \in Pol!HeldOut, t \in Pol!RegionTypes, hard \in Judgeable,
        case \in Judgeable, reviewed \in BOOLEAN}

----------------------------------------------------------------------------
(* Predictions, rankings and packs.                                          *)

Prediction(case, split, label, score) ==
    [case |-> case, group |-> split, split |-> split, label |-> label, score |-> score]
PolicyLabels == {"positive", "wrong_figure", "wrong_package"}
CalibrationSets ==
    {{Prediction(1, "calibration", "positive", a), Prediction(2, "calibration", l, b),
      Prediction(3, split, m, c), Prediction(4, split, n, d)} :
        a, b, c, d \in Scores, l, m, n \in PolicyLabels,
        split \in {"calibration", "evaluation"}}

Rankings ==
    {[r \in 1..RankedTotal |-> [case |-> CaseNames[p[r]], score |-> IF tied THEN 1 ELSE RankedTotal - r]] :
        p \in Permutations(1..RankedTotal), tied \in BOOLEAN}
RankedQueries ==
    {[judgments |-> <<[case |-> CaseNames[1], grade |-> 2], [case |-> CaseNames[3], grade |-> grade]>>,
      hard |-> {CaseNames[h] : h \in hard}] : grade \in {1, 2}, hard \in {{2}, {2, 5}}}

Region(id, type, dims) ==
    [id |-> id, type |-> type, denseDim |-> 1, multiDims |-> dims]
Pack(ids, types, dims) ==
    [digest |-> "a", payload |-> "a", models |-> "m", denseDim |-> 1, multiDim |-> 1,
     regions |-> [i \in DOMAIN ids |-> Region(ids[i], types[i], dims)]]
Cascades ==
    {[pack |-> Pack([i \in 1..Regions |-> i], t, <<1>>), lexical |-> a, dense |-> b,
      exact |-> [i \in 1..Regions |-> (2 * i) % 3], routed |-> {"pinout"}, bounds |-> bounds] :
        t \in [1..Regions -> {"pinout", "table"}],
        a \in {[r \in 1..Regions |-> r], [r \in 1..Regions |-> Regions - r]}, b \in Permutations(1..Regions),
        bounds \in {x \in [topN : 1..Regions, maxsimK : 1..Regions, limit : {1, 2}] :
                       x.limit <= x.maxsimK /\ x.maxsimK <= x.topN}}
Stores ==
    {[pack |-> [Pack(ids, [i \in 1..3 |-> type], dims) EXCEPT !.payload = payload],
      bounds |-> bounds] :
        ids \in {<<>>, <<1>>, <<1, 2>>, <<2, 1>>, <<1, 1>>}, type \in {"pinout", "figure"},
        dims \in {<<>>, <<1>>, <<1, 1>>, <<1, 2>>, <<1, 1, 1>>}, payload \in {"a", "b"},
        bounds \in UNION {[given -> {1, 2}] : given \in SUBSET {"topN", "maxsimK", "limit"}}}

----------------------------------------------------------------------------
(* Datasheets.                                                               *)

Block(pinout, table, header, pins, y) ==
    [pinout |-> pinout, table |-> table, header |-> header, pins |-> 1..pins,
     y0 |-> y, y1 |-> y + 20]
Heading(y) == Block({"pin configuration", "top view"}, {"pin functions"}, {"pin", "function"}, 0, y)
\* Both regions verify; the pins are out of the window; the title is too weak a header.
Layouts == {<<Heading(100), Block({}, {}, {}, 10, 200)>>,
            <<Heading(100), Block({}, {}, {}, 10, 600)>>,
            <<Block({"pinout"}, {"terminal functions"}, {"function"}, 16, 100)>>}
GoodLayout == <<Heading(100), Block({}, {}, {}, 10, 200)>>
Page(lines) == [lines |-> lines, blocks |-> GoodLayout]

Lines == {<<"Acme">>, <<"A1", "SO8">>, <<"A1">>, <<"A2", "TO3">>, <<"Acme", "A1", "SO8">>,
          <<"Acme", "A2", "TO3">>, <<"Acme", "A1Q1", "TO3">>, <<"A1Q1", "SO8">>, <<"SO", "Eight">>,
          <<"TO3">>, <<"Acme", "A1", "A2", "SO8", "TO3">>, <<"Acme", "Long", "A2", "TO3">>}
Sheets == {<<Page(<<a, b, c>>)>> : a, b, c \in Lines}
          \cup {<<Page(<<a, b>>), Page(<<c>>)>> : a, b, c \in Lines}
Hints == [maker : {<<>>}, mpn : {"none", "A1", "A1Q1"}, package : {"none", "TO3"}]

\* Listings: one row after the other, each on one line or wrapped, with the manufacturer
\* above them all or at the head of each row.
Rows == [mpn : {"A1", "A2", "A1Q1"}, package : {"SO8", "TO3", "TO39"}, wrapped : BOOLEAN]
RowLines(row, headed) ==
    LET name == IF headed THEN <<"Acme", row.mpn>> ELSE <<row.mpn>>
    IN  IF row.wrapped THEN <<name, <<row.package>>>> ELSE <<Append(name, row.package)>>
Listing(rows, headed) ==
    <<Page(<<<<"Acme">>>> \o FlattenSeq([i \in DOMAIN rows |-> RowLines(rows[i], headed)]))>>

Part(mpn, package) == [maker |-> <<"acme">>, mpn |-> mpn, package |-> package]
Entry(id, group, split, digest, identity, negatives) ==
    [id |-> id, group |-> group, split |-> split, digest |-> digest, identity |-> identity,
     negatives |-> negatives]
Contents == {<<[lines |-> <<a, b>>, blocks |-> layout]>> : a, b \in Lines, layout \in Layouts}
            \cup {<<Page(<<a>>), [lines |-> <<b>>, blocks |-> layout]>> :
                     a, b \in Lines, layout \in Layouts}
\* The second document may be the first one under another name.
Benchmarks ==
    {[registry |-> <<Entry("d1", "g1", "development", 1, Part("A1", "SO8"),
                           <<[id |-> "n", identity |-> wrong, expected |-> reason]>>),
                     Entry("d2", group, split, digest, Part("A2", "TO3"),
                           <<[id |-> "n", identity |-> Part("A1", "TO3"), expected |-> "association"]>>)>>,
      fetched |-> [id \in {"d1", "d2"} |-> IF id = "d1" THEN document ELSE second],
      digestOf |-> [content \in {document, second} |-> IF content = document THEN 1 ELSE 2]] :
        wrong \in {Part("A1", "TO3"), Part("A2", "TO3"), Part("A2", "SO8"),
                   [Part("A2", "TO3") EXCEPT !.maker = <<"acme", "long">>]},
        reason \in {"mpn", "association", "invalid"}, group \in {"g1", "g2"},
        split \in {"development", "evaluation"}, digest \in {1, 2}, document \in Contents,
        second \in {<<Page(<<<<"Acme", "A2", "TO3">>, <<"A1", "SO8">>>>)>>}}

----------------------------------------------------------------------------
(* Pages that paint images, and boxes around them.                           *)

\* Put somewhere, blown up, and turned by a right angle.
Matrices == {[Fus!Identity EXCEPT !.e = 1, !.f = 2], [Fus!Identity EXCEPT !.a = 2, !.d = 3],
             [a |-> 0, b |-> 2, c |-> -1, d |-> 0, e |-> 1, f |-> 0]}
Operators == [op : {"q", "Q", "Do", "bare"}] \cup [op : {"cm"}, m : Matrices]
Streams == BoundedSeq(Operators, 5)
Extracted(content) == Fus!ExtractXobjects([content |-> content, pictured |-> TRUE])

Count(content, i, op) == Cardinality({k \in 1..i : content[k].op = op})
Depth(content, i) == Count(content, i, "q") - Count(content, i, "Q")
\* The transformations in force at i: no block they are in has ended.
InForce(content, i) ==
    {k \in 1..i : /\ content[k].op = "cm"
                  /\ \A j \in k..i : Depth(content, j) >= Depth(content, k)}
\* A later transformation applies before those it is in.
Matrix(content, i) ==
    FoldLeft(LAMBDA m, k : Fus!Multiply(content[k].m, m), Fus!Identity,
             SetToSortSeq(InForce(content, i), <))
Paints(content) ==
    LET at == SetToSortSeq({i \in DOMAIN content : content[i].op = "Do"}, <)
    IN  [n \in DOMAIN at |-> Fus!UnitSquareBox(Matrix(content, at[n]))]

Rects == [x0 : {0, 1}, y0 : {0}, x1 : {2, 3, 4}, y1 : {2, 4}]
Painting(r) == <<[op |-> "q"],
                 [op |-> "cm", m |-> [a |-> r.x1 - r.x0, b |-> 0, c |-> 0, d |-> r.y1 - r.y0,
                                      e |-> r.x0, f |-> 4 - r.y1]],
                 [op |-> "Do"], [op |-> "Q"]>>
LayoutPage(p, boxes, hinted, images) ==
    [detected |-> [i \in DOMAIN boxes |-> [page |-> p, source |-> "layout", box |-> boxes[i]]],
     fallback |-> <<>>, hinted |-> hinted, pictured |-> images # <<>>,
     content |-> IF images = <<>> THEN <<[op |-> "Q"]>>
                 ELSE FlattenSeq([i \in DOMAIN images |-> Painting(images[i])])]
NothingSealed == [urls |-> {}, digests |-> {}, markers |-> {}]
\* A page without images may have any content: it is not read.
PaintedDocuments ==
    {[pages |-> <<LayoutPage(1, boxes, FALSE, images), LayoutPage(2, <<>>, hinted, more)>>,
      digest |-> "h", recorded |-> "h", url |-> "u", markers |-> {"M"}] :
        boxes \in BoundedSeq(Rects, 2), images \in BoundedSeq({r \in Rects : r.y1 = 4}, 2),
        more \in {<<>>, <<CHOOSE r \in Rects : TRUE>>}, hinted \in BOOLEAN}

----------------------------------------------------------------------------
(* Pin tables.                                                               *)

TableLines == {<<"1", "GND", "ground">>, <<"2", "GNDA", "input">>, <<"3", "GNDA", "power">>,
               <<"4", "VIN", "input">>, <<"10", "PH", "output">>, <<"1A", "BOOT", "input">>,
               <<"2", "PA1", "input">>, <<"3", "EP", "thermal">>, <<"4", "V-", "power">>}
PinTables == UNION {[1..n -> TableLines] : n \in 4..5}
Evidence ==
    [identity |-> Part("A1", "SO8"), datasheet |-> "d", content |-> "c",
     regions |-> {[id |-> "r_pinout_01"], [id |-> "r_pin_table_01"], [id |-> "r_package_01"]}]

MCInputs == [name \in Subjects |->
    CASE name = "registry" -> Registries
      [] name = "artifacts" ->
            UNION {[calibration : HeldOutRegistries, evaluation : HeldOutRegistries,
                    plan : {p}, later : {p, Swapped(p)}] : p \in Plans}
      [] name = "ledger" -> [registry : Ledgers, policy : LedgerPolicies]
      [] name = "judgments" ->
            UNION {[query : {q \in Queries : q.split = split}, registry : {r},
                    ranking : {RankingOf(r, split)}] :
                      r \in HeldOutRegistries, split \in Pol!HeldOut}
      [] name = "policy" -> [predictions : CalibrationSets,
                             rate : {[num |-> 0, den |-> 1], [num |-> 1, den |-> 2]}]
      [] name = "ranking" -> [query : RankedQueries, ranking : Rankings]
      [] name = "cascade" -> Cascades
      [] name = "pack" -> Stores
      [] name = "datasheet" -> [document : Sheets, hint : Hints]
      [] name = "listing" -> [rows : BoundedSeq(Rows, 3) \ {<<>>}, headed : BOOLEAN]
      [] name = "benchmark" -> Benchmarks
      [] name = "stream" -> Streams
      [] name = "symbol" -> PinTables
      [] name = "regions" -> PaintedDocuments]

----------------------------------------------------------------------------
(* Properties.                                                               *)

\* pipeline.py: of a listing with rows that begin with their part number, the parts that
\* prove are those of its rows, a longer number standing for the one it contains.
OnlyListedPartsProve ==
    subject = "listing" /\ ~ input.headed =>
        \A mpn \in {"A1", "A2", "A1Q1"}, package \in Packages :
            Txt!ProveIdentity(Listing(input.rows, FALSE), Part(mpn, package)) = "proved"
            <=> \E i \in DOMAIN input.rows :
                   /\ input.rows[i].package = package
                   /\ Txt!ContainsExactMpn(<<input.rows[i].mpn>>, mpn)

\* docs/CONTRACTS.md:107 says that adjacent part rows must never be combined: no part
\* proves with the package of another row, whatever the rows begin with.
AdjacentRowsAreNotCombined ==
    subject = "listing" =>
        \A row \in Rows :
            Txt!ProveIdentity(Listing(input.rows, input.headed), Part(row.mpn, row.package)) = "proved"
            => \E i \in DOMAIN input.rows :
                   /\ input.rows[i].package = row.package
                   /\ Txt!ContainsExactMpn(<<input.rows[i].mpn>>, row.mpn)

\* dsff.py: where one transformation at a time is in force, each image painted is found
\* where it is painted, and nothing else refuses a document than an operator without its
\* operands, a block that ends without a beginning or an image of which the page shows
\* nothing.
ImagesAreFound ==
    subject = "stream"
    /\ (\A i \in DOMAIN input : input[i].op = "Do" => Cardinality(InForce(input, i)) <= 1) =>
        LET found == Extracted(input)
        IN  IF found.refused
            THEN \E i \in DOMAIN input :
                    \/ input[i].op = "bare" \/ Depth(input, i) < 0
                    \/ /\ input[i].op = "Do"
                       /\ ~ Fus!Positive(Fus!UnitSquareBox(Matrix(input, i)))
            ELSE found.figures = Paints(input)

\* dsff.py:1 associates images to boxes "by geometry": whatever transformations are in
\* force, an image is found where it is painted.
TransformationsConcatenate ==
    subject = "stream" /\ ~ Extracted(input).refused =>
        Extracted(input).figures = Paints(input)

\* dsff.py and region_corpus.py: no image and no box gets lost between association and
\* the removal of duplicates, no region is made up, and whole pages with a heading of
\* interest are regions if and only if the layout of the document has none.
EveryFigureHasARegion ==
    subject = "regions" =>
        LET regions == ToSet(Fus!BuildRegionRecords(input, NothingSealed))
            pages == DOMAIN input.pages
            images == UNION {{<<p, box>> : box \in ToSet(Paints(input.pages[p].content))} : p \in pages}
            boxes == UNION {{<<p, b.box>> : b \in ToSet(input.pages[p].detected)} : p \in pages}
            whole == [x0 |-> 0, y0 |-> 0, x1 |-> 4, y1 |-> 4]
            hinted == IF boxes = {} THEN {<<p, whole>> : p \in {q \in pages : input.pages[q].hinted}}
                      ELSE {}
            places == {<<r.page, r.box>> : r \in regions}
        IN  /\ boxes \cup hinted \subseteq places
            /\ places \subseteq boxes \cup hinted \cup images
            /\ \A i \in images : \E r \in places : r[1] = i[1] /\ Fus!AtLeastHalf(Fus!Iou(r[2], i[2]))
            /\ Cardinality(places) = Cardinality(regions)

\* symbol_extract.py, symbol_layout.py, symbol_compile.py: a symbol has a pin for each row
\* that was read and no other, each in a place of its own, a pitch from the next one of
\* its side and in the order of groups and numbers there; grounds and they alone are at
\* the bottom; and its specification passes the gate of scripts/verify.py.
SymbolsShowTheirTable ==
    subject = "symbol" =>
        LET symbol == Sym!CompileSymbol(Evidence.identity, input, Evidence)
            pins == symbol.pins
            Apart(p, q) == \E k \in {1, 2} : Max({p.at[k] - q.at[k], q.at[k] - p.at[k]}) >= 100
        IN  ~ symbol.refused =>
            /\ Len(pins) = Len(symbol.spec.pins)
            /\ {pins[i].pin.number : i \in DOMAIN pins}
                   = {input[i][1] : i \in {j \in DOMAIN input : Sym!Matches(input[j])}}
            /\ \A i, j \in DOMAIN pins : i < j =>
                  /\ pins[i].at # pins[j].at
                  /\ pins[i].side = pins[j].side =>
                        /\ Apart(pins[i], pins[j])
                        /\ ~ Sym!Before(pins[j].pin, pins[i].pin)
            /\ \A i \in DOMAIN pins : (pins[i].pin.group = "ground") = (pins[i].side = "bottom")
            /\ Gat!VerifySymbolSpec(symbol.spec @@ [fits |-> TRUE], Evidence) = {}

\* symbol_extract.py:1 extracts pin tables "fail-closed", and docs/CONTRACTS.md calls
\* unrecognised or missing pins "a hard reconciliation failure": no row that begins with
\* the number of a pin is passed over.  It does not hold.
EveryPinIsRead ==
    subject = "symbol" =>
        LET symbol == Sym!CompileSymbol(Evidence.identity, input, Evidence)
        IN  ~ symbol.refused =>
            {input[i][1] : i \in DOMAIN input}
                \subseteq {symbol.spec.pins[i].number : i \in DOMAIN symbol.spec.pins}
=============================================================================
