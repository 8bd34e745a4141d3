---------------------------- MODULE RegionFusion ----------------------------
(***************************************************************************)
(* The regions of a document for training: the images its pages paint      *)
(* (dsff.py), the boxes a layout detector finds (layout_detect.py), their  *)
(* association by geometry, and the records made of both                   *)
(* (region_corpus.py).                                                     *)
(*                                                                         *)
(* A content stream is a sequence of the operators that matter: q and Q,   *)
(* cm with its matrix, Do of an image or of something else.  Positions are *)
(* integers in units of a page of Width by Height; the code divides them   *)
(* by the page's size.                                                     *)
(***************************************************************************)
EXTENDS Integers, Sequences, FiniteSets, SequencesExt, FiniteSetsExt, TLC

CONSTANTS Width, Height

----------------------------------------------------------------------------
(* Images.                                                                   *)

Identity == [a |-> 1, b |-> 0, c |-> 0, d |-> 1, e |-> 0, f |-> 0]

\* Affine.multiply and apply: a point goes through self, then through other.
Multiply(self, other) ==
    [a |-> self.a * other.a + self.b * other.c,
     b |-> self.a * other.b + self.b * other.d,
     c |-> self.c * other.a + self.d * other.c,
     d |-> self.c * other.b + self.d * other.d,
     e |-> self.e * other.a + self.f * other.c + other.e,
     f |-> self.e * other.b + self.f * other.d + other.f]

Apply(m, x, y) == [x |-> m.a * x + m.c * y + m.e, y |-> m.b * x + m.d * y + m.f]

Clamp(v, limit) == Max({0, Min({limit, v})})

\* _unit_square_bbox: what an image covers, with y from the top and cut to the page.
UnitSquareBox(m) ==
    LET corners == {Apply(m, x, y) : x, y \in {0, 1}}
        xs == {p.x : p \in corners}
        ys == {p.y : p \in corners}
    IN  [x0 |-> Clamp(Min(xs), Width), y0 |-> Clamp(Height - Max(ys), Height),
         x1 |-> Clamp(Max(xs), Width), y1 |-> Clamp(Height - Min(ys), Height)]

Positive(box) == box.x0 < box.x1 /\ box.y0 < box.y1

\* Faulty: q starts again from the identity.
FaultySaved(stack) == Append(stack, Identity)

Saved(stack) == Append(stack, Last(stack))

\* One operator of extract_xobjects: a stack of matrices; cm multiplies the current one
\* by its own.  An image off the page, a Q too many, or a cm or Do without its operands
\* refuses the whole document; a name that is not that of an image is passed over.
Step(state, op) ==
    LET box == UnitSquareBox(Last(state.stack))
        refuse == [state EXCEPT !.refused = TRUE]
    IN  CASE state.refused -> state
          [] op.op = "q"  -> [state EXCEPT !.stack = Saved(@)]
          [] op.op = "Q"  -> IF Len(state.stack) = 1 THEN refuse
                             ELSE [state EXCEPT !.stack = Front(@)]
          [] op.op = "cm" -> [state EXCEPT !.stack = Append(Front(@), Multiply(Last(@), op.m))]
          [] op.op = "Do" -> IF Positive(box) THEN [state EXCEPT !.figures = Append(@, box)]
                             ELSE refuse
          [] op.op = "bare" -> refuse
          [] OTHER        -> state

\* The content of a page is read if its resources have an image.
ExtractXobjects(page) ==
    FoldLeft(Step, [stack |-> <<Identity>>, figures |-> <<>>, refused |-> FALSE],
             IF page.pictured THEN page.content ELSE <<>>)

----------------------------------------------------------------------------
(* Boxes.                                                                    *)

Area(box) == (box.x1 - box.x0) * (box.y1 - box.y0)

Overlap(l, r) ==
    LET common == [x0 |-> Max({l.x0, r.x0}), y0 |-> Max({l.y0, r.y0}),
                   x1 |-> Min({l.x1, r.x1}), y1 |-> Min({l.y1, r.y1})]
    IN  IF Positive(common) THEN Area(common) ELSE 0

\* iou, as a fraction.
Iou(l, r) == [num |-> Overlap(l, r), den |-> Area(l) + Area(r) - Overlap(l, r)]
Exceeds(p, q) == p.num * q.den > q.num * p.den
AtLeastHalf(p) == 2 * p.num >= p.den

\* detect_document: page after page, what the detector finds there, or else the fallback.
DetectDocument(pages, fallback) ==
    FlattenSeq([p \in DOMAIN pages |-> IF pages[p].detected = <<>> /\ fallback
                                       THEN pages[p].fallback ELSE pages[p].detected])

\* toc_page_backfill: whole pages with a heading of interest.
TocPageBackfill(pages) ==
    LET whole(p) == IF pages[p].hinted
                    THEN <<[page |-> p, source |-> "toc_backfill",
                            box |-> [x0 |-> 0, y0 |-> 0, x1 |-> Width, y1 |-> Height]]>>
                    ELSE <<>>
    IN  FlattenSeq([p \in DOMAIN pages |-> whole(p)])

\* The image of the box's page, not taken yet, that overlaps most; the first of several.
BestFigures(box, figures, used) ==
    LET free == {i \in DOMAIN figures \ used :
                    figures[i].page = box.page /\ Overlap(box.box, figures[i].box) > 0}
        Score(i) == Iou(box.box, figures[i].box)
    IN  {i \in free : \A j \in free : /\ ~ Exceeds(Score(j), Score(i))
                                      /\ j < i => Exceeds(Score(i), Score(j))}

\* Faulty: an image is used up by a box that is far from it.
FaultyUsed(best, close) == best

Used(best, close) == IF close THEN best ELSE {}

\* associate: box after box, with the image that overlaps it most if that is half of
\* both together; the images left over are regions of their own.
Associate(figures, boxes) ==
    LET Take(state, box) ==
            LET best == BestFigures(box, figures, state.used)
                close == \E i \in best : AtLeastHalf(Iou(box.box, figures[i].box))
            IN  [used |-> state.used \cup Used(best, close),
                 regions |-> Append(state.regions,
                                    [box EXCEPT !.source = IF close THEN "ensemble" ELSE @])]
        taken == FoldLeft(Take, [used |-> {}, regions |-> <<>>], boxes)
        rest == SetToSortSeq(DOMAIN figures \ taken.used, <)
    IN  taken.regions \o [k \in DOMAIN rest |-> figures[rest[k]] @@ [source |-> "xobject"]]

\* _materialize: one record for each page and box, that of the first region with them.
Materialize(regions) ==
    SelectSeq([i \in DOMAIN regions |-> regions[i] @@ [place |-> i]],
              LAMBDA r : \A j \in 1..(r.place - 1) :
                            regions[j].page # r.page \/ regions[j].box # r.box)

\* leakage_hits: by the address, the digest and the names of the record.
Leaks(document, sealed) ==
    \/ document.url \in sealed.urls
    \/ document.recorded \in sealed.digests
    \/ document.markers \cap sealed.markers # {}

\* build_region_records: <<>> if it refuses the document.
BuildRegionRecords(document, sealed) ==
    LET detected == DetectDocument(document.pages, FALSE)
        boxes == IF detected = <<>> THEN TocPageBackfill(document.pages) ELSE detected
        images == [p \in DOMAIN document.pages |-> ExtractXobjects(document.pages[p])]
        figures == FlattenSeq([p \in DOMAIN images |->
                                  [i \in DOMAIN images[p].figures |->
                                      [page |-> p, box |-> images[p].figures[i]]]])
    IN  IF Leaks(document, sealed) \/ document.digest # document.recorded
           \/ \E p \in DOMAIN images : images[p].refused
        THEN <<>> ELSE Materialize(Associate(figures, boxes))
=============================================================================
