---------------------------- MODULE SymbolCompile ----------------------------
(***************************************************************************)
(* A symbol from a pin table: the pins read from it (symbol_extract.py),   *)
(* their places around a rectangle (symbol_layout.py), and the document    *)
(* made of both (symbol_compile.py).                                       *)
(*                                                                         *)
(* A table is a sequence of lines, a line a sequence of words.  Lengths    *)
(* are in hundredths of the pitch of pins.                                 *)
(***************************************************************************)
EXTENDS Integers, Sequences, FiniteSets, SequencesExt, FiniteSetsExt

CONSTANTS Numbers,     \* the words _ROW reads as a number of a pin
          Names,       \* those it reads as a name
          KindWords,   \* those it reads as a type
          Rank,        \* a number's place in the order of digits, then of spelling
          Width,       \* how many characters a name has
          HoldGnd,     \* names with GND in them
          EndInGnd,    \* names with GND at the end
          GpioNames    \* names of ports

----------------------------------------------------------------------------
(* Extraction.                                                               *)

PadNames == {"VSS", "EP", "PWRPAD", "PAD"}
PowerNames == {"VIN", "VDD", "VCC", "VBAT", "AVDD", "DVDD", "PVIN"}
AnalogNames == {"BOOT", "COMP", "FB", "VSENSE"}

\* _ELECTRICAL; a word it does not have is of no specified type.
Meaning(kind) ==
    CASE kind \in {"input", "in", "i"} -> "input"
      [] kind \in {"output", "out", "o"} -> "output"
      [] kind \in {"bidirectional", "bidi", "io", "i/o"} -> "bidirectional"
      [] kind \in {"tri_state", "tristate"} -> "tri_state"
      [] kind \in {"power", "power_in", "pwr", "supply", "ground", "gnd"} -> "power_in"
      [] kind \in {"nc", "n/c", "no_connect"} -> "no_connect"
      [] kind \in {"passive", "free", "power_out", "open_collector", "open_emitter"} -> kind
      [] OTHER -> "unspecified"

\* _electrical: the name of a supply outweighs what the table says of it.
Electrical(name, kind) ==
    IF name \in PadNames \cup EndInGnd \cup PowerNames THEN "power_in" ELSE Meaning(kind)

\* _group; a name in its list of grounds is always a power input.
Group(name, electrical) ==
    IF name \in PadNames \cup EndInGnd \/ (electrical = "power_in" /\ name \in HoldGnd) THEN "ground"
    ELSE IF electrical \in {"power_in", "power_out"} THEN "power"
    ELSE IF name \in AnalogNames THEN "analog"
    ELSE IF name \in GpioNames THEN "gpio" ELSE "signal"

Matches(line) ==
    Len(line) >= 3 /\ line[1] \in Numbers /\ line[2] \in Names /\ line[3] \in KindWords

\* One row; a line that is not one is passed over.  Confidence is in hundredths.
Pin(line) ==
    LET electrical == Electrical(line[2], line[3])
    IN  [number |-> line[1], name |-> line[2], electrical |-> electrical,
         group |-> Group(line[2], electrical), evidence |-> {"r_pinout_01", "r_pin_table_01"},
         confidence |-> IF electrical = "unspecified" THEN 72 ELSE 86]

NumbersRepeat(rows) == \E i, j \in DOMAIN rows : i # j /\ rows[i][1] = rows[j][1]

\* parse_pin_table: <<>> if it refuses the table.
ParsePinTable(table) ==
    LET rows == SelectSeq(table, Matches)
    IN  IF NumbersRepeat(rows) \/ Len(rows) < 4 THEN <<>> ELSE [i \in DOMAIN rows |-> Pin(rows[i])]

\* extract_symbol_spec, of a part and the evidence for it.
ExtractSymbolSpec(identity, table, evidence) ==
    [identity |-> identity, pins |-> ParsePinTable(table),
     datasheet |-> evidence.datasheet, content |-> evidence.content]

----------------------------------------------------------------------------
(* Layout.                                                                   *)

PinSide(pin) ==
    LET electrical == pin.electrical
    IN  IF electrical = "power_in" /\ pin.name \in PadNames \cup HoldGnd THEN "bottom"
        ELSE IF electrical \in {"power_in", "power_out"} THEN "top"
        ELSE IF electrical \in {"output", "open_collector", "open_emitter"} THEN "right"
        ELSE "left"

GroupOrder == [analog |-> 1, gpio |-> 2, ground |-> 3, power |-> 4, signal |-> 5]

\* _sort_key
Before(p, q) ==
    \/ GroupOrder[p.group] < GroupOrder[q.group]
    \/ p.group = q.group /\ Rank[p.number] < Rank[q.number]

OnSide(pins, side) == SortSeq(SelectSeq(pins, LAMBDA p : PinSide(p) = side), Before)

\* Faulty: one place too many.
FaultySpaced(count, start, end, i) == start + ((end - start) * (i - 1)) \div count

\* The i-th of count places from start to end, both included.
Spaced(count, start, end, i) ==
    IF count = 1 THEN (start + end) \div 2
                 ELSE start + ((end - start) * (i - 1)) \div (count - 1)

Body(pins) ==
    LET on(side) == Len(OnSide(pins, side))
        extent(count) == Max({count - 1, 1}) * 100 + 160
        longest == Max({Width[pins[i].name] : i \in DOMAIN pins})
    IN  [height |-> extent(Max({on("left"), on("right"), 2})),
         width |-> Max({extent(Max({on("top"), on("bottom"), 1})), 240 + 22 * longest})]

\* Down the left and the right side, along the top and the bottom.
Place(pins, side, body, i) ==
    LET count == Len(OnSide(pins, side))
        x == body.width \div 2
        y == body.height \div 2
    IN  CASE side = "left"   -> <<-x, Spaced(count, y - 80, 80 - y, i)>>
          [] side = "right"  -> <<x, Spaced(count, y - 80, 80 - y, i)>>
          [] side = "top"    -> <<Spaced(count, 80 - x, x - 80, i), y>>
          [] side = "bottom" -> <<Spaced(count, 80 - x, x - 80, i), -y>>

\* layout_pins: the sides one after the other.
LayoutPins(pins) ==
    LET body == Body(pins)
        Placed(side) ==
            LET there == OnSide(pins, side)
            IN  [i \in DOMAIN there |->
                    [pin |-> there[i], side |-> side, at |-> Place(pins, side, body, i)]]
    IN  Placed("left") \o Placed("right") \o Placed("top") \o Placed("bottom")

----------------------------------------------------------------------------

\* compile_symbol, of the part the datasheet was resolved to, its evidence and its pin
\* table.  refused is a document that is not made.
CompileSymbol(identity, table, evidence) ==
    LET spec == ExtractSymbolSpec(identity, table, evidence)
    IN  IF spec.pins = <<>> THEN [refused |-> TRUE]
        ELSE [refused |-> FALSE, identity |-> identity, spec |-> spec,
              pins |-> LayoutPins(spec.pins), citations |-> evidence.regions]
=============================================================================
