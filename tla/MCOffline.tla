------------------------------ MODULE MCOffline ------------------------------
(***************************************************************************)
(* The data of an instance of OfflineWork for TLC.                         *)
(***************************************************************************)
EXTENDS OfflineWork

\* One document can only be told from evaluation material by its digest or its URL as
\* requested; the other also by its family and its final URL.
MCFacets == [d \in Documents |-> IF d \in HeldOut THEN {"hash", "source"}
                                                  ELSE {"family", "hash", "url"}]
MCBatches == <<HeldOut, Documents \ HeldOut>>

\* Two plans that share a family; three answers, of which two bring the same bytes and
\* two come from the same URL.
MCFamilies == [p |-> <<"f1", "f2">>, q |-> <<"f2", "f3">>]
MCAnswers == {[content |-> 1, url |-> 1], [content |-> 2, url |-> 2], [content |-> 1, url |-> 2]}

\* Evidence of one part, revised, of the other part it turned out to be, and of the maker
\* it turned out to be from.
Region(id, type) == [id |-> id, type |-> type, accepted |-> TRUE, ordered |-> TRUE]
Bundle(maker, mpn, content) ==
    [fits |-> TRUE, identity |-> [manufacturer |-> maker, mpn |-> mpn, package |-> "SO8"],
     datasheet |-> content, content |-> content,
     regions |-> {Region("r_pinout_01", "pinout"), Region("r_pin_table_01", "table"),
                  Region("r_package_01", "package")},
     proof |-> [accepted |-> TRUE, observed |-> {"manufacturer", "mpn", "package"},
                regions |-> {"r_package_01"}]]
MCEvidence == {Bundle("Acme", "A1", 1), Bundle("Acme", "A1", 2), Bundle("Acme", "A2", 2),
               Bundle("Apex", "A1", 2)}
MCReadings == {{1, 2}, {1, 2, 3}}
=============================================================================
