-------------------------------- MODULE MCTui --------------------------------
(***************************************************************************)
(* Three collections, filters of one letter (which keep two or none of     *)
(* them), a list that shows one or two lines.  One table is wider than the *)
(* panel, and much wider when its cells are not cut.                       *)
(***************************************************************************)
EXTENDS Tui

MCLetters == {"a", "b", "c"}
MCNames   == << <<"a">>, <<"a", "b">>, <<"b">> >>
MCHeights == {1, 2}
MCWidths == {60, 200}
MCTableWidth == << [w \in BOOLEAN |-> IF w THEN 260 ELSE 90],
                   [w \in BOOLEAN |-> 10], [w \in BOOLEAN |-> 10] >>
=============================================================================
