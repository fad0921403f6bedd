------------------------------ MODULE MCEditFan ------------------------------
(* Two members of one editor session, a world of one square a board.       *)
EXTENDS EditFan

CONSTANTS c1, c2, sq

Two == {c1, c2}
OneSquare == {sq}
=============================================================================
