-------------------------------- MODULE Page --------------------------------
(***************************************************************************)
(* What the console promises, in cells: text fills the page from left to   *)
(* right and from top to bottom, and the page moves up by a row when the   *)
(* text goes on below its last one.  Both moves wait until the next        *)
(* character: the cursor may stand right of the last column and below the  *)
(* last row.                                                               *)
(***************************************************************************)
EXTENDS Naturals

CONSTANTS ROWS, COLS, Glyphs, Space

VARIABLES cells, row, col

page == <<cells, row, col>>

Blank == [c \in 0 .. COLS - 1 |-> Space]

Init ==
    /\ cells = [r \in 0 .. ROWS - 1 |-> Blank]
    /\ row = 0 /\ col = 0

(* The cursor and the cells when the next character comes. *)
Wraps == col = COLS
HomeRow == IF Wraps THEN row + 1 ELSE row
Scrolls == HomeRow = ROWS
SettledRow == IF Scrolls THEN ROWS - 1 ELSE HomeRow
SettledCol == IF Wraps \/ Scrolls THEN 0 ELSE col
Settled ==
    IF Scrolls THEN [r \in 0 .. ROWS - 1 |-> IF r + 1 < ROWS THEN cells[r + 1] ELSE Blank]
               ELSE cells

Type(g) ==
    /\ cells' = [Settled EXCEPT ![SettledRow][SettledCol] = g]
    /\ row' = SettledRow /\ col' = SettledCol + 1

Newline == cells' = Settled /\ row' = SettledRow + 1 /\ col' = 0

(* A character that has no glyph. *)
Nothing == cells' = Settled /\ row' = SettledRow /\ col' = SettledCol

Next == (\E g \in Glyphs \cup {Space} : Type(g)) \/ Newline \/ Nothing

Spec == Init /\ [][Next]_page
=============================================================================
