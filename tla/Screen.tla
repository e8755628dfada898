------------------------------- MODULE Screen -------------------------------
(***************************************************************************)
(* What the back end of the terminal promises to kernel/src/flanterm.c:    *)
(* the functions that struct flanterm_context points to, on a screen of    *)
(* cells with a cursor.  Each is an operator from screens to screens.  A   *)
(* screen also holds what the back end reads of the context: the margins   *)
(* of the scrolling region and whether the text may scroll.                *)
(***************************************************************************)
EXTENDS Integers

CONSTANTS rows, cols, Chars, Space

ScreenNumbers == {rows, cols} \subseteq Nat \ {0} /\ Space \in Chars

Cells == 0 .. rows * cols - 1
At(x, y) == y * cols + x

(* A character with its colours, as raw_putchar writes it. *)
Styled(s, c) == [c |-> c, fg |-> s.fg, bg |-> s.bg]

(* A write outside the screen is dropped. *)
Put(s, ch, x, y) ==
    IF x < cols /\ y < rows THEN [s EXCEPT !.cells[At(x, y)] = ch] ELSE s

set_cursor_pos(s, x, y) ==
    LET cut(v, n) == IF v < 0 THEN 0 ELSE IF v >= n THEN n - 1 ELSE v
    IN  [s EXCEPT !.x = cut(x, cols), !.y = cut(y, rows)]

get_x(s) == IF s.x >= cols THEN cols - 1 ELSE s.x
get_y(s) == IF s.y >= rows THEN rows - 1 ELSE s.y

(* The rows of the region from top move; the row that becomes free is      *)
(* cleared, even one that lies below the region.                           *)
scroll(s) ==
    [s EXCEPT !.cells = [i \in Cells |->
        IF i \div cols = s.bottom - 1 THEN Styled(s, Space)
        ELSE IF i \div cols \in s.top .. s.bottom - 2 THEN @[i + cols] ELSE @[i]]]

revscroll(s) ==
    [s EXCEPT !.cells = [i \in Cells |->
        IF i \div cols = s.top THEN Styled(s, Space)
        ELSE IF i \div cols \in s.top + 1 .. s.bottom - 1 THEN @[i - cols] ELSE @[i]]]

clear(s, move) ==
    [s EXCEPT !.cells = [i \in Cells |-> Styled(s, Space)],
              !.x = IF move THEN 0 ELSE @, !.y = IF move THEN 0 ELSE @]

move_character(s, new_x, new_y, old_x, old_y) ==
    IF old_x < cols /\ old_y < rows /\ new_x < cols /\ new_y < rows
    THEN Put(s, s.cells[At(old_x, old_y)], new_x, new_y) ELSE s

(* The cursor may stand right of the last column.  A character then goes   *)
(* to the next row, unless this is the last of the region and the text     *)
(* must not scroll.                                                        *)
NextRow(s) ==
    IF s.x >= cols /\ (s.y < s.bottom - 1 \/ s.scroll_enabled)
    THEN LET down == [s EXCEPT !.x = 0, !.y = @ + 1]
         IN  IF down.y = s.bottom THEN scroll([down EXCEPT !.y = @ - 1]) ELSE down
    ELSE s

(* The last row is found with the number of columns. *)
LastRow(s) == IF s.x = 0 /\ s.y >= cols THEN [s EXCEPT !.y = cols - 1] ELSE s

raw_putchar(s, c) ==
    LET n == IF NextRow(s) # s THEN LastRow(NextRow(s)) ELSE s
    IN  [Put(n, Styled(n, c), n.x, n.y) EXCEPT !.x = n.x + 1]

swap_palette(s) == [s EXCEPT !.fg = s.bg, !.bg = s.fg]
save_state(s) == [s EXCEPT !.saved = [x |-> s.x, y |-> s.y, fg |-> s.fg, bg |-> s.bg]]
restore_state(s) ==
    [s EXCEPT !.x = s.saved.x, !.y = s.saved.y, !.fg = s.saved.fg, !.bg = s.saved.bg]
=============================================================================
