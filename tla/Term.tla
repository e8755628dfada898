-------------------------------- MODULE Term --------------------------------
(***************************************************************************)
(* What the terminal does with a character, an escape sequence or a        *)
(* control sequence once it is complete: flanterm_putchar, escape_parse    *)
(* and control_sequence_parse of kernel/src/flanterm.c, on a Screen.       *)
(*                                                                         *)
(* A control sequence keeps the text from scrolling while it runs.  It     *)
(* reads the cursor with get_cursor_pos, which takes a cursor right of the *)
(* last column for one on the last column.                                 *)
(***************************************************************************)
EXTENDS Screen

CONSTANTS
    Text, Colour,   \* what is on the screen at first, and its colour, which stays
    Typed,          \* the characters that are typed
    tab_size,
    MAX_VALUE,      \* bound on the numbers in a control sequence
    MAX_STEPS       \* bound on the number of steps

ASSUME TermNumbers ==
    /\ ScreenNumbers /\ tab_size \in Nat \ {0} /\ {MAX_VALUE, MAX_STEPS} \subseteq Nat
    /\ Text \in [Cells -> Chars] /\ Typed \subseteq Chars

VARIABLES
    screen,         \* the screen, with the margins and scroll_enabled
    saved_cursor,
    inserts,        \* insert_mode
    steps

termvars == <<screen, saved_cursor, inserts, steps>>

-----------------------------------------------------------------------------
X == get_x(screen)
Y == get_y(screen)

(* The loops: over raw_putchar(' '), scroll and revscroll; and over        *)
(* move_character, of n characters of the cursor's row from the first one  *)
(* on, in the direction of the loop, each by that many columns.            *)
Blanks(n, s) ==
    LET after[k \in 0 .. n] == IF k = 0 THEN s ELSE raw_putchar(after[k - 1], Space)
    IN  after[n]
Scrolls(n, s) ==
    LET after[k \in 0 .. n] == IF k = 0 THEN s ELSE scroll(after[k - 1])
    IN  after[n]
Revscrolls(n, s) ==
    LET after[k \in 0 .. n] == IF k = 0 THEN s ELSE revscroll(after[k - 1])
    IN  after[n]
Shifts(n, s, first, dir, by) ==
    LET after[k \in 0 .. n] ==
            IF k = 0 THEN s
            ELSE LET i == first + dir * (k - 1)
                 IN  move_character(after[k - 1], i + by, Y, i, Y)
    IN  after[n]

(* The screen during a control sequence. *)
Still == [screen EXCEPT !.scroll_enabled = FALSE]

Do(s) ==
    /\ steps < MAX_STEPS /\ steps' = steps + 1
    /\ screen' = [s EXCEPT !.scroll_enabled = screen.scroll_enabled]

Sequence(s) == Do(s) /\ UNCHANGED <<saved_cursor, inserts>>

(* Where a cursor can be: on the screen or right of its last column, and,  *)
(* where text has gone on below a scrolling region, on rows below the      *)
(* screen, down to the one that raw_putchar takes for the last.            *)
Places == {p \in [x : 0 .. cols, y : 0 .. rows + cols] :
              p.y < rows \/ (p.y < cols /\ p.x >= 1)}

(* A screen in use: text, a scrolling region, and a cursor anywhere, which *)
(* has been saved or not.                                                  *)
TermInit ==
    /\ \E at \in Places, top \in 0 .. rows - 1, bottom \in 1 .. rows :
           /\ <<top, bottom>> = <<0, rows>> \/ top + 2 <= bottom
           /\ \E was \in {at, [x |-> 0, y |-> 0]} :
               /\ at.y < rows \/ bottom < rows \/ was = at
               /\ screen = [cells |-> [i \in Cells |-> [c |-> Text[i], fg |-> Colour, bg |-> Colour]],
                            x |-> at.x, y |-> at.y, fg |-> Colour, bg |-> Colour,
                            saved |-> [x |-> was.x, y |-> was.y, fg |-> Colour, bg |-> Colour],
                            top |-> top, bottom |-> bottom, scroll_enabled |-> TRUE]
    /\ saved_cursor = [x |-> 0, y |-> 0] /\ inserts = FALSE /\ steps = 0

-----------------------------------------------------------------------------
(* Cursor movement: 'A' and 'F', then 'B', 'e' and 'E'.  The cursor stops  *)
(* at a margin that it would cross.                                        *)
Up(y, n) ==
    LET dest == IF n > y THEN 0 ELSE y - n
        meets == screen.top \in dest .. y \/ screen.bottom \in dest .. y
    IN  IF meets /\ dest < screen.top THEN screen.top ELSE dest

Down(y, n) ==
    LET dest == IF y + n > rows - 1 THEN rows - 1 ELSE y + n
        meets == screen.top \in y .. dest \/ screen.bottom \in y .. dest
    IN  IF meets /\ dest >= screen.bottom THEN screen.bottom - 1 ELSE dest

CursorUp(n, x) == Sequence(set_cursor_pos(screen, x, Up(Y, n)))
CursorDown(n, x) == Sequence(set_cursor_pos(screen, x, Down(Y, n)))

(* 'C' and 'a', 'D', 'd', 'G', 'H' and 'f'.  A row or a column 0 becomes   *)
(* the greatest number, except in 'H'.                                     *)
CursorForward(n) == Sequence(set_cursor_pos(screen, X + n, Y))
CursorBack(n) == Sequence(set_cursor_pos(screen, X - n, Y))
CursorRow(n) == Sequence(set_cursor_pos(screen, X, IF n = 0 THEN rows - 1 ELSE n - 1))
CursorColumn(n) == Sequence(set_cursor_pos(screen, IF n = 0 THEN cols - 1 ELSE n - 1, Y))
CursorPosition(n, m) ==
    Sequence(set_cursor_pos(screen, IF m = 0 THEN 0 ELSE m - 1, IF n = 0 THEN 0 ELSE n - 1))

(* 'M' scrolls the whole region; 'L' only the part from the cursor on. *)
DeleteLines(n) == Sequence(Scrolls(n, Still))

InsertLines(n) ==
    Sequence([Revscrolls(n, [Still EXCEPT !.top = Y]) EXCEPT !.top = screen.top])

(* 'J': blanks to the end of the screen, or from its start, or clear. *)
EraseDisplay(n) ==
    Sequence(
        CASE n = 0 -> set_cursor_pos(Blanks((rows - Y - 1) * cols + cols - X, Still), X, Y)
          [] n = 1 -> set_cursor_pos(Blanks(Y * cols + X + 1, set_cursor_pos(Still, 0, 0)), X, Y)
          [] n \in {2, 3} -> clear(Still, FALSE)
          [] OTHER -> screen)

(* A loop that ends one column early. *)
EraseLine_short(n) ==
    Sequence(
        CASE n = 0 -> set_cursor_pos(Blanks(cols - X - 1, Still), X, Y)
          [] n = 1 -> Blanks(X, set_cursor_pos(Still, 0, Y))
          [] n = 2 -> set_cursor_pos(Blanks(cols, set_cursor_pos(Still, 0, Y)), X, Y)
          [] OTHER -> screen)

(* 'K'.  The column of the cursor stays in the second case. *)
EraseLine(n) ==
    Sequence(
        CASE n = 0 -> set_cursor_pos(Blanks(cols - X, Still), X, Y)
          [] n = 1 -> Blanks(X, set_cursor_pos(Still, 0, Y))
          [] n = 2 -> set_cursor_pos(Blanks(cols, set_cursor_pos(Still, 0, Y)), X, Y)
          [] OTHER -> screen)

(* '@' moves and blanks each character from the last one to the cursor's. *)
Opened(n) ==
    LET after[k \in 0 .. cols - X] ==
            IF k = 0 THEN Still
            ELSE LET i == cols - k
                     moved == move_character(after[k - 1], i + n, Y, i, Y)
                 IN  raw_putchar(set_cursor_pos(moved, i, Y), Space)
    IN  after[cols - X]

InsertBlanks(n) == Sequence(set_cursor_pos(Opened(n), X, Y))

(* 'X', and 'P', which blanks the last n columns after it has moved the    *)
(* others.                                                                 *)
EraseChars(n) == Sequence(set_cursor_pos(Blanks(n, Still), X, Y))

DeleteChars(n) ==
    LET rest == IF X + n < cols THEN cols - X - n ELSE 0
        moved == Shifts(rest, Still, X + n, 1, -n)
    IN  Sequence(set_cursor_pos(Blanks(n, set_cursor_pos(moved, cols - n, Y)), X, Y))

(* 's' and 'u'. *)
SaveCursor ==
    Do(screen) /\ saved_cursor' = [x |-> X, y |-> Y] /\ UNCHANGED inserts
RestoreCursor == Sequence(set_cursor_pos(screen, saved_cursor.x, saved_cursor.y))

(* The margins from the values, 0 taken for 1; all rows if they are wrong. *)
Region(n, m) ==
    IF n - 1 >= rows \/ m > rows \/ n - 1 >= m - 1 THEN [top |-> 0, bottom |-> rows]
    ELSE [top |-> n - 1, bottom |-> m]

(* 'r' with two values; the second one may be missing. *)
ScrollRegion(n, m) ==
    LET first(v) == IF v = 0 THEN 1 ELSE v
        region == Region(first(n), first(m))
    IN  Sequence(set_cursor_pos([screen EXCEPT !.top = region.top, !.bottom = region.bottom], 0, 0))

(* mode_toggle: 'h' and 'l' with 4. *)
SetInsertMode(set) == Do(screen) /\ inserts' = set /\ UNCHANGED saved_cursor

-----------------------------------------------------------------------------
(* Escape sequences 'D', 'E' and 'M', and the line feed, which goes to     *)
(* column 0 since ONLCR is set.                                            *)
LineFeed(x) ==
    Sequence(IF Y = screen.bottom - 1 THEN set_cursor_pos(scroll(screen), x, Y)
                      ELSE set_cursor_pos(screen, x, Y + 1))
ReverseIndex ==
    Sequence(IF Y = screen.top THEN set_cursor_pos(revscroll(screen), 0, Y)
                      ELSE set_cursor_pos(screen, 0, Y - 1))

(* ESC 7 and ESC 8, which save and restore the cursor as it is, outside    *)
(* the screen too and whatever the region is by then.                      *)
SaveScreen == Sequence(save_state(screen))
RestoreScreen == Sequence(restore_state(screen))

(* ESC c: reinit, and a clear screen.  The saved state stays. *)
Reset ==
    /\ Do(clear([screen EXCEPT !.top = 0, !.bottom = rows, !.scroll_enabled = TRUE], TRUE))
    /\ saved_cursor' = [x |-> 0, y |-> 0] /\ inserts' = FALSE

(* Tabulator, backspace and carriage return. *)
Tab ==
    Sequence(set_cursor_pos(screen,
        IF X \div tab_size + 1 >= cols THEN cols - 1 ELSE (X \div tab_size + 1) * tab_size, Y))
Backspace == Sequence(set_cursor_pos(screen, X - 1, Y))
CarriageReturn == Sequence(set_cursor_pos(screen, 0, Y))

(* In insert mode a byte that is no control character moves the rest of    *)
(* the row first, whether it can be printed or not.                        *)
Room == IF inserts THEN Shifts(cols - X, screen, cols - 1, -1, 1) ELSE screen

PrintChar(c) == Sequence(raw_putchar(Room, c))
Unprintable == Sequence(Room)

(* A character of UTF-8 moves nothing: its glyph, or a square and a blank  *)
(* for each further column that it takes, or nothing if it takes none.     *)
PrintUnicode(c, width) ==
    Sequence(IF width = 0 THEN screen ELSE Blanks(width - 1, raw_putchar(screen, c)))

Values == 0 .. MAX_VALUE

TermNext ==
    \/ \E n \in Values, x \in {0, X} : CursorUp(n, x) \/ CursorDown(n, x)
    \/ \E n \in Values : CursorForward(n) \/ CursorBack(n) \/ CursorRow(n) \/ CursorColumn(n)
    \/ \E n, m \in Values : CursorPosition(n, m)
    \/ \E n \in Values : DeleteLines(n) \/ InsertLines(n)
    \/ \E n \in Values : EraseDisplay(n) \/ EraseLine(n) \/ EraseChars(n)
    \/ \E n \in Values : InsertBlanks(n) \/ DeleteChars(n)
    \/ SaveCursor \/ RestoreCursor
    \/ \E n, m \in Values : ScrollRegion(n, m)
    \/ \E set \in BOOLEAN : SetInsertMode(set)
    \/ LineFeed(0) \/ LineFeed(X) \/ ReverseIndex
    \/ SaveScreen \/ RestoreScreen \/ Reset
    \/ Tab \/ Backspace \/ CarriageReturn
    \/ \E c \in Typed : PrintChar(c)
    \/ Unprintable
    \/ \E c \in Typed, width \in 0 .. 2 : PrintUnicode(c, width)

TermSpec == TermInit /\ [][TermNext]_termvars

-----------------------------------------------------------------------------
(* Types; the cursor, and the saved one, are on the screen or right of its *)
(* last column, or on a row below the screen, as raw_putchar caps the row  *)
(* with the number of columns.                                             *)
TermTypeOK ==
    /\ \A i \in Cells : screen.cells[i].c \in Chars
    /\ \A p \in {screen, screen.saved} :
           p.x \in 0 .. cols /\ p.y \in Nat /\ (p.y < rows \/ p.y < cols)
    /\ saved_cursor \in [x : 0 .. cols - 1, y : 0 .. rows - 1] /\ inserts \in BOOLEAN

(* The scrolling region always has two rows or is the whole screen.        *)
MarginsValid ==
    \/ screen.top = 0 /\ screen.bottom = rows
    \/ screen.top >= 0 /\ screen.top + 2 <= screen.bottom /\ screen.bottom <= rows

(* The cells of a set become blank, and the cursor is where it was.        *)
Blank(set) ==
    /\ screen'.cells = [i \in Cells |-> IF i \in set THEN Styled(screen, Space) ELSE screen.cells[i]]
    /\ screen'.x = screen.x /\ screen'.y = screen.y

(* 'K', 'J' and 'X' blank exactly the cells they name and leave the cursor *)
(* where it is, if it is not right of the last column, if the region is    *)
(* the whole screen ('J'), and if the characters are on the row ('X').     *)
(* Whether K 1 takes the cursor's own cell too is left open: J 1 does, and *)
(* so does the manual page that flanterm.c names in its first lines, but   *)
(* the loop of K 1 ends before it.                                         *)
EraseExact ==
    LET here == At(screen.x, screen.y)
        row == {i \in Cells : i \div cols = screen.y}
    IN  screen.x < cols /\ screen.y < rows =>
           /\ EraseLine(0) => Blank({i \in row : i >= here})
           /\ EraseLine(1) => Blank({i \in row : i < here}) \/ Blank({i \in row : i <= here})
           /\ EraseLine(2) => Blank(row)
           /\ screen.bottom = rows /\ cols >= rows =>
                  /\ EraseDisplay(0) => Blank({i \in Cells : i >= here})
                  /\ EraseDisplay(1) => Blank({i \in Cells : i <= here})
           /\ \A n \in 0 .. cols - screen.x :
                  EraseChars(n) => Blank(here .. here + n - 1)

(* '@' and 'P' shift exactly the rest of the cursor's row, by the number   *)
(* given, and blank what becomes free; for 'P' the number must not go      *)
(* beyond the row, and 0 is no number for '@'.  In insert mode a character *)
(* shifts it by one column and takes the cursor's cell; a byte that cannot *)
(* be printed leaves there what it was.                                    *)
ShiftExact ==
    LET here == At(X, screen.y)
        end == At(cols, screen.y)
        becomes(f(_)) ==
            screen'.cells = [i \in Cells |-> IF i \in here .. end - 1 THEN f(i) ELSE screen.cells[i]]
    IN  screen.y < rows =>
           /\ \A n \in Values \ {0} : InsertBlanks(n) =>
                  becomes(LAMBDA i : IF i < here + n THEN Styled(screen, Space)
                                     ELSE screen.cells[i - n])
           /\ \A n \in 0 .. end - here : DeleteChars(n) =>
                  becomes(LAMBDA i : IF i + n < end THEN screen.cells[i + n]
                                     ELSE Styled(screen, Space))
           /\ inserts /\ screen.x < cols =>
                  /\ \A c \in Chars : PrintChar(c) =>
                         becomes(LAMBDA i : IF i = here THEN Styled(screen, c)
                                            ELSE screen.cells[i - 1])
                  /\ Unprintable =>
                         becomes(LAMBDA i : screen.cells[IF i = here THEN i ELSE i - 1])

Feeds == LineFeed(0) \/ LineFeed(X) \/ ReverseIndex
Moves == \E n \in Values, x \in {0, X} : CursorUp(n, x) \/ CursorDown(n, x)
Types == \E c \in Chars : PrintChar(c) \/ \E width \in 0 .. 2 : PrintUnicode(c, width)

(* A cursor inside the scrolling region leaves it neither by its relative  *)
(* movements nor by text and line feeds, and what scrolls is inside the    *)
(* region: rows above and below it stay as they are.                       *)
RegionHolds ==
    LET region == screen.top .. screen.bottom - 1
    IN  /\ (Feeds \/ Moves \/ Types) /\ screen.y \in region /\ cols >= rows => screen'.y \in region
        /\ Feeds \/ (\E n \in Values : DeleteLines(n)) =>
               \A i \in Cells : i \div cols \notin region => screen'.cells[i] = screen.cells[i]

(* A cursor leaves the rows of the screen only where text goes on below a  *)
(* region that ends above the last row, or when ESC 8 takes it back there. *)
LeavesScreen ==
    screen.y < rows /\ screen'.y >= rows => screen.bottom < rows \/ RestoreScreen

(* All of it: a control sequence erases and shifts exactly the cells that  *)
(* it names, keeps the cursor and what scrolls inside the scrolling region *)
(* and the region in order.                                                *)
SequencesExact ==
    /\ [](TermTypeOK /\ MarginsValid)
    /\ [][EraseExact /\ ShiftExact /\ RegionHolds /\ LeavesScreen]_termvars
=============================================================================
