------------------------------ MODULE Console -------------------------------
(***************************************************************************)
(* The kernel's console: kernel/src/drivers/graphics/framebuffer.c, and    *)
(* ssfn_putc of ssfn.h, which draws a glyph of the font and advances.      *)
(*                                                                         *)
(* The frame buffer is an array of pixels, row after row.  A pixel of ink  *)
(* bears the name of its glyph, so that a picture can be read back.  The   *)
(* font advances by more than glyph_width: unifont's glyphs are 8 or 16    *)
(* pixels wide and advance by 9 or 17.                                     *)
(***************************************************************************)
EXTENDS Integers, FiniteSets

CONSTANTS
    framebuffer_width, framebuffer_height,
    PITCH,          \* gtx_buffer.pitch / sizeof(int)
    glyph_width, glyph_height,
    ADVANCE,        \* what ssfn_putc adds to x for a narrow glyph
    TOP,            \* the rows of a glyph above its fragment
    Narrow, WideGlyphs,   \* the glyphs of the font; a wide one is twice as wide
    ControlChars,       \* the other characters printed: some of "nl", "tab", "bs", "nul", "missing"
    Bg

SpaceGlyph == Bg         \* the glyph of ' ' has no ink
Glyphs == Narrow \cup WideGlyphs

(* The screen has room for a glyph and for two lines. *)
ASSUME ConsoleNumbers ==
    /\ {framebuffer_width, framebuffer_height, PITCH, glyph_width, glyph_height, ADVANCE, TOP}
           \subseteq Nat
    /\ glyph_width \in 1 .. framebuffer_width /\ framebuffer_width <= PITCH
    /\ glyph_height >= 1 /\ 2 * glyph_height <= framebuffer_height /\ TOP < glyph_height
    /\ ADVANCE > glyph_width
    /\ ControlChars \subseteq {"nl", "tab", "bs", "nul", "missing"}
    /\ Bg \notin Glyphs

VARIABLES
    framebuffer,    \* the pixels
    x, y,           \* ssfn_dst.x, ssfn_dst.y
    spaces,         \* iterations left of the loop that prints a tab
    outside,          \* addresses outside the frame buffer that were written
    above           \* lines that backspaces have taken the cursor up

console == <<framebuffer, x, y, spaces, outside, above>>

Addresses == 0 .. PITCH * framebuffer_height - 1
now == [framebuffer |-> framebuffer, x |-> x, y |-> y, outside |-> outside, above |-> above]

-----------------------------------------------------------------------------
GlyphWidth(g) == IF g \in WideGlyphs THEN 2 * glyph_width ELSE glyph_width
Advance(g) == IF g \in WideGlyphs THEN ADVANCE + glyph_width ELSE ADVANCE

(* A glyph is background above its fragment; a space has no fragment. *)
Ink(g, r) == g # SpaceGlyph /\ r >= TOP

(* The places of glyph g that are drawn: columns are cut off at the right, *)
(* and at the left only in the rows of the fragment; the background above  *)
(* it, and all of a space, is filled without looking at the left edge.     *)
Drawn(s, g) ==
    {p \in (0 .. glyph_height - 1) \X (0 .. GlyphWidth(g) - 1) :
        /\ s.y + p[1] < framebuffer_height
        /\ s.x + p[2] < framebuffer_width
        /\ Ink(g, p[1]) => s.x + p[2] >= 0}

ssfn_putc(s, g) ==
    LET addr(p) == (s.y + p[1]) * PITCH + s.x + p[2]
        pixels == {addr(p) : p \in Drawn(s, g)}
        inked == {addr(p) : p \in {q \in Drawn(s, g) : Ink(g, q[1])}}
    IN  [s EXCEPT
            !.framebuffer = [a \in Addresses |->
                IF a \in inked THEN g ELSE IF a \in pixels THEN Bg ELSE @[a]],
            !.outside = @ \cup (pixels \ Addresses),
            !.x = @ + Advance(g)]

term_line_shift_up(fb) ==
    [a \in Addresses |->
        LET i == a \div PITCH
        IN  IF a % PITCH >= framebuffer_width THEN fb[a]
            ELSE IF i + glyph_height < framebuffer_height THEN fb[a + glyph_height * PITCH]
            ELSE IF i >= glyph_height THEN Bg ELSE fb[a]]

(* A comparison in the width of uint64_t: negative numbers are large. *)
Exceeds(n, bound) == n < 0 \/ n > bound

LineFeed(s) ==
    [s EXCEPT !.x = 0, !.y = @ + glyph_height, !.above = IF @ = 0 THEN 0 ELSE @ - 1]

(* A wrap that tests where the glyph starts, not where it ends. *)
Wrapped_late(s) == IF Exceeds(s.x, framebuffer_width - 1) THEN LineFeed(s) ELSE s

Wrapped(s) == IF Exceeds(s.x + glyph_width, framebuffer_width) THEN LineFeed(s) ELSE s

(* term_print_char before it looks at the character. *)
Settled(s) ==
    LET w == Wrapped(s)
    IN  IF Exceeds(w.y, framebuffer_height - 1)
        THEN [w EXCEPT !.x = 0, !.y = framebuffer_height - glyph_height,
                       !.framebuffer = term_line_shift_up(@)]
        ELSE w

Left(s) == [s EXCEPT !.x = @ - glyph_width]

(* A backspace whose step left is as long as the font's advance. *)
Backspaced_back(s) ==
    IF s.x # 0 THEN Left(ssfn_putc(Left(s), SpaceGlyph))
    ELSE IF s.y = 0 THEN s
    ELSE LET end == [s EXCEPT !.x = framebuffer_width - glyph_width, !.y = @ - glyph_height,
                              !.above = @ + 1]
         IN  [ssfn_putc(end, SpaceGlyph) EXCEPT !.x = @ - ADVANCE]

Backspaced(s) ==
    IF s.x # 0 THEN Left(ssfn_putc(Left(s), SpaceGlyph))
    ELSE IF s.y = 0 THEN s
    ELSE LET end == [s EXCEPT !.x = framebuffer_width - glyph_width, !.y = @ - glyph_height,
                              !.above = @ + 1]
         IN  Left(ssfn_putc(end, SpaceGlyph))

-----------------------------------------------------------------------------
(* framebuffer_init, up to the welcome text. *)
ConsoleInit ==
    /\ framebuffer = [a \in Addresses |-> Bg]
    /\ x = 0 /\ y = 0 /\ spaces = 0 /\ outside = {} /\ above = 0

Becomes(s) ==
    /\ framebuffer' = s.framebuffer /\ x' = s.x /\ y' = s.y
    /\ outside' = s.outside /\ above' = s.above

(* term_print_char, by character.  kprint holds a lock, so that the loop   *)
(* of a tab is not disturbed.                                              *)
PrintGlyph(g) == spaces = 0 /\ Becomes(ssfn_putc(Settled(now), g)) /\ UNCHANGED spaces

(* '\0', and a character the font has no glyph for. *)
PrintNothing ==
    /\ spaces = 0 /\ ControlChars \cap {"nul", "missing"} # {}
    /\ Becomes(Settled(now)) /\ UNCHANGED spaces

PrintNewline ==
    /\ spaces = 0 /\ "nl" \in ControlChars
    /\ Becomes(LineFeed(Settled(now))) /\ UNCHANGED spaces

PrintTab ==
    /\ spaces = 0 /\ "tab" \in ControlChars
    /\ Becomes(Settled(now)) /\ spaces' = 4

PrintTabSpace ==
    /\ spaces > 0
    /\ Becomes(ssfn_putc(Settled(now), SpaceGlyph)) /\ spaces' = spaces - 1

PrintBackspace ==
    /\ spaces = 0 /\ "bs" \in ControlChars
    /\ Becomes(Backspaced(Settled(now))) /\ UNCHANGED spaces

ConsoleNext ==
    \/ \E g \in Glyphs \cup {SpaceGlyph} : PrintGlyph(g)
    \/ PrintNothing \/ PrintNewline \/ PrintTab \/ PrintTabSpace \/ PrintBackspace

ConsoleSpec == ConsoleInit /\ [][ConsoleNext]_console

-----------------------------------------------------------------------------
(* The page as it can be read off the frame buffer. *)
Pixel(i, j) == framebuffer[i * PITCH + j]
Read(r, c) ==
    IF \E g \in Narrow \cup {SpaceGlyph} :
           \A i \in 0 .. glyph_height - 1, j \in 0 .. glyph_width - 1 :
               Pixel(r * glyph_height + i, c * ADVANCE + j) = IF Ink(g, i) THEN g ELSE Bg
    THEN Pixel(r * glyph_height + TOP, c * ADVANCE)
    ELSE "garbled"

COLS == (framebuffer_width - glyph_width) \div ADVANCE + 1
ROWS == framebuffer_height \div glyph_height

P == INSTANCE Page WITH
        Glyphs <- Narrow, Space <- SpaceGlyph,
        cells <- [r \in 0 .. ROWS - 1 |-> [c \in 0 .. COLS - 1 |-> Read(r, c)]],
        row <- y \div glyph_height, col <- x \div ADVANCE

(* Types of framebuffer.c: between two characters the cursor is less than  *)
(* a line below the screen and not above it, and x, which a backspace may  *)
(* make negative, stays within two glyphs of the screen.                   *)
ConsoleTypeOK ==
    /\ framebuffer \in [Addresses -> Glyphs \cup {Bg}]
    /\ x \in 1 - 2 * glyph_width .. framebuffer_width + ADVANCE + glyph_width
    /\ y \in 0 .. framebuffer_height + glyph_height - 1
    /\ spaces \in 0 .. 4

(* What Page asks of the console: no wide glyphs and no backspaces, and a  *)
(* frame buffer of whole lines.                                            *)
WholeLines ==
    WideGlyphs = {} /\ "bs" \notin ControlChars /\ framebuffer_height % glyph_height = 0

(* term_print_char: without backspaces and wide glyphs, on a frame buffer  *)
(* whose height is a number of lines, every character does to the page     *)
(* what Page says, so that the screen shows the last lines of the text,    *)
(* each whole and in its place.                                            *)
ImplementsPage == [P!Next]_(P!page)

(* ssfn_putc writes only pixels of the frame buffer, but for those that    *)
(* backspaces in the first line may clear just before its first pixel,     *)
(* when x is negative: whole glyphs are never off the screen, although the *)
(* last line may be cut.                                                   *)
StrayOnlyBefore == outside \subseteq -(2 * glyph_width) .. -1

(* Backspaces never get further back than the last place of the line       *)
(* above, however many there are: glyphs advance by more than glyph_width, *)
(* so that the cursor is then too far right for another glyph, and the     *)
(* next character wraps again.                                             *)
BackspaceNear ==
    /\ above <= 1
    /\ above = 1 => x = framebuffer_width - 2 * glyph_width + ADVANCE

(* framebuffer.c: ssfn_putc writes only pixels of the frame buffer and a   *)
(* few just before it, and however many backspaces there are, they stop at *)
(* the last place of the line above.                                       *)
CursorNear == ConsoleTypeOK /\ StrayOnlyBefore /\ BackspaceNear
=============================================================================
