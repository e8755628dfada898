----------------------------- MODULE MCScreens ------------------------------
(***************************************************************************)
(* The kernel's console and the parts of the terminal, side by side.  They *)
(* share no variable (the terminal's parts meet in the operators of        *)
(* Screen).  So the run looks at them one at a time: part says which of    *)
(* them moves, and the others stay in an initial state.                    *)
(***************************************************************************)
EXTENDS Width, Console, FbInit, Parser, FbTerm, Sgr

VARIABLES
    part,
    page_framebuffer, page_x, page_y, page_spaces, page_outside, page_above

page == <<page_framebuffer, page_x, page_y, page_spaces, page_outside, page_above>>
MCvars == <<part, page, console, fbvars, fbinit, sgrvars, parser, vars>>

-----------------------------------------------------------------------------
(* The console: with backspaces and wide glyphs, on a screen whose last    *)
(* line is cut, as the configuration says; and without them, on whole      *)
(* lines.                                                                  *)
C == INSTANCE Console WITH
        framebuffer <- page_framebuffer, x <- page_x, y <- page_y, spaces <- page_spaces,
        outside <- page_outside, above <- page_above,
        framebuffer_width <- 10, framebuffer_height <- 4, PITCH <- 11,
        glyph_width <- 2, glyph_height <- 2, ADVANCE <- 3, TOP <- 1,
        Narrow <- {"a", "b"}, WideGlyphs <- {}, ControlChars <- {"nl", "tab", "nul"}, Bg <- "bg"

(* The back end, as the configuration says, has three rows and two         *)
(* columns.  The space sets no pixel and the letter one of two.            *)
MCFont == [c \in {"space", "letter"} |-> IF c = "space" THEN {} ELSE {1}]

(* Its memory: a pool with room for two terminals and part of a third one; *)
(* and canvases that the pool's check refuses, that it takes for small     *)
(* because its sum wraps around, and whose size has done so already.       *)
MCSizes ==
    LET plain == [k \in Kinds |-> IF k \in {"ctx", "map"} THEN 1 ELSE 2]
    IN  {plain} \cup {[plain EXCEPT !.canvas = n] : n \in {40, 60, 66}}

(* The widths: every sorted table of up to three intervals over a few code *)
(* points, longer ones, and any two intervals.                             *)
Intervals == {t \in [first : CodePoints, last : CodePoints] : t.first <= t.last}
MCTables ==
    LET ordered(t) == \A i \in 1 .. Len(t) - 1 : t[i].last < t[i + 1].first
        upto3 == UNION {[1 .. n -> Intervals] : n \in 1 .. 3}
    IN  {t \in upto3 : ordered(t)}
        \cup {<<a, b>> : a \in Intervals, b \in Intervals}
        \cup {[i \in 1 .. n |-> [first |-> 2 * i - 1, last |-> 2 * i - 1]] : n \in 1 .. 4}
FirstTable == <<[first |-> 1, last |-> 1]>>

ASSUME ScreensNumbers == C!ConsoleNumbers /\ C!WholeLines /\ FbTermNumbers

-----------------------------------------------------------------------------
MCInit ==
    /\ part \in {"page", "cut", "fbterm", "fbinit", "colours", "parser", "width"}
    /\ C!ConsoleInit /\ ConsoleInit /\ FbTermInit /\ FbInitInit /\ SgrInit /\ ParserInit
    /\ IF part = "width" THEN Init
       ELSE /\ table = FirstTable /\ ucs = 0 /\ min = 1 /\ max = 1
            /\ pc = "cp437" /\ glyph = FALSE /\ columns = 0

PageMoves ==
    /\ part = "page" /\ C!ConsoleNext
    /\ UNCHANGED <<part, console, fbvars, fbinit, sgrvars, parser, vars>>
CutMoves ==
    /\ part = "cut" /\ ConsoleNext
    /\ UNCHANGED <<part, page, fbvars, fbinit, sgrvars, parser, vars>>
FbTermMoves ==
    /\ part = "fbterm" /\ FbTermNext
    /\ UNCHANGED <<part, page, console, fbinit, sgrvars, parser, vars>>
FbInitMoves ==
    /\ part = "fbinit" /\ FbInitNext
    /\ UNCHANGED <<part, page, console, fbvars, sgrvars, parser, vars>>
ColoursMove ==
    /\ part = "colours" /\ SgrNext
    /\ UNCHANGED <<part, page, console, fbvars, fbinit, parser, vars>>
ParserMoves ==
    /\ part = "parser" /\ ParserNext
    /\ UNCHANGED <<part, page, console, fbvars, fbinit, sgrvars, vars>>
WidthMoves ==
    /\ part = "width" /\ Next
    /\ UNCHANGED <<part, page, console, fbvars, fbinit, sgrvars, parser>>

MCNext ==
    \/ PageMoves \/ CutMoves \/ FbTermMoves \/ FbInitMoves
    \/ ColoursMove \/ ParserMoves \/ WidthMoves

MCSpec == MCInit /\ [][MCNext]_MCvars

-----------------------------------------------------------------------------
(* framebuffer.c implements Page without backspaces and wide glyphs: the   *)
(* screen shows the last lines of the text, each whole and in its place.   *)
ShowsPage == C!P!Init /\ [][part = "page" => C!ImplementsPage]_page
=============================================================================
