------------------------------- MODULE Parser -------------------------------
(***************************************************************************)
(* How the terminal reads its input byte by byte: flanterm_putchar,        *)
(* escape_parse, control_sequence_parse, osc_parse and the parsers that    *)
(* these call, of kernel/src/flanterm.c.                                   *)
(*                                                                         *)
(* The state of the parser is a handful of flags that the functions set    *)
(* and clear one by one.  What a complete sequence then does is in Term    *)
(* and Sgr; here it is only told, in done.                                 *)
(***************************************************************************)
EXTENDS Integers, Sequences, FiniteSets

CONSTANTS
    MAX_ESC_VALUES, \* FLANTERM_MAX_ESC_VALUES
    WORD,           \* one more than the greatest uint32_t
    BITS,           \* the bits that a byte of UTF-8 adds (6)
    CURSOR, INSERT, \* the numbers 25 and 4 of the modes
    MAX_BYTES       \* bound on the bytes of the input

(* The bytes that the code tells apart.  "a" is any printable character    *)
(* that is none of the others; ST is a backslash, CSI the byte 0x9b.       *)
Digit == [c \in {"zero", "one", "two"} |-> CASE c = "zero" -> 0 [] c = "one" -> 1 [] OTHER -> 2]
Lead == [c \in {"lead2", "lead3", "lead4"} |->
            CASE c = "lead2" -> 1 [] c = "lead3" -> 2 [] OTHER -> 3]
Bit == [c \in {"more0", "more1", "CSI"} |-> IF c = "more0" THEN 0 ELSE 1]
Finals == {"h", "l", "m", "a"}
Bytes == DOMAIN Digit \cup DOMAIN Lead \cup DOMAIN Bit \cup Finals
         \cup {"semicolon", "bracket", "closing", "question", "first", "second", "B", "seven", "eight", "c", "ESC", "ST", "BEL", "CAN", "SO", "SI", "NUL"}
Printable == Bytes \ (DOMAIN Lead \cup DOMAIN Bit \cup {"ESC", "BEL", "CAN", "SO", "SI", "NUL"})

ASSUME ParserNumbers ==
    {MAX_ESC_VALUES, WORD, BITS, CURSOR, INSERT, MAX_BYTES} \subseteq Nat /\ WORD > 1

VARIABLES
    escape, csi, control_sequence, osc, osc_escape, rrr, discard_next, dec_private,
    escape_offset, esc_values, esc_values_i,
    unicode_remaining, code_point,
    g_select, charsets, current_charset, saved_charset,
    cursor_enabled, insert_mode,
    typed,          \* the digits and semicolons of the control sequence so far
    utf8,           \* the bits of the character of UTF-8 so far
    private_begun,  \* whether the sequence began with '?'
    cancelled,      \* whether such a sequence was cancelled
    done,           \* what the last byte did
    bytes           \* how many there were

sequence == <<escape, csi, control_sequence, osc, osc_escape, discard_next>>
values == <<rrr, escape_offset, esc_values, esc_values_i>>
unicode == <<unicode_remaining, code_point, utf8>>
sets == <<g_select, charsets, current_charset, saved_charset>>
modes == <<cursor_enabled, insert_mode>>
ghosts == <<typed, private_begun, cancelled>>
parser == <<sequence, values, dec_private, unicode, sets, modes, ghosts, done, bytes>>

Nothing == <<"nothing">>

-----------------------------------------------------------------------------
ParserInit ==
    /\ escape = FALSE /\ csi = FALSE /\ control_sequence = FALSE /\ osc = FALSE
    /\ osc_escape = FALSE /\ rrr = FALSE /\ discard_next = FALSE /\ dec_private = FALSE
    /\ escape_offset = 0 /\ esc_values = [i \in 0 .. MAX_ESC_VALUES - 1 |-> 0] /\ esc_values_i = 0
    /\ unicode_remaining = 0 /\ code_point = 0 /\ utf8 = <<>>
    /\ g_select = 0 /\ charsets = <<"default", "special">> /\ current_charset = 1
    /\ saved_charset = 1 /\ cursor_enabled = TRUE /\ insert_mode = FALSE
    /\ typed = <<>> /\ private_begun = FALSE /\ cancelled = FALSE
    /\ done = Nothing /\ bytes = 0

(* A byte to be discarded, or CAN or SUB: everything but dec_private. *)
Discard(c) ==
    /\ discard_next \/ c = "CAN"
    /\ discard_next' = FALSE /\ escape' = FALSE /\ csi' = FALSE /\ control_sequence' = FALSE
    /\ osc' = FALSE /\ osc_escape' = FALSE
    /\ unicode_remaining' = 0 /\ utf8' = <<>> /\ g_select' = 0 /\ done' = Nothing
    /\ cancelled' = (dec_private \/ cancelled)
    /\ UNCHANGED <<values, dec_private, code_point, charsets, current_charset, saved_charset,
                   modes, typed, private_begun>>

Proceed(c) == ~discard_next /\ c # "CAN"

(* The next byte of a character of UTF-8. *)
Continues(c) == unicode_remaining # 0 /\ c \in DOMAIN Bit

Continue(c) ==
    /\ Proceed(c) /\ Continues(c)
    /\ unicode_remaining' = unicode_remaining - 1
    /\ code_point' = code_point + Bit[c] * 2 ^ (BITS * unicode_remaining')
    /\ utf8' = (IF unicode_remaining' = 0 THEN <<>> ELSE Append(utf8, Bit[c]))
    /\ done' = IF unicode_remaining' = 0 THEN <<"unicode", code_point', Append(utf8, Bit[c])>>
               ELSE Nothing
    /\ UNCHANGED <<sequence, values, dec_private, sets, modes, ghosts>>

(* Any other byte ends an incomplete character, and is taken as it is. *)
Start(c) ==
    /\ Proceed(c) /\ ~Continues(c) /\ c \in DOMAIN Lead
    /\ unicode_remaining' = Lead[c] /\ code_point' = 2 ^ (BITS * Lead[c]) /\ utf8' = <<1>>
    /\ done' = Nothing
    /\ UNCHANGED <<sequence, values, dec_private, sets, modes, ghosts>>

Byte(c) ==
    /\ Proceed(c) /\ ~Continues(c) /\ c \notin DOMAIN Lead
    /\ unicode_remaining' = 0 /\ utf8' = <<>> /\ UNCHANGED code_point

-----------------------------------------------------------------------------
(* The byte's place in the sequence, as far as it matters. *)
Offset == escape_offset' = IF escape_offset < 3 THEN escape_offset + 1 ELSE 3

(* osc_parse: everything up to BEL, or to ESC and a backslash. *)
osc_parse(c) ==
    LET ends == c = "BEL" \/ (osc_escape /\ c = "ST")
    IN  /\ Byte(c) /\ escape /\ osc
        /\ Offset
        /\ osc' = ~ends /\ escape' = ~ends /\ osc_escape' = (~ends /\ c = "ESC")
        /\ done' = Nothing
        /\ UNCHANGED <<csi, control_sequence, discard_next, rrr, esc_values, esc_values_i,
                       dec_private, sets, modes, ghosts>>

InSequence(c) == Byte(c) /\ escape /\ ~osc /\ control_sequence
Closed == control_sequence' = FALSE /\ escape' = FALSE /\ UNCHANGED <<csi, osc, osc_escape>>

(* The byte after '[': a second one, or '?'. *)
SecondBracket(c) ==
    /\ InSequence(c) /\ escape_offset = 1 /\ c = "bracket"
    /\ Offset /\ discard_next' = TRUE /\ Closed /\ done' = Nothing
    /\ UNCHANGED <<rrr, esc_values, esc_values_i, dec_private, sets, modes, ghosts>>

QuestionMark(c) ==
    /\ InSequence(c) /\ escape_offset = 1 /\ c = "question"
    /\ Offset /\ dec_private' = TRUE /\ private_begun' = TRUE /\ done' = Nothing
    /\ UNCHANGED <<sequence, rrr, esc_values, esc_values_i, sets, modes, typed, cancelled>>

Full == esc_values_i = MAX_ESC_VALUES

DigitRead(c) ==
    /\ InSequence(c) /\ c \in DOMAIN Digit
    /\ Offset /\ typed' = Append(typed, c) /\ done' = Nothing
    /\ IF Full THEN UNCHANGED <<rrr, esc_values>>
       ELSE /\ rrr' = TRUE
            /\ esc_values' = [esc_values EXCEPT ![esc_values_i] = (@ * 10 + Digit[c]) % WORD]
    /\ UNCHANGED <<sequence, esc_values_i, dec_private, sets, modes, private_begun, cancelled>>

(* A semicolon that does not end the number before it. *)
Semicolon_keeps(c) ==
    /\ InSequence(c) /\ c = "semicolon"
    /\ Offset /\ typed' = Append(typed, c) /\ done' = Nothing
    /\ IF Full THEN UNCHANGED <<rrr, esc_values, esc_values_i>>
       ELSE /\ rrr' = rrr /\ esc_values_i' = esc_values_i + 1
            /\ esc_values' = IF rrr THEN esc_values ELSE [esc_values EXCEPT ![esc_values_i] = 0]
    /\ UNCHANGED <<sequence, dec_private, sets, modes, private_begun, cancelled>>

Semicolon(c) ==
    /\ InSequence(c) /\ c = "semicolon"
    /\ Offset /\ typed' = Append(typed, c) /\ done' = Nothing /\ rrr' = FALSE
    /\ IF rrr THEN esc_values_i' = esc_values_i + 1 /\ UNCHANGED esc_values
       ELSE IF Full THEN UNCHANGED <<esc_values, esc_values_i>>
       ELSE /\ esc_values' = [esc_values EXCEPT ![esc_values_i] = 0]
            /\ esc_values_i' = esc_values_i + 1
    /\ UNCHANGED <<sequence, dec_private, sets, modes, private_begun, cancelled>>

(* What a final byte finds: the number of values, and the values, of which *)
(* the missing ones are 1 (0 for bytes that are not among those here).     *)
Count == IF rrr THEN esc_values_i + 1 ELSE esc_values_i
Given == [i \in DOMAIN esc_values |-> IF i < Count THEN esc_values[i] ELSE 1]

(* dec_private_parse and mode_toggle: 'h' and 'l' with a known number. *)
Toggles(c, number) == c \in {"h", "l"} /\ Count > 0 /\ Given[0] = number

(* dec_private_parse clears the flag at once. *)
PrivateAfter == FALSE

(* The end of a control sequence. *)
Final(c) ==
    /\ InSequence(c) /\ c \notin DOMAIN Digit \cup {"semicolon"}
    /\ ~(escape_offset = 1 /\ c \in {"bracket", "question"})
    /\ Offset /\ rrr' = FALSE /\ esc_values_i' = Count /\ esc_values' = Given
    /\ Closed /\ UNCHANGED discard_next
    /\ dec_private' = PrivateAfter
    /\ cursor_enabled' = (IF dec_private /\ Toggles(c, CURSOR) THEN c = "h" ELSE cursor_enabled)
    /\ insert_mode' = (IF ~dec_private /\ Toggles(c, INSERT) THEN c = "h" ELSE insert_mode)
    /\ done' = <<IF dec_private THEN "private" ELSE "control", c, Count, Given, typed,
                 private_begun, cancelled>>
    /\ typed' = <<>> /\ private_begun' = FALSE /\ cancelled' = FALSE
    /\ UNCHANGED sets

-----------------------------------------------------------------------------
InEscape(c) == Byte(c) /\ escape /\ ~osc /\ ~control_sequence

(* '[', or whatever byte follows 0x9b. *)
Introducer(c) ==
    /\ InEscape(c) /\ (csi \/ c = "bracket")
    /\ Offset /\ csi' = FALSE /\ control_sequence' = TRUE /\ rrr' = FALSE
    /\ esc_values' = [i \in 0 .. MAX_ESC_VALUES - 1 |-> 0] /\ esc_values_i' = 0
    /\ done' = Nothing /\ typed' = <<>> /\ private_begun' = FALSE
    /\ UNCHANGED <<escape, osc, osc_escape, discard_next, dec_private, sets, modes, cancelled>>

(* ESC c: flanterm_context_reinit. *)
Reinit(c) ==
    /\ InEscape(c) /\ ~csi /\ c = "c"
    /\ escape' = FALSE /\ csi' = FALSE /\ control_sequence' = FALSE /\ osc' = FALSE
    /\ osc_escape' = FALSE /\ rrr' = FALSE /\ discard_next' = FALSE /\ dec_private' = FALSE
    /\ escape_offset' = 0 /\ esc_values_i' = 0 /\ UNCHANGED esc_values
    /\ g_select' = 0 /\ charsets' = <<"default", "special">> /\ current_charset' = 1
    /\ cursor_enabled' = TRUE /\ insert_mode' = FALSE /\ done' = <<"escape", c>>
    /\ cancelled' = FALSE /\ UNCHANGED <<saved_charset, typed, private_begun>>

(* Every other byte after ESC. *)
escape_parse(c) ==
    /\ InEscape(c) /\ ~csi /\ c \notin {"bracket", "c"}
    /\ Offset /\ escape' = (c = "closing") /\ osc' = (c = "closing") /\ osc_escape' = (c # "closing" /\ osc_escape)
    /\ g_select' = (CASE c = "first" -> 1 [] c = "second" -> 2 [] OTHER -> g_select)
    /\ saved_charset' = (IF c = "seven" THEN current_charset ELSE saved_charset)
    /\ current_charset' = (IF c = "eight" THEN saved_charset ELSE current_charset)
    /\ done' = IF c \in {"seven", "eight"} THEN <<"escape", c>> ELSE Nothing
    /\ UNCHANGED <<csi, control_sequence, discard_next, rrr, esc_values, esc_values_i,
                   dec_private, charsets, modes, ghosts>>

Ground(c) == Byte(c) /\ ~escape

(* The byte that names a character set, the first or the second one. *)
SelectSet(c) ==
    /\ Ground(c) /\ g_select # 0 /\ g_select' = 0
    /\ charsets' = [charsets EXCEPT ![g_select] = CASE c = "B" -> "default" [] c = "zero" -> "special"
                                                    [] OTHER -> @]
    /\ done' = Nothing
    /\ UNCHANGED <<sequence, values, dec_private, current_charset, saved_charset, modes, ghosts>>

(* Control characters and text. *)
Escape(c) ==
    /\ Ground(c) /\ g_select = 0 /\ c \in {"ESC", "CSI"}
    /\ csi' = (c = "CSI" \/ csi) /\ escape' = TRUE /\ escape_offset' = 0 /\ done' = Nothing
    /\ UNCHANGED <<control_sequence, osc, osc_escape, discard_next, rrr, esc_values, esc_values_i,
                   dec_private, sets, modes, ghosts>>

Shift(c) ==
    /\ Ground(c) /\ g_select = 0 /\ c \in {"SO", "SI"}
    /\ current_charset' = (IF c = "SO" THEN 2 ELSE 1) /\ done' = Nothing
    /\ UNCHANGED <<sequence, values, dec_private, g_select, charsets, saved_charset, modes, ghosts>>

Character(c) ==
    /\ Ground(c) /\ g_select = 0 /\ c \notin {"ESC", "CSI", "SO", "SI"}
    /\ done' = IF c \in Printable THEN <<"print", charsets[current_charset], c>> ELSE Nothing
    /\ UNCHANGED <<sequence, values, dec_private, sets, modes, ghosts>>

flanterm_putchar(c) ==
    \/ Discard(c) \/ Continue(c) \/ Start(c)
    \/ osc_parse(c) \/ SecondBracket(c) \/ QuestionMark(c)
    \/ DigitRead(c) \/ Semicolon(c) \/ Final(c)
    \/ Introducer(c) \/ Reinit(c) \/ escape_parse(c)
    \/ SelectSet(c) \/ Escape(c) \/ Shift(c) \/ Character(c)

ParserNext == bytes < MAX_BYTES /\ bytes' = bytes + 1 /\ \E c \in Bytes : flanterm_putchar(c)

ParserSpec == ParserInit /\ [][ParserNext]_parser

-----------------------------------------------------------------------------
(* Types; in particular no value is written behind the last one.           *)
ParserTypeOK ==
    /\ {escape, csi, control_sequence, osc, osc_escape, rrr, discard_next, dec_private} \subseteq BOOLEAN
    /\ esc_values \in [0 .. MAX_ESC_VALUES - 1 -> 0 .. WORD - 1]
    /\ esc_values_i \in 0 .. MAX_ESC_VALUES /\ escape_offset \in 0 .. 3
    /\ unicode_remaining \in 0 .. 3 /\ g_select \in 0 .. 2 /\ current_charset \in 1 .. 2

(* Whatever sequences were begun, broken off or mixed, a parser that is    *)
(* not inside a sequence has no flag of one left, so that text is text.    *)
(* The one flag that stays is dec_private after a CAN.                     *)
GroundClean ==
    /\ ~escape => ~csi /\ ~control_sequence /\ ~osc /\ ~osc_escape
    /\ ~escape /\ dec_private => cancelled
    /\ discard_next => ~escape
    /\ ~(osc /\ control_sequence) /\ ~(csi /\ (osc \/ control_sequence))

(* The values of a control sequence as a reader of its text would take     *)
(* them: the numbers between the semicolons, in order.                     *)
FieldOf(text, p) == Cardinality({q \in 1 .. p - 1 : text[q] = "semicolon"})
Number(text, f) ==
    LET value[n \in 0 .. Len(text)] ==
            IF n = 0 THEN 0
            ELSE IF text[n] # "semicolon" /\ FieldOf(text, n) = f THEN 10 * value[n - 1] + Digit[text[n]]
            ELSE value[n - 1]
    IN  value[Len(text)] % WORD
Fields(text) ==
    LET n == FieldOf(text, Len(text) + 1)
             + (IF text # <<>> /\ text[Len(text)] # "semicolon" THEN 1 ELSE 0)
    IN  IF n > MAX_ESC_VALUES THEN MAX_ESC_VALUES ELSE n

(* A control sequence that ends has exactly those values, as many as there *)
(* is room for, and 1 for each that is missing.                            *)
ValuesExact ==
    done[1] \in {"control", "private"} =>
        /\ done[3] = Fields(done[5])
        /\ \A i \in 0 .. MAX_ESC_VALUES - 1 :
               done[4][i] = IF i < done[3] THEN Number(done[5], i) ELSE 1

(* A sequence is taken for a private one exactly if it began with '?', or  *)
(* if one that did was cancelled before it.                                *)
PrivateOnlyIf ==
    done[1] \in {"control", "private"} => (done[1] = "private" <=> done[6] \/ done[7])

(* What the first bytes of a character of n bytes spell of it. *)
Spelled(bits, n) ==
    LET part(k) == IF k > Len(bits) THEN 0 ELSE bits[k] * 2 ^ (BITS * (n - k))
    IN  part(1) + part(2) + part(3) + part(4)

(* A character of UTF-8 has the code point that its bytes spell, whatever  *)
(* incomplete characters came before it.                                   *)
UnicodeExact ==
    done[1] = "unicode" =>
        Len(done[3]) \in 2 .. 4 /\ done[2] = Spelled(done[3], Len(done[3]))

(* flanterm.c: whatever sequences are begun, broken off or mixed, text is  *)
(* text again after them, a control sequence has the values that its text  *)
(* gives, a private one is taken for one only if it is or a cancelled one  *)
(* was, and a character of UTF-8 is the one that its bytes spell.          *)
InputExact == ParserTypeOK /\ GroundClean /\ ValuesExact /\ PrivateOnlyIf /\ UnicodeExact
=============================================================================
