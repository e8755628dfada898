-------------------------------- MODULE Sgr ---------------------------------
(***************************************************************************)
(* The colours of the terminal's text: sgr, save_state, restore_state and  *)
(* flanterm_context_reinit of kernel/src/flanterm.c with the set_text      *)
(* functions of the back end.                                              *)
(*                                                                         *)
(* The terminal keeps attributes (two intensities, two colour numbers and  *)
(* reverse video) and the back end the two colours in use.  Nothing but    *)
(* the order of the calls keeps the second in step with the first.         *)
(***************************************************************************)
EXTENDS Integers

CONSTANTS
    Numbers,        \* colour numbers in use, of 0 .. 7
    MAX_VALUES,     \* the most values of a control sequence
    MAX_SGR         \* bound on the number of steps

None == -1          \* no colour number: the default colour

(* Colours: of the two palettes, the defaults and their bright forms, and  *)
(* any other one, of the table of 256 or made of red, green and blue.      *)
Normal(c) == <<"normal", c>>
Bright(c) == <<"bright", c>>
default_fg == <<"fg", 0>>
default_fg_bright == <<"fg", 1>>
default_bg == <<"bg", 0>>
default_bg_bright == <<"bg", 1>>
Rgb == <<"rgb", 0>>
Palettes == {Normal(c) : c \in Numbers} \cup {Bright(c) : c \in Numbers}
TextColours == Palettes
           \cup {default_fg, default_fg_bright, default_bg, default_bg_bright, Rgb}

ASSUME SgrNumbers == 0 \in Numbers /\ Numbers \subseteq 0 .. 7 /\ {MAX_VALUES, MAX_SGR} \subseteq Nat

VARIABLES
    bold, bg_bold, reverse_video, current_primary, current_bg,
    pen_fg, pen_bg,
    saved,          \* what save_state has kept of all these
    left,           \* values that sgr has not read yet
    sgr_steps

attributes == <<bold, bg_bold, reverse_video, current_primary, current_bg>>
sgrvars == <<bold, bg_bold, reverse_video, current_primary, current_bg, pen_fg, pen_bg, saved, left,
          sgr_steps>>

-----------------------------------------------------------------------------
(* memset leaves 0 in the saved state: colour 0, which is black. *)
SgrInit ==
    /\ bold = FALSE /\ bg_bold = FALSE /\ reverse_video = FALSE
    /\ current_primary = None /\ current_bg = None
    /\ pen_fg = default_fg /\ pen_bg = default_bg /\ left = 0 /\ sgr_steps = 0
    /\ saved = [attributes |-> <<FALSE, FALSE, FALSE, 0, 0>>, fg |-> Normal(0), bg |-> Normal(0)]

(* sgr begins; without a value it does what 0 does. *)
sgr(n) ==
    /\ left = 0 /\ left' = (IF n = 0 THEN 1 ELSE n)
    /\ UNCHANGED <<attributes, pen_fg, pen_bg, saved>>

(* A value is read. *)
ReadValue == left > 0 /\ left' = left - 1 /\ UNCHANGED saved

(* The colours as they are without reverse video. *)
Paint(fg, bg) == pen_fg' = fg /\ pen_bg' = bg

(* 0. *)
SetDefault ==
    /\ ReadValue /\ bold' = FALSE /\ bg_bold' = FALSE /\ reverse_video' = FALSE
    /\ current_primary' = None /\ current_bg' = None
    /\ Paint(default_fg, default_bg)

(* 1 and 22: the colour that is the foreground, now in front or behind. *)
SetBold(on) ==
    LET number == current_primary
    IN  /\ ReadValue /\ bold' = on
        /\ IF reverse_video
           THEN Paint(pen_fg, IF number = None THEN (IF on THEN default_bg_bright ELSE default_bg)
                               ELSE IF on THEN Bright(number) ELSE Normal(number))
           ELSE Paint(IF number = None THEN (IF on THEN default_fg_bright ELSE default_fg)
                      ELSE IF on THEN Bright(number) ELSE Normal(number), pen_bg)
        /\ UNCHANGED <<bg_bold, reverse_video, current_primary, current_bg>>

(* 5 and 25: the colour that is the background. *)
SetBgBold(on) ==
    LET number == current_bg
    IN  /\ ReadValue /\ bg_bold' = on
        /\ IF reverse_video
           THEN Paint(IF number = None THEN (IF on THEN default_fg_bright ELSE default_fg)
                      ELSE IF on THEN Bright(number) ELSE Normal(number), pen_bg)
           ELSE Paint(pen_fg, IF number = None THEN (IF on THEN default_bg_bright ELSE default_bg)
                               ELSE IF on THEN Bright(number) ELSE Normal(number))
        /\ UNCHANGED <<bold, reverse_video, current_primary, current_bg>>

(* set_fg and set_bg look at the intensity that belongs to the number. *)
Shade(number, is_bold) == IF is_bold THEN Bright(number) ELSE Normal(number)

(* 30 .. 37 and 40 .. 47. *)
SetPrimary(number) ==
    /\ ReadValue /\ current_primary' = number
    /\ IF reverse_video THEN Paint(pen_fg, Shade(number, bold))
       ELSE Paint(Shade(number, bold), pen_bg)
    /\ UNCHANGED <<bold, bg_bold, reverse_video, current_bg>>

SetBg(number) ==
    /\ ReadValue /\ current_bg' = number
    /\ IF reverse_video THEN Paint(Shade(number, bg_bold), pen_bg)
       ELSE Paint(pen_fg, Shade(number, bg_bold))
    /\ UNCHANGED <<bold, bg_bold, reverse_video, current_primary>>

(* 90 .. 97 and 100 .. 107. *)
SetPrimaryBright(number) ==
    /\ ReadValue /\ current_primary' = number
    /\ IF reverse_video THEN Paint(pen_fg, Bright(number)) ELSE Paint(Bright(number), pen_bg)
    /\ UNCHANGED <<bold, bg_bold, reverse_video, current_bg>>

SetBgBright(number) ==
    /\ ReadValue /\ current_bg' = number
    /\ IF reverse_video THEN Paint(Bright(number), pen_bg) ELSE Paint(pen_fg, Bright(number))
    /\ UNCHANGED <<bold, bg_bold, reverse_video, current_primary>>

(* 39 and 49: the palette is swapped, changed and swapped again. *)
SetPrimaryDefault ==
    LET colour == IF bold THEN default_fg_bright ELSE default_fg
    IN  /\ ReadValue /\ current_primary' = None
        /\ IF reverse_video THEN Paint(pen_fg, colour) ELSE Paint(colour, pen_bg)
        /\ UNCHANGED <<bold, bg_bold, reverse_video, current_bg>>

SetBgDefault ==
    LET colour == IF bg_bold THEN default_bg_bright ELSE default_bg
    IN  /\ ReadValue /\ current_bg' = None
        /\ IF reverse_video THEN Paint(colour, pen_bg) ELSE Paint(pen_fg, colour)
        /\ UNCHANGED <<bold, bg_bold, reverse_video, current_primary>>

(* A palette that is swapped without a look at what it is. *)
SetReverse_always(on) ==
    /\ ReadValue /\ reverse_video' = on /\ Paint(pen_bg, pen_fg)
    /\ UNCHANGED <<bold, bg_bold, current_primary, current_bg>>

(* 7 and 27. *)
SetReverse(on) ==
    /\ ReadValue /\ reverse_video' = on
    /\ IF reverse_video # on THEN Paint(pen_bg, pen_fg) ELSE Paint(pen_fg, pen_bg)
    /\ UNCHANGED <<bold, bg_bold, current_primary, current_bg>>

(* 38 and 48 with 5 and a number, or with 2 and three values; col256 has   *)
(* no entry above 255, and a greater number reads something behind it.     *)
SetAny(fg, values, colour) ==
    /\ left >= values /\ left' = left - values /\ UNCHANGED <<attributes, saved>>
    /\ IF fg THEN Paint(colour, pen_bg) ELSE Paint(pen_fg, colour)

(* 38 or 48 without all its values ends the sequence, and with neither 2   *)
(* nor 5 it is skipped.  An unknown value is skipped as well.              *)
Skip(values) ==
    /\ left >= values /\ left' = left - values
    /\ UNCHANGED <<attributes, pen_fg, pen_bg, saved>>

-----------------------------------------------------------------------------
(* ESC 7 and ESC 8. *)
SaveState ==
    /\ left = 0 /\ saved' = [attributes |-> attributes, fg |-> pen_fg, bg |-> pen_bg]
    /\ UNCHANGED <<attributes, pen_fg, pen_bg, left>>

RestoreState ==
    /\ left = 0 /\ Paint(saved.fg, saved.bg)
    /\ bold' = saved.attributes[1] /\ bg_bold' = saved.attributes[2]
    /\ reverse_video' = saved.attributes[3]
    /\ current_primary' = saved.attributes[4] /\ current_bg' = saved.attributes[5]
    /\ UNCHANGED <<saved, left>>

(* ESC c: the back end keeps its colours, and the saved state stays. *)
flanterm_context_reinit ==
    /\ left = 0 /\ bold' = FALSE /\ bg_bold' = FALSE /\ reverse_video' = FALSE
    /\ current_primary' = None /\ current_bg' = None
    /\ UNCHANGED <<pen_fg, pen_bg, saved, left>>

Intensity == \E on \in BOOLEAN : SetBold(on) \/ SetBgBold(on)
Plain ==
    \/ SetDefault \/ SetPrimaryDefault \/ SetBgDefault
    \/ \E number \in Numbers : SetPrimary(number) \/ SetBg(number)
    \/ \E on \in BOOLEAN : SetReverse(on)
Other ==
    \/ \E number \in Numbers : SetPrimaryBright(number) \/ SetBgBright(number)
    \/ \E fg \in BOOLEAN, values \in {3, 5}, colour \in Palettes \cup {Rgb} : SetAny(fg, values, colour)
    \/ \E values \in {1, 2, left} : left > 0 /\ Skip(values)

SgrNext ==
    /\ sgr_steps < MAX_SGR /\ sgr_steps' = sgr_steps + 1
    /\ \/ \E n \in 0 .. MAX_VALUES : sgr(n)
       \/ Intensity \/ Plain \/ Other
       \/ SaveState \/ RestoreState \/ flanterm_context_reinit

SgrSpec == SgrInit /\ [][SgrNext]_sgrvars

-----------------------------------------------------------------------------
(* The colours that given attributes ask for. *)
Asked(attrs) ==
    LET fg == IF attrs[4] = None THEN IF attrs[1] THEN default_fg_bright ELSE default_fg
              ELSE Shade(attrs[4], attrs[1])
        bg == IF attrs[5] = None THEN IF attrs[2] THEN default_bg_bright ELSE default_bg
              ELSE Shade(attrs[5], attrs[2])
    IN  IF attrs[3] THEN <<bg, fg>> ELSE <<fg, bg>>

Matches == <<pen_fg, pen_bg>> = Asked(attributes)

(* Types of the context's colours: sgr never reads more values than the    *)
(* control sequence has.                                                   *)
SgrTypeOK ==
    /\ {bold, bg_bold, reverse_video} \subseteq BOOLEAN
    /\ {current_primary, current_bg} \subseteq Numbers \cup {None}
    /\ {pen_fg, pen_bg} \subseteq TextColours /\ left \in 0 .. MAX_VALUES \cup {1}

(* Colours that are what the attributes ask for stay so, whatever the      *)
(* order of numbers, intensities, defaults and reverse video, except when  *)
(* an intensity changes under reverse video while its colour is a default. *)
(* The value 0 brings them back to that from any state, and a state saved  *)
(* with such colours is restored with them.                                *)
ColoursMatch ==
    /\ Plain /\ Matches => Matches'
    /\ Intensity /\ Matches /\ ~reverse_video => Matches'
    /\ (\E on \in BOOLEAN : SetBold(on)) /\ Matches /\ current_primary # None => Matches'
    /\ (\E on \in BOOLEAN : SetBgBold(on)) /\ Matches /\ current_bg # None => Matches'
    /\ SetDefault => Matches'
    /\ SaveState /\ Matches => <<pen_fg, pen_bg>>' = Asked(saved'.attributes)
    /\ RestoreState /\ <<saved.fg, saved.bg>> = Asked(saved.attributes) => Matches'

(* Both, and the colours are colours that the back end has.  (Where other  *)
(* parts of the terminal move, sgrvars does not change.)                   *)
ColoursKept ==
    /\ []SgrTypeOK
    /\ [][sgrvars' # sgrvars => ColoursMatch]_sgrvars
=============================================================================
