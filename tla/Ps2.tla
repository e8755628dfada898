-------------------------------- MODULE Ps2 --------------------------------
(***************************************************************************)
(* The PS/2 keyboard driver, kernel/src/devices/ps2.c, and the keyboard it *)
(* serves.                                                                 *)
(*                                                                         *)
(* The keyboard sends scancode set 1: a make code, repeated while the key  *)
(* is down, and a break code; some keys put a prefix before both.  The     *)
(* controller raises an edge for each byte that reaches its output buffer. *)
(* ps2_init drains the buffer and unmasks the interrupt, and               *)
(* keyboard_handler takes one byte per interrupt.                          *)
(***************************************************************************)
EXTENDS Integers, Sequences, SequencesExt

CONSTANTS
    Keys,           \* the keys in use: records of code and extended
    Stray,          \* what a read behind the table may find, as a key
    BUFFER,         \* bytes that the keyboard and the controller hold
    None            \* no character

BREAK_MODE_QUALIFIER == 128
PREFIX == 224

ASSUME Ps2Assumption ==
    /\ Keys \subseteq [code : 0 .. BREAK_MODE_QUALIFIER - 1, extended : BOOLEAN]
    /\ BUFFER \in Nat

(* keycodes: the key of each scancode, from 0 on. *)
keycodes == <<
    "UNKNOWN", "ESCAPE", "1", "2", "3", "4", "5", "6", "7", "8", "9", "0", "MINUS", "EQUAL",
    "BACKSPACE", "TAB", "Q", "W", "E", "R", "T", "Y", "U", "I", "O", "P", "LEFTBRACKET",
    "RIGHTBRACKET", "RETURN", "LCTRL", "A", "S", "D", "F", "G", "H", "J", "K", "L", "SEMICOLON",
    "QUOTE", "GRAVE", "LSHIFT", "BACKSLASH", "Z", "X", "C", "V", "B", "N", "M", "COMMA", "DOT",
    "SLASH", "RSHIFT", "KP_ASTERISK", "RALT", "SPACE", "CAPSLOCK", "F1", "F2", "F3", "F4", "F5",
    "F6", "F7", "F8", "F9", "F10", "KP_NUMLOCK", "SCROLLLOCK", "HOME", "KP_8", "PAGEUP", "KP_2",
    "KP_3", "KP_0", "KP_DECIMAL", "UNKNOWN", "UNKNOWN", "UNKNOWN", "F11", "F12">>

ShiftKeys == {"LSHIFT", "RSHIFT"}
CtrlKeys == {"LCTRL", "RCTRL"}
AltKeys == {"LALT", "RALT"}
LockKeys == {"CAPSLOCK", "KP_NUMLOCK", "SCROLLLOCK"}
Letters == {"A", "B", "C", "D", "E", "F", "G", "H", "I", "J", "K", "L", "M", "N", "O", "P", "Q",
            "R", "S", "T", "U", "V", "W", "X", "Y", "Z"}
Symbols == {"0", "1", "2", "3", "4", "5", "6", "7", "8", "9", "KP_0", "KP_2", "KP_3", "KP_8",
            "COMMA", "DOT", "KP_DECIMAL", "SLASH", "SEMICOLON", "QUOTE", "LEFTBRACKET",
            "RIGHTBRACKET", "GRAVE", "MINUS", "EQUAL", "BACKSLASH"}
Plain == {"BACKSPACE", "TAB", "RETURN", "SPACE", "KP_ASTERISK"}
Printable == Letters \cup Symbols \cup Plain    \* key codes up to 0x7f

VARIABLES
    ctrl, alt, shift, capslock, numlock, scroll_lock,
    phase,          \* "boot", "drained", "up"
    fifo,           \* the bytes under way, with the character each should print
    irq,            \* an edge that the processor has not served
    byte, key, character,   \* the last byte served, its key, and what was printed
    wanted,         \* ghost: what should have been
    down,           \* ghost: the keys held down
    caps,           \* ghost: the state of Caps Lock as typed
    missed,         \* ghost: an edge came while the interrupt was masked
    blurred         \* ghost: a stray read, a lost byte, two Shifts, or keys held at boot

flags == <<ctrl, alt, shift, capslock, numlock, scroll_lock>>
last == <<byte, key, character, wanted>>
ghosts == <<down, caps, missed, blurred>>
vars == <<flags, phase, fifo, irq, last, ghosts>>

-----------------------------------------------------------------------------
KeyOf(k) == IF k.code < Len(keycodes) THEN keycodes[k.code + 1] ELSE "UNKNOWN"

(* keycode_to_ascii: Shift turns digits and punctuation into their upper   *)
(* symbols; exactly one of Shift and Caps Lock makes a letter upper case.  *)
(* The wrong one has Shift win over Caps Lock.                             *)
keycode_to_ascii_shift_wins(code, sh, cl) ==
    [key |-> code, form |-> IF ((sh \/ cl) /\ code \in Letters) \/ (sh /\ code \in Symbols)
                            THEN "upper" ELSE "lower"]

keycode_to_ascii(code, sh, cl) ==
    [key |-> code, form |-> IF (sh # cl /\ code \in Letters) \/ (sh /\ code \in Symbols)
                            THEN "upper" ELSE "lower"]

-----------------------------------------------------------------------------
(* What a typist means by a printable key. *)
Meant(code, sh, cl) ==
    LET upper == CASE code \in Letters -> sh # cl
                   [] code \in Symbols -> sh
                   [] OTHER -> FALSE
    IN  [key |-> code, form |-> IF upper THEN "upper" ELSE "lower"]

Fits(bytes) == Len(fifo) + Len(bytes) <= BUFFER

(* The keyboard sends bytes, or drops them when there is no room.  An edge *)
(* reaches the processor unless its interrupt is masked or an earlier byte *)
(* still fills the output buffer.                                          *)
Send(bytes) ==
    IF Fits(bytes)
    THEN /\ fifo' = fifo \o bytes
         /\ irq' = (irq \/ (fifo = <<>> /\ phase = "up"))
         /\ missed' = (missed \/ (fifo = <<>> /\ phase = "drained"))
    ELSE UNCHANGED <<fifo, irq, missed>>

Bytes(k, code, want) ==
    IF k.extended THEN <<[code |-> PREFIX, want |-> None], [code |-> code, want |-> want]>>
    ELSE <<[code |-> code, want |-> want]>>

ShiftDown(D) == \E k \in D : ~ k.extended /\ KeyOf(k) \in ShiftKeys

(* A key goes down, or repeats while it is down. *)
Press(k) ==
    LET want  == IF KeyOf(k) \in Printable
                 THEN Meant(KeyOf(k), ShiftDown(down), caps) ELSE None
        bytes == Bytes(k, k.code, want)
    IN  /\ Send(bytes)
        /\ caps' = IF KeyOf(k) = "CAPSLOCK" THEN ~ caps ELSE caps
        /\ down' = down \cup {k}
        /\ blurred' = \/ blurred
                      \/ ~ Fits(bytes)
                      \/ k \notin down /\ KeyOf(k) \in ShiftKeys /\ ShiftDown(down)
        /\ UNCHANGED <<flags, phase, last>>

Release(k) ==
    LET bytes == Bytes(k, k.code + BREAK_MODE_QUALIFIER, None)
    IN  /\ k \in down
        /\ Send(bytes)
        /\ down' = down \ {k}
        /\ blurred' = (blurred \/ ~ Fits(bytes))
        /\ UNCHANGED <<flags, phase, last, caps>>

-----------------------------------------------------------------------------
(* ps2_init that leaves the output buffer as it is. *)
ps2_init_no_drain ==
    /\ phase = "boot"
    /\ phase' = "drained"
    /\ caps' = FALSE
    /\ blurred' = (down # {})
    /\ UNCHANGED <<flags, fifo, irq, last, down, missed>>

(* ps2_init: drain the output buffer, ...  ps2_send_command writes its     *)
(* command only while the input buffer is full, which it is not here.      *)
ps2_init ==
    /\ phase = "boot"
    /\ fifo' = <<>>
    /\ phase' = "drained"
    /\ caps' = FALSE
    /\ blurred' = (down # {})
    /\ UNCHANGED <<flags, irq, last, down, missed>>

(* ... then unmask the interrupt. *)
UnmaskKeyboard ==
    /\ phase = "drained"
    /\ phase' = "up"
    /\ UNCHANGED <<flags, fifo, irq, last, ghosts>>

(* A modifier that the release of its key leaves alone. *)
ModifierSticks(old, k, class, pressed) == IF k \in class /\ pressed THEN TRUE ELSE old

(* The state of a modifier after a key of its class is pressed or released.*)
Modifier(old, k, class, pressed) == IF k \in class THEN pressed ELSE old

Lock(old, k, name, pressed) == IF k = name /\ pressed THEN ~ old ELSE old

(* The end of the interrupt: the next byte enters the output buffer and    *)
(* raises its edge.                                                        *)
NextEdge == Len(fifo) > 1

(* keyboard_handler, for the byte at the head.  A scancode behind the end  *)
(* of the table, as a prefix is, reads whatever lies there.                *)
keyboard_handler ==
    /\ phase = "up"
    /\ irq
    /\ byte' = Head(fifo).code
    /\ LET pressed  == byte' < BREAK_MODE_QUALIFIER
           scancode == byte' % BREAK_MODE_QUALIFIER
       IN  /\ key' \in IF scancode < Len(keycodes) THEN {keycodes[scancode + 1]} ELSE Stray
           /\ blurred' = (blurred \/ scancode >= Len(keycodes))
           /\ ctrl' = Modifier(ctrl, key', CtrlKeys, pressed)
           /\ alt' = Modifier(alt, key', AltKeys, pressed)
           /\ shift' = Modifier(shift, key', ShiftKeys, pressed)
           /\ capslock' = Lock(capslock, key', "CAPSLOCK", pressed)
           /\ numlock' = Lock(numlock, key', "KP_NUMLOCK", pressed)
           /\ scroll_lock' = Lock(scroll_lock, key', "SCROLLLOCK", pressed)
           /\ character' = IF pressed /\ key' \in Printable
                           THEN keycode_to_ascii(key', shift, capslock) ELSE None
           /\ wanted' = Head(fifo).want
    /\ fifo' = Tail(fifo)
    /\ irq' = NextEdge
    /\ UNCHANGED <<phase, down, caps, missed>>

-----------------------------------------------------------------------------
Init ==
    /\ ctrl = FALSE /\ alt = FALSE /\ shift = FALSE
    /\ capslock = FALSE /\ numlock = FALSE /\ scroll_lock = FALSE
    /\ phase = "boot" /\ fifo = <<>> /\ irq = FALSE
    /\ byte = 0 /\ key = "UNKNOWN" /\ character = None /\ wanted = None
    /\ down = {} /\ caps = FALSE /\ missed = FALSE /\ blurred = FALSE

Next ==
    \/ \E k \in Keys : Press(k) \/ Release(k)
    \/ ps2_init
    \/ UnmaskKeyboard
    \/ keyboard_handler

Spec == Init /\ [][Next]_vars

-----------------------------------------------------------------------------
(* Every variable keeps its type. *)
TypeOK ==
    /\ {ctrl, alt, shift, capslock, numlock, scroll_lock, irq, caps, missed, blurred} \subseteq BOOLEAN
    /\ phase \in {"boot", "drained", "up"}
    /\ Len(fifo) <= BUFFER
    /\ \A n \in DOMAIN fifo : fifo[n].code \in 0 .. 255
    /\ byte \in 0 .. 255
    /\ key \in ToSet(keycodes) \cup Stray
    /\ down \subseteq Keys
    /\ irq => fifo # <<>>

(* What keyboard_handler prints for a byte is what the typist meant when   *)
(* the key went down, however far the interrupts lag behind the keys: the  *)
(* modifiers that the handler keeps are those of that moment.              *)
PrintsWhatWasTyped == ~ blurred => character = wanted

(* A modifier that the driver believes to be down is down, once it has     *)
(* caught up with the keyboard.                                            *)
NoStuckModifier ==
    phase = "up" /\ fifo = <<>> /\ ~ blurred =>
        /\ shift => \E k \in down : KeyOf(k) \in ShiftKeys
        /\ ctrl => \E k \in down : KeyOf(k) \in CtrlKeys

(* A byte that waits has its interrupt pending, unless its edge came after *)
(* ps2_init drained the buffer and before it unmasked the interrupt.       *)
NoByteForgotten == phase = "up" /\ fifo # <<>> /\ ~ missed => irq

(* ps2.c: the driver's state keeps its types, the controller's buffer its  *)
(* size, and no byte that waits is forgotten.                              *)
BytesKept == TypeOK /\ NoByteForgotten

(* The last rows of the table, by the scancodes in their comments. *)
Commented == [code \in {80, 81, 82} |-> CASE code = 80 -> "KP_2" [] code = 81 -> "KP_3" [] code = 82 -> "KP_0"]

(* "KEY_KP_0, //0x52": a scancode is decoded as the comments of the table  *)
(* say.                                                                    *)
TableAsCommented == byte \in DOMAIN Commented => key = Commented[byte]
=============================================================================
