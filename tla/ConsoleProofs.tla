---------------------------- MODULE ConsoleProofs ---------------------------
(* The keyboard prints what was typed, for every set of keys and every     *)
(* size of the buffer; and the console that it prints on keeps its cursor  *)
(* near the screen and shows a page of cells, for every screen and font.   *)
EXTENDS Ps2, Console, BitmapProofs, SequenceTheorems, TLAPS

Forms == [key : Printable, form : {"upper", "lower"}]
Wanted == Forms \cup {None}
Queued == [code : 0 .. 255, want : Wanted]

FifoType == fifo \in Seq(Queued)

(* Nothing happens in the driver before its interrupt is unmasked. *)
QuietBeforeUp ==
    phase # "up" =>
        /\ ~ irq /\ ~ shift /\ ~ ctrl /\ ~ capslock
        /\ character = None /\ wanted = None

(* A byte that waits for the interrupt to be unmasked came too early. *)
EarlyByteMissed == phase = "drained" /\ ~ missed => fifo = <<>>

-----------------------------------------------------------------------------
(* How keyboard_handler will take byte c, in the state s of its modifiers. *)
Pressed(c) == c < BREAK_MODE_QUALIFIER
InTable(c) == c % BREAK_MODE_QUALIFIER < Len(keycodes)
Decoded(c) == keycodes[(c % BREAK_MODE_QUALIFIER) + 1]

After(s, c) ==
    [shift    |-> Modifier(s.shift, Decoded(c), ShiftKeys, Pressed(c)),
     ctrl     |-> Modifier(s.ctrl, Decoded(c), CtrlKeys, Pressed(c)),
     capslock |-> Lock(s.capslock, Decoded(c), "CAPSLOCK", Pressed(c))]

Shown(s, c) ==
    IF Pressed(c) /\ Decoded(c) \in Printable
    THEN keycode_to_ascii(Decoded(c), s.shift, s.capslock) ELSE None

Modifiers == [shift : BOOLEAN, ctrl : BOOLEAN, capslock : BOOLEAN]
Current == [shift |-> shift, ctrl |-> ctrl, capslock |-> capslock]

(* The first n bytes of the queue are decoded by the table. *)
Readable(n) == \A m \in 1 .. n : InTable(fifo[m].code)

IsShift(k) == ~ k.extended /\ KeyOf(k) \in ShiftKeys
CtrlDown(D) == \E k \in D : KeyOf(k) \in CtrlKeys

(* st is the sequence of states that the driver's modifiers go through     *)
(* while it works off the queue: each byte was sent for the character that *)
(* the driver will make of it, and at the end the driver knows the keys    *)
(* that are down.  A byte that the table does not decode ends the promise. *)
Replay(st) ==
    /\ st[0] = Current
    /\ \A m \in 1 .. Len(fifo) : Readable(m) =>
          /\ st[m] = After(st[m - 1], fifo[m].code)
          /\ fifo[m].want = Shown(st[m - 1], fifo[m].code)
    /\ Readable(Len(fifo)) =>
          /\ st[Len(fifo)].shift = ShiftDown(down)
          /\ st[Len(fifo)].capslock = caps
          /\ st[Len(fifo)].ctrl => CtrlDown(down)

QueueReplays ==
    phase # "boot" /\ ~ blurred => \E st \in [0 .. Len(fifo) -> Modifiers] : Replay(st)

(* At most one Shift is held. *)
OneShift ==
    phase # "boot" /\ ~ blurred => \A j, k \in down : IsShift(j) /\ IsShift(k) => j = k

IInv ==
    /\ BytesKept
    /\ FifoType
    /\ QuietBeforeUp
    /\ EarlyByteMissed
    /\ QueueReplays
    /\ OneShift
    /\ PrintsWhatWasTyped

-----------------------------------------------------------------------------
(* The table ends before the prefix, 0x60 without its break bit. *)
LEMMA TableLength ==
    /\ Len(keycodes) \in Nat /\ Len(keycodes) > 0 /\ Len(keycodes) <= PREFIX % BREAK_MODE_QUALIFIER
    /\ DOMAIN keycodes = 1 .. Len(keycodes)
  BY DEF keycodes, PREFIX, BREAK_MODE_QUALIFIER

(* A scancode and its break code are decoded alike. *)
LEMMA Codes ==
    ASSUME NEW c \in 0 .. BREAK_MODE_QUALIFIER - 1
    PROVE  /\ c \in 0 .. 255 /\ c + BREAK_MODE_QUALIFIER \in 0 .. 255
           /\ c % BREAK_MODE_QUALIFIER = c
           /\ (c + BREAK_MODE_QUALIFIER) % BREAK_MODE_QUALIFIER = c
           /\ Pressed(c) /\ ~ Pressed(c + BREAK_MODE_QUALIFIER)
  BY DEF BREAK_MODE_QUALIFIER, Pressed

(* No key is both a letter and a symbol. *)
LEMMA LettersApart == Letters \cap Symbols = {}
  BY DEF Letters, Symbols

(* keycode_to_ascii makes of a printable key what the typist means. *)
LEMMA SameForm ==
    ASSUME NEW code \in Printable, NEW sh \in BOOLEAN, NEW cl \in BOOLEAN
    PROVE  /\ Meant(code, sh, cl) = keycode_to_ascii(code, sh, cl)
           /\ Meant(code, sh, cl) \in Forms
<1>1. Meant(code, sh, cl) \in Forms
  BY DEF Meant, Forms
<1>2. CASE code \in Letters
  BY <1>1, <1>2, LettersApart DEF Meant, keycode_to_ascii
<1>3. CASE code \in Symbols
  BY <1>1, <1>3, LettersApart DEF Meant, keycode_to_ascii
<1>4. CASE code \notin Letters /\ code \notin Symbols
  BY <1>1, <1>4 DEF Meant, keycode_to_ascii
<1> QED
  BY <1>1, <1>2, <1>3, <1>4

(* The driver's modifiers are Boolean whatever the byte. *)
LEMMA AfterType ==
    ASSUME NEW s \in Modifiers, NEW c
    PROVE  After(s, c) \in Modifiers
<1>1. Pressed(c) \in BOOLEAN
  BY DEF Pressed
<1>2. \A K : \A u \in BOOLEAN : Modifier(u, Decoded(c), K, Pressed(c)) \in BOOLEAN
  BY <1>1 DEF Modifier
<1>3. \A n : \A u \in BOOLEAN : Lock(u, Decoded(c), n, Pressed(c)) \in BOOLEAN
  BY DEF Lock
<1> QED
  BY <1>2, <1>3 DEF After, Modifiers

(* What a key sends: byte c, behind a prefix if the key has one. *)
Sent(sent, k, c, want) ==
    /\ sent \in Seq(Queued) /\ sent # <<>> /\ Len(sent) \in Nat \ {0}
    /\ k.extended => sent[1].code = PREFIX
    /\ ~ k.extended => Len(sent) = 1 /\ sent[1].code = c /\ sent[1].want = want

(* Bytes is such a sequence. *)
LEMMA BytesType ==
    ASSUME NEW k \in Keys, NEW c \in 0 .. 255, NEW want \in Wanted
    PROVE  Sent(Bytes(k, c, want), k, c, want)
<1>1. [code |-> c, want |-> want] \in Queued
  BY DEF Queued
<1>2. [code |-> PREFIX, want |-> None] \in Queued
  BY DEF Queued, Wanted, PREFIX
<1> QED
  BY <1>1, <1>2 DEF Bytes, Sent

-----------------------------------------------------------------------------
(* Sending bytes keeps what concerns the buffer and the interrupt. *)
LEMMA SendKeeps ==
    ASSUME IInv, NEW bytes \in Seq(Queued), bytes # <<>>, Send(bytes),
           UNCHANGED <<flags, phase, last>>
    PROVE  /\ FifoType' /\ QuietBeforeUp' /\ EarlyByteMissed' /\ NoByteForgotten'
           /\ irq' \in BOOLEAN /\ missed' \in BOOLEAN /\ (irq' => fifo' # <<>>)
           /\ Len(fifo') <= BUFFER
<1>1. /\ fifo \in Seq(Queued) /\ Len(fifo) <= BUFFER /\ irq \in BOOLEAN /\ missed \in BOOLEAN
      /\ irq => fifo # <<>>
      /\ phase = "up" /\ fifo # <<>> /\ ~ missed => irq
      /\ phase = "drained" /\ ~ missed => fifo = <<>>
      /\ phase # "up" => ~ irq
  BY DEF IInv, BytesKept, TypeOK, FifoType, NoByteForgotten, EarlyByteMissed, QuietBeforeUp
<1>2. UNCHANGED <<phase, shift, ctrl, capslock, character, wanted>>
  BY DEF flags, last
<1>3. CASE Fits(bytes)
  <2>1. /\ fifo' = fifo \o bytes
        /\ irq' = (irq \/ (fifo = <<>> /\ phase = "up"))
        /\ missed' = (missed \/ (fifo = <<>> /\ phase = "drained"))
    BY <1>3 DEF Send
  <2>2. /\ fifo' \in Seq(Queued) /\ Len(fifo') = Len(fifo) + Len(bytes) /\ fifo' # <<>>
    BY <1>1, <2>1, ConcatProperties, ConcatSimplifications
  <2>3. Len(fifo') <= BUFFER
    BY <1>3, <2>2 DEF Fits
  <2>4. FifoType' /\ QuietBeforeUp'
    BY <1>1, <1>2, <2>1, <2>2 DEF FifoType, QuietBeforeUp, IInv
  <2>5. EarlyByteMissed' /\ NoByteForgotten'
    BY <1>1, <1>2, <2>1 DEF EarlyByteMissed, NoByteForgotten
  <2> QED
    BY <1>1, <2>1, <2>2, <2>3, <2>4, <2>5
<1>4. CASE ~ Fits(bytes)
  <2>1. UNCHANGED <<fifo, irq, missed>>
    BY <1>4 DEF Send
  <2> QED
    BY <1>1, <1>2, <2>1 DEF IInv, FifoType, QuietBeforeUp, EarlyByteMissed, BytesKept, NoByteForgotten
<1> QED
  BY <1>3, <1>4

(* Byte c turns the modifiers of the keys that are down into those of the  *)
(* keys that are down after the step, and prints want on the way.          *)
Follows(c, want) ==
    \A s \in Modifiers :
       /\ s.shift = ShiftDown(down)
       /\ s.capslock = caps
       /\ s.ctrl => CtrlDown(down)
       => /\ want = Shown(s, c)
          /\ After(s, c).shift = ShiftDown(down')
          /\ After(s, c).capslock = caps'
          /\ After(s, c).ctrl => CtrlDown(down')

(* A key that is pressed or released leaves a queue that replays, when its *)
(* byte, if the table decodes it, does that.                               *)
LEMMA AppendReplays ==
    ASSUME IInv, phase # "boot", ~ blurred, UNCHANGED flags,
           NEW k \in Keys, NEW c \in 0 .. 255, NEW want \in Wanted,
           fifo' = fifo \o Bytes(k, c, want),
           ~ k.extended /\ InTable(c) => Follows(c, want)
    PROVE  \E st \in [0 .. Len(fifo') -> Modifiers] : Replay(st)'
<1>0. PICK n, b : n = Len(fifo) /\ b = Bytes(k, c, want)
  OBVIOUS
<1>1. PICK st \in [0 .. n -> Modifiers] : Replay(st)
  BY <1>0 DEF IInv, QueueReplays
<1>2. /\ fifo \in Seq(Queued) /\ n \in Nat
      /\ b \in Seq(Queued) /\ Len(b) \in Nat \ {0}
      /\ k.extended => b[1].code = PREFIX
      /\ ~ k.extended => Len(b) = 1 /\ b[1].code = c /\ b[1].want = want
  <2>1. fifo \in Seq(Queued)
    BY DEF IInv, FifoType
  <2>2. n \in Nat
    BY <1>0, <2>1, LenProperties
  <2>3. /\ b \in Seq(Queued) /\ Len(b) \in Nat \ {0}
        /\ k.extended => b[1].code = PREFIX
        /\ ~ k.extended => Len(b) = 1 /\ b[1].code = c /\ b[1].want = want
    <3>1. Sent(b, k, c, want)
      BY <1>0, BytesType
    <3> QED
      BY <3>1 DEF Sent
  <2> QED
    BY <2>1, <2>2, <2>3
<1>3. /\ Len(fifo') = n + Len(b)
      /\ \A m \in 1 .. n : fifo'[m] = fifo[m]
      /\ fifo'[n + 1] = b[1]
  <2>1. /\ Len(fifo \o b) = Len(fifo) + Len(b)
        /\ \A m \in 1 .. Len(fifo) + Len(b) :
              (fifo \o b)[m] = IF m <= Len(fifo) THEN fifo[m] ELSE b[m - Len(fifo)]
    BY <1>2, ConcatProperties
  <2>2. fifo' = fifo \o b
    BY <1>0
  <2> QED
    BY <1>0, <1>2, <2>1, <2>2
<1> DEFINE fn == [m \in 0 .. Len(fifo') |-> IF m <= n THEN st[m] ELSE After(st[n], c)]
<1>4. fn \in [0 .. Len(fifo') -> Modifiers]
  BY <1>1, <1>2, <1>3, AfterType
<1>. PICK new \in [0 .. Len(fifo') -> Modifiers] : new = fn
  BY <1>4
<1>5. /\ \A m \in 0 .. n : new[m] = st[m]
      /\ new[n + 1] = After(st[n], c)
  BY <1>2, <1>3
<1> HIDE DEF fn
<1>6. Current' = Current
  BY DEF Current, flags
<1>7. new[0] = Current'
  BY <1>1, <1>2, <1>5, <1>6 DEF Replay
\* The bytes that were queued before.
<1>8. \A m \in 0 .. n : Readable(m)' <=> Readable(m)
  <2> SUFFICES ASSUME NEW m \in 0 .. n PROVE Readable(m)' <=> Readable(m)
    OBVIOUS
  <2>1. \A l \in 1 .. m : fifo'[l] = fifo[l]
    <3>1. \A l \in 1 .. m : l \in 1 .. n
      BY <1>2
    <3> QED
      BY <1>3, <3>1, Zenon
  <2> QED
    BY <2>1, Zenon DEF Readable
<1>9. ASSUME NEW m \in 1 .. n, Readable(m)'
      PROVE  /\ new[m] = After(new[m - 1], fifo'[m].code)
             /\ fifo'[m].want = Shown(new[m - 1], fifo'[m].code)
  <2>1. /\ st[m] = After(st[m - 1], fifo[m].code)
        /\ fifo[m].want = Shown(st[m - 1], fifo[m].code)
    BY <1>0, <1>1, <1>2, <1>8, <1>9 DEF Replay
  <2>2. m - 1 \in 0 .. n /\ m \in 0 .. n
    BY <1>2
  <2> QED
    BY <1>3, <1>5, <2>1, <2>2
\* The new one, if the table decodes it.
<1>10. CASE k.extended \/ ~ InTable(c)
  <2>1. ~ InTable(fifo'[n + 1].code)
    <3>1. ~ InTable(PREFIX)
      BY TableLength DEF InTable, PREFIX, BREAK_MODE_QUALIFIER
    <3> QED
      BY <1>2, <1>3, <1>10, <3>1
  <2>2. \A m \in n + 1 .. Len(fifo') : ~ Readable(m)'
    BY <1>2, <2>1 DEF Readable
  <2>3. Len(fifo') \in n + 1 .. Len(fifo')
    BY <1>2, <1>3
  <2>4. \A m \in 1 .. Len(fifo') : Readable(m)' => m \in 1 .. n
    BY <1>2, <1>3, <2>2
  <2> QED
    BY <1>4, <1>7, <1>9, <2>2, <2>3, <2>4 DEF Replay
<1>11. CASE ~ k.extended /\ InTable(c)
  <2>1. Len(fifo') = n + 1 /\ fifo'[n + 1].code = c /\ fifo'[n + 1].want = want
    <3>1. Len(b) = 1 /\ b[1].code = c /\ b[1].want = want
      BY <1>2, <1>11, Zenon
    <3> QED
      BY <1>2, <1>3, <3>1
  <2>2. ASSUME Readable(n + 1)'
        PROVE  /\ want = Shown(st[n], c)
               /\ After(st[n], c).shift = ShiftDown(down')
               /\ After(st[n], c).capslock = caps'
               /\ After(st[n], c).ctrl => CtrlDown(down')
    <3>1. Readable(n)
      <4>1. \A m \in 1 .. n : m \in 1 .. n + 1
        BY <1>2
      <4>2. \A m \in 1 .. n : InTable(fifo'[m].code)
        BY <2>2, <4>1, Zenon DEF Readable
      <4> QED
        BY <1>3, <4>2, Zenon DEF Readable
    <3>2. /\ st[n].shift = ShiftDown(down)
          /\ st[n].capslock = caps
          /\ st[n].ctrl => CtrlDown(down)
      BY <1>0, <1>1, <3>1 DEF Replay
    <3>3. st[n] \in Modifiers
      BY <1>1, <1>2
    <3> QED
      BY <1>11, <3>2, <3>3 DEF Follows
  <2>3. ASSUME NEW m \in 1 .. n + 1, Readable(m)'
        PROVE  /\ new[m] = After(new[m - 1], fifo'[m].code)
               /\ fifo'[m].want = Shown(new[m - 1], fifo'[m].code)
    <3>1. CASE m = n + 1
      <4>1. new[m - 1] = st[n] /\ new[m] = After(st[n], c) /\ fifo'[m].code = c /\ fifo'[m].want = want
        BY <1>2, <1>5, <2>1, <3>1
      <4> QED
        BY <2>2, <2>3, <3>1, <4>1
    <3>2. m # n + 1 => m \in 1 .. n
      BY <1>2
    <3> QED
      BY <1>9, <2>3, <3>1, <3>2
  <2> QED
    BY <1>4, <1>5, <1>7, <2>1, <2>2, <2>3 DEF Replay
<1> QED
  BY <1>10, <1>11

(* The driver decodes what a key sends as that key. *)
LEMMA DecodesKey ==
    ASSUME NEW k \in Keys
    PROVE  /\ k.code \in 0 .. BREAK_MODE_QUALIFIER - 1 /\ k.extended \in BOOLEAN
           /\ InTable(k.code) => Decoded(k.code) = KeyOf(k)
           /\ InTable(k.code + BREAK_MODE_QUALIFIER) =>
                Decoded(k.code + BREAK_MODE_QUALIFIER) = KeyOf(k)
<1>1. k.code \in 0 .. BREAK_MODE_QUALIFIER - 1 /\ k.extended \in BOOLEAN
  BY Ps2Assumption
<1>2. /\ k.code % BREAK_MODE_QUALIFIER = k.code
      /\ (k.code + BREAK_MODE_QUALIFIER) % BREAK_MODE_QUALIFIER = k.code
  BY <1>1, Codes
<1> QED
  BY <1>1, <1>2 DEF InTable, Decoded, KeyOf

(* Pressing a key does to the modifiers what its make code does. *)
LEMMA PressFollows ==
    ASSUME NEW k \in Keys, ~ k.extended, InTable(k.code), NEW want,
           caps \in BOOLEAN, down' = down \cup {k},
           caps' = IF KeyOf(k) = "CAPSLOCK" THEN ~ caps ELSE caps,
           want = IF KeyOf(k) \in Printable
                  THEN Meant(KeyOf(k), ShiftDown(down), caps) ELSE None
    PROVE  Follows(k.code, want)
<1> SUFFICES ASSUME NEW s \in Modifiers, s.shift = ShiftDown(down), s.capslock = caps,
                    s.ctrl => CtrlDown(down)
             PROVE  /\ want = Shown(s, k.code)
                    /\ After(s, k.code).shift = ShiftDown(down')
                    /\ After(s, k.code).capslock = caps'
                    /\ After(s, k.code).ctrl => CtrlDown(down')
  BY DEF Follows
<1>1. Decoded(k.code) = KeyOf(k) /\ Pressed(k.code) = TRUE
  BY DecodesKey, Codes DEF Pressed
<1>2. s.shift \in BOOLEAN /\ s.capslock \in BOOLEAN
  BY DEF Modifiers
<1>3. want = Shown(s, k.code)
  <2>1. CASE KeyOf(k) \in Printable
    <3>1. want = Meant(KeyOf(k), s.shift, s.capslock)
      BY <2>1
    <3>2. want = keycode_to_ascii(KeyOf(k), s.shift, s.capslock)
      BY <1>2, <2>1, <3>1, SameForm
    <3> QED
      BY <1>1, <2>1, <3>2 DEF Shown
  <2>2. CASE KeyOf(k) \notin Printable
    BY <1>1, <2>2 DEF Shown
  <2> QED
    BY <2>1, <2>2
<1>4. After(s, k.code).shift = ShiftDown(down')
  <2>1. After(s, k.code).shift = Modifier(s.shift, KeyOf(k), ShiftKeys, TRUE)
    BY <1>1 DEF After
  <2>2. CASE KeyOf(k) \in ShiftKeys
    <3>1. ShiftDown(down') = TRUE
      BY <2>2 DEF ShiftDown
    <3> QED
      BY <2>1, <2>2, <3>1 DEF Modifier
  <2>3. CASE KeyOf(k) \notin ShiftKeys
    <3>1. ShiftDown(down') = ShiftDown(down)
      BY <2>3 DEF ShiftDown
    <3> QED
      BY <2>1, <2>3, <3>1 DEF Modifier
  <2> QED
    BY <2>2, <2>3
<1>5. After(s, k.code).capslock = caps'
  <2>1. After(s, k.code).capslock = Lock(s.capslock, KeyOf(k), "CAPSLOCK", TRUE)
    BY <1>1 DEF After
  <2> QED
    BY <2>1 DEF Lock
<1>6. After(s, k.code).ctrl => CtrlDown(down')
  <2>1. After(s, k.code).ctrl = Modifier(s.ctrl, KeyOf(k), CtrlKeys, TRUE)
    BY <1>1 DEF After
  <2> QED
    BY <2>1 DEF Modifier, CtrlDown
<1> QED
  BY <1>3, <1>4, <1>5, <1>6

(* So does releasing one, as long as no other Shift is held. *)
LEMMA ReleaseFollows ==
    ASSUME NEW k \in Keys, ~ k.extended, NEW c, c = k.code + BREAK_MODE_QUALIFIER, InTable(c),
           k \in down, down' = down \ {k}, caps' = caps,
           \A j \in down : IsShift(j) /\ IsShift(k) => j = k
    PROVE  Follows(c, None)
<1> SUFFICES ASSUME NEW s \in Modifiers, s.shift = ShiftDown(down), s.capslock = caps,
                    s.ctrl => CtrlDown(down)
             PROVE  /\ None = Shown(s, c)
                    /\ After(s, c).shift = ShiftDown(down')
                    /\ After(s, c).capslock = caps'
                    /\ After(s, c).ctrl => CtrlDown(down')
  BY DEF Follows
<1>1. Decoded(c) = KeyOf(k) /\ Pressed(c) = FALSE
  BY DecodesKey, Codes DEF Pressed
<1>3. None = Shown(s, c)
  BY <1>1 DEF Shown
<1>4. After(s, c).shift = ShiftDown(down')
  <2>1. After(s, c).shift = Modifier(s.shift, KeyOf(k), ShiftKeys, FALSE)
    BY <1>1 DEF After
  <2>2. CASE KeyOf(k) \in ShiftKeys
    <3>1. ShiftDown(down') = FALSE
      BY <2>2 DEF ShiftDown, IsShift
    <3> QED
      BY <2>1, <2>2, <3>1 DEF Modifier
  <2>3. CASE KeyOf(k) \notin ShiftKeys
    <3>1. ShiftDown(down') = ShiftDown(down)
      BY <2>3 DEF ShiftDown
    <3> QED
      BY <2>1, <2>3, <3>1 DEF Modifier
  <2> QED
    BY <2>2, <2>3
<1>5. After(s, c).capslock = caps'
  <2>1. After(s, c).capslock = Lock(s.capslock, KeyOf(k), "CAPSLOCK", FALSE)
    BY <1>1 DEF After
  <2> QED
    BY <2>1 DEF Lock
<1>6. After(s, c).ctrl => CtrlDown(down')
  <2>1. After(s, c).ctrl = Modifier(s.ctrl, KeyOf(k), CtrlKeys, FALSE)
    BY <1>1 DEF After
  <2> QED
    BY <2>1 DEF Modifier, CtrlDown
<1> QED
  BY <1>3, <1>4, <1>5, <1>6

-----------------------------------------------------------------------------
(* The invariant holds at boot. *)
LEMMA InitIInv == Init => IInv
<1> SUFFICES ASSUME Init PROVE IInv
  OBVIOUS
<1>1. fifo \in Seq(Queued) /\ Len(fifo) = 0 /\ DOMAIN fifo = {}
  BY EmptySeq DEF Init
<1>2. key \in ToSet(keycodes)
  BY TableLength DEF Init, ToSet, keycodes
<1>3. TypeOK
  <2>1. Len(fifo) <= BUFFER
    BY <1>1, Ps2Assumption
  <2>2. \A n \in DOMAIN fifo : fifo[n].code \in 0 .. 255
    BY <1>1
  <2>3. {ctrl, alt, shift, capslock, numlock, scroll_lock, irq, caps, missed, blurred} \subseteq BOOLEAN
    BY DEF Init
  <2> QED
    BY <1>2, <2>1, <2>2, <2>3 DEF Init, TypeOK
<1> QED
  BY <1>1, <1>3 DEF Init, IInv, BytesKept, NoByteForgotten, FifoType, QuietBeforeUp,
     EarlyByteMissed, QueueReplays, OneShift, PrintsWhatWasTyped

(* The types, when a key is pressed or released. *)
LEMMA KeyTypeOK ==
    ASSUME TypeOK, FifoType', UNCHANGED <<flags, phase, last>>,
           irq' \in BOOLEAN, missed' \in BOOLEAN, caps' \in BOOLEAN, blurred' \in BOOLEAN,
           irq' => fifo' # <<>>, Len(fifo') <= BUFFER, down' \subseteq Keys
    PROVE  TypeOK'
<1>1. \A n \in DOMAIN fifo' : fifo'[n].code \in 0 .. 255
  <2> SUFFICES ASSUME NEW n \in DOMAIN fifo' PROVE fifo'[n].code \in 0 .. 255
    OBVIOUS
  <2>1. fifo'[n] \in Queued
    BY LenProperties, ElementOfSeq DEF FifoType
  <2> QED
    BY <2>1 DEF Queued
<1>2. /\ {ctrl, alt, shift, capslock, numlock, scroll_lock}' \subseteq BOOLEAN
      /\ phase' \in {"boot", "drained", "up"} /\ byte' \in 0 .. 255
      /\ key' \in ToSet(keycodes) \cup Stray
  BY DEF TypeOK, flags, last
<1> QED
  BY <1>1, <1>2 DEF TypeOK

(* A key that goes down, or repeats, keeps the invariant. *)
LEMMA PressIInv ==
    ASSUME IInv, NEW k \in Keys, Press(k)
    PROVE  IInv'
<1>0. PICK c, want :
        /\ c = k.code
        /\ want = IF KeyOf(k) \in Printable
                  THEN Meant(KeyOf(k), ShiftDown(down), caps) ELSE None
  OBVIOUS
<1>1. /\ Send(Bytes(k, c, want))
      /\ caps' = (IF KeyOf(k) = "CAPSLOCK" THEN ~ caps ELSE caps)
      /\ down' = down \cup {k}
      /\ blurred' = \/ blurred
                    \/ ~ Fits(Bytes(k, c, want))
                    \/ k \notin down /\ KeyOf(k) \in ShiftKeys /\ ShiftDown(down)
      /\ UNCHANGED <<flags, phase, last>>
  BY <1>0 DEF Press
<1>2. TypeOK /\ caps \in BOOLEAN /\ blurred \in BOOLEAN /\ down \subseteq Keys
  BY DEF IInv, BytesKept, TypeOK
<1>3. c \in 0 .. 255 /\ want \in Wanted
  <2>1. ShiftDown(down) \in BOOLEAN
    BY DEF ShiftDown
  <2>2. want \in Wanted
    BY <1>0, <1>2, <2>1, SameForm DEF Wanted
  <2> QED
    BY <1>0, <2>2, DecodesKey, Codes
<1>4. Bytes(k, c, want) \in Seq(Queued) /\ Bytes(k, c, want) # <<>>
  <2>1. Sent(Bytes(k, c, want), k, c, want)
    BY <1>3, BytesType
  <2> QED
    BY <2>1 DEF Sent
<1>5. /\ FifoType' /\ QuietBeforeUp' /\ EarlyByteMissed' /\ NoByteForgotten'
      /\ irq' \in BOOLEAN /\ missed' \in BOOLEAN /\ (irq' => fifo' # <<>>)
      /\ Len(fifo') <= BUFFER
  BY <1>1, <1>4, SendKeeps
<1>6. TypeOK'
  <2>1. caps' \in BOOLEAN /\ blurred' \in BOOLEAN /\ down' \subseteq Keys
    BY <1>1, <1>2
  <2> QED
    BY <1>1, <1>2, <1>5, <2>1, KeyTypeOK
<1>7. QueueReplays'
  <2> SUFFICES ASSUME phase # "boot", ~ blurred'
               PROVE  \E st \in [0 .. Len(fifo') -> Modifiers] : Replay(st)'
    BY <1>1 DEF QueueReplays
  <2>1. ~ blurred /\ Fits(Bytes(k, c, want))
    BY <1>1
  <2>2. fifo' = fifo \o Bytes(k, c, want)
    BY <1>1, <2>1 DEF Send
  <2>3. ~ k.extended /\ InTable(c) => Follows(c, want)
    BY <1>0, <1>1, <1>2, PressFollows
  <2> QED
    BY <1>1, <1>3, <2>1, <2>2, <2>3, AppendReplays
<1>8. OneShift'
  BY <1>1 DEF IInv, OneShift, IsShift, ShiftDown
<1>9. PrintsWhatWasTyped'
  BY <1>1 DEF IInv, PrintsWhatWasTyped, last
<1> QED
  BY <1>5, <1>6, <1>7, <1>8, <1>9 DEF IInv, BytesKept

(* So does a key that is released. *)
LEMMA ReleaseIInv ==
    ASSUME IInv, NEW k \in Keys, Release(k)
    PROVE  IInv'
<1>0. PICK c : c = k.code + BREAK_MODE_QUALIFIER
  OBVIOUS
<1>1. /\ Send(Bytes(k, c, None)) /\ k \in down /\ down' = down \ {k}
      /\ blurred' = (blurred \/ ~ Fits(Bytes(k, c, None)))
      /\ UNCHANGED <<flags, phase, last, caps>>
  BY <1>0 DEF Release
<1>2. TypeOK /\ caps \in BOOLEAN /\ blurred \in BOOLEAN /\ down \subseteq Keys
  BY DEF IInv, BytesKept, TypeOK
<1>3. c \in 0 .. 255 /\ None \in Wanted
  BY <1>0, DecodesKey, Codes DEF Wanted
<1>4. Bytes(k, c, None) \in Seq(Queued) /\ Bytes(k, c, None) # <<>>
  <2>1. Sent(Bytes(k, c, None), k, c, None)
    BY <1>3, BytesType
  <2> QED
    BY <2>1 DEF Sent
<1>5. /\ FifoType' /\ QuietBeforeUp' /\ EarlyByteMissed' /\ NoByteForgotten'
      /\ irq' \in BOOLEAN /\ missed' \in BOOLEAN /\ (irq' => fifo' # <<>>)
      /\ Len(fifo') <= BUFFER
  BY <1>1, <1>4, SendKeeps
<1>6. TypeOK'
  <2>1. caps' \in BOOLEAN /\ blurred' \in BOOLEAN /\ down' \subseteq Keys
    BY <1>1, <1>2
  <2> QED
    BY <1>1, <1>2, <1>5, <2>1, KeyTypeOK
<1>7. QueueReplays'
  <2> SUFFICES ASSUME phase # "boot", ~ blurred'
               PROVE  \E st \in [0 .. Len(fifo') -> Modifiers] : Replay(st)'
    BY <1>1 DEF QueueReplays
  <2>1. ~ blurred /\ Fits(Bytes(k, c, None))
    BY <1>1
  <2>2. fifo' = fifo \o Bytes(k, c, None)
    BY <1>1, <2>1 DEF Send
  <2>3. \A j \in down : IsShift(j) /\ IsShift(k) => j = k
    BY <1>1, <2>1 DEF IInv, OneShift
  <2>4. ~ k.extended /\ InTable(c) => Follows(c, None)
    BY <1>0, <1>1, <2>3, ReleaseFollows
  <2> QED
    BY <1>1, <1>3, <2>1, <2>2, <2>4, AppendReplays
<1>8. OneShift'
  BY <1>1 DEF IInv, OneShift
<1>9. PrintsWhatWasTyped'
  BY <1>1 DEF IInv, PrintsWhatWasTyped, last
<1> QED
  BY <1>5, <1>6, <1>7, <1>8, <1>9 DEF IInv, BytesKept

(* ps2_init empties the queue: the driver knows no key that is not down. *)
LEMMA Ps2InitIInv == IInv /\ ps2_init => IInv'
<1> SUFFICES ASSUME IInv, ps2_init PROVE IInv'
  OBVIOUS
<1>1. /\ phase = "boot" /\ fifo' = <<>> /\ phase' = "drained" /\ caps' = FALSE
      /\ blurred' = (down # {}) /\ UNCHANGED <<flags, irq, last, down, missed>>
  BY DEF ps2_init
<1>2. /\ TypeOK /\ ~ irq /\ ~ shift /\ ~ ctrl /\ ~ capslock /\ character = None /\ wanted = None
      /\ {shift, ctrl, capslock} \subseteq BOOLEAN
  BY <1>1 DEF IInv, BytesKept, TypeOK, QuietBeforeUp
<1>3. fifo' \in Seq(Queued) /\ Len(fifo') = 0 /\ DOMAIN fifo' = {}
  BY <1>1, EmptySeq
<1>4. TypeOK'
  <2>1. Len(fifo') <= BUFFER
    BY <1>3, Ps2Assumption
  <2>2. \A n \in DOMAIN fifo' : fifo'[n].code \in 0 .. 255
    BY <1>3
  <2>3. /\ {ctrl, alt, shift, capslock, numlock, scroll_lock, irq, caps, missed, blurred}' \subseteq BOOLEAN
        /\ byte' \in 0 .. 255 /\ key' \in ToSet(keycodes) \cup Stray /\ down' \subseteq Keys
        /\ phase' \in {"boot", "drained", "up"} /\ ~ irq'
    BY <1>1, <1>2 DEF TypeOK, flags, last
  <2> QED
    BY <2>1, <2>2, <2>3 DEF TypeOK
<1>5. QueueReplays'
  <2> SUFFICES ASSUME down = {}
               PROVE  \E st \in [0 .. Len(fifo') -> Modifiers] : Replay(st)'
    BY <1>1 DEF QueueReplays
  <2>1. PICK st : st = [m \in 0 .. 0 |-> Current]
    OBVIOUS
  <2>2. Current \in Modifiers /\ Current' = Current
    BY <1>1, <1>2 DEF Current, Modifiers, flags
  <2>3. st \in [0 .. Len(fifo') -> Modifiers] /\ st[0] = Current
    BY <1>3, <2>1, <2>2
  <2>4. Current.shift = FALSE /\ Current.capslock = FALSE /\ Current.ctrl = FALSE
    BY <1>2 DEF Current
  <2>5. ShiftDown(down') = FALSE
    BY <1>1 DEF ShiftDown
  <2>6. Replay(st)'
    BY <1>1, <1>3, <2>2, <2>3, <2>4, <2>5 DEF Replay
  <2> QED
    BY <2>3, <2>6
<1>6. FifoType' /\ QuietBeforeUp' /\ EarlyByteMissed' /\ NoByteForgotten'
  BY <1>1, <1>2, <1>3 DEF FifoType, QuietBeforeUp, EarlyByteMissed, NoByteForgotten, flags, last
<1>7. OneShift' /\ PrintsWhatWasTyped'
  BY <1>1, <1>2 DEF OneShift, PrintsWhatWasTyped, last
<1> QED
  BY <1>4, <1>5, <1>6, <1>7 DEF IInv, BytesKept

(* Unmasking the interrupt changes nothing that was promised. *)
LEMMA UnmaskIInv == IInv /\ UnmaskKeyboard => IInv'
<1> SUFFICES ASSUME IInv, UnmaskKeyboard PROVE IInv'
  OBVIOUS
<1>1. phase = "drained" /\ phase' = "up" /\ UNCHANGED <<flags, fifo, irq, last, ghosts>>
  BY DEF UnmaskKeyboard
<1>2. TypeOK'
  BY <1>1 DEF IInv, BytesKept, TypeOK, flags, last, ghosts
<1>3. NoByteForgotten' /\ FifoType' /\ QuietBeforeUp' /\ EarlyByteMissed'
  BY <1>1 DEF IInv, BytesKept, NoByteForgotten, FifoType, QuietBeforeUp, EarlyByteMissed, ghosts
<1>4. QueueReplays'
  <2>1. \A st : Replay(st)' <=> Replay(st)
    BY <1>1 DEF Replay, Readable, Current, flags, ghosts
  <2> QED
    BY <1>1, <2>1 DEF IInv, QueueReplays, ghosts
<1>5. OneShift' /\ PrintsWhatWasTyped'
  BY <1>1 DEF IInv, OneShift, PrintsWhatWasTyped, ghosts, last
<1> QED
  BY <1>2, <1>3, <1>4, <1>5 DEF IInv, BytesKept

(* A byte without its break bit. *)
LEMMA ScanType ==
    ASSUME NEW c \in 0 .. 255
    PROVE  c % BREAK_MODE_QUALIFIER \in Nat
  BY DEF BREAK_MODE_QUALIFIER

(* The byte that keyboard_handler takes, and the key it makes of it. *)
LEMMA Served ==
    ASSUME IInv, keyboard_handler
    PROVE  /\ fifo \in Seq(Queued) /\ fifo # <<>> /\ Len(fifo) \in Nat \ {0}
           /\ Head(fifo).code \in 0 .. 255
           /\ InTable(Head(fifo).code) => key' = Decoded(Head(fifo).code)
           /\ ~ InTable(Head(fifo).code) => key' \in Stray
           /\ blurred' = (blurred \/ ~ InTable(Head(fifo).code))
<1>0. PICK c : c = Head(fifo).code
  OBVIOUS
<1>1. fifo \in Seq(Queued) /\ fifo # <<>>
  BY DEF IInv, BytesKept, TypeOK, FifoType, keyboard_handler
<1>2. Len(fifo) \in Nat \ {0} /\ Head(fifo) \in Queued
  BY <1>1, EmptySeq, HeadTailProperties
<1>3. c \in 0 .. 255
  BY <1>0, <1>2 DEF Queued
<1>4. PICK sc : sc = c % BREAK_MODE_QUALIFIER /\ sc \in Nat
  BY <1>3, ScanType
<1>5. /\ key' \in IF sc < Len(keycodes) THEN {keycodes[sc + 1]} ELSE Stray
      /\ blurred' = (blurred \/ sc >= Len(keycodes))
  BY <1>0, <1>4 DEF keyboard_handler
<1>6. (sc >= Len(keycodes)) = ~ InTable(c)
  BY <1>4, TableLength DEF InTable
<1>7. InTable(c) => key' = Decoded(c)
  BY <1>4, <1>5 DEF InTable, Decoded
<1>8. ~ InTable(c) => key' \in Stray
  BY <1>4, <1>5 DEF InTable
<1> QED
  BY <1>0, <1>1, <1>2, <1>3, <1>5, <1>6, <1>7, <1>8

(* keyboard_handler takes the head of the queue, as the replay says. *)
LEMMA HandlerReplays ==
    ASSUME IInv, keyboard_handler, ~ blurred'
    PROVE  /\ \E st \in [0 .. Len(fifo') -> Modifiers] : Replay(st)'
           /\ character' = wanted'
<1>0. PICK n, c, k : n = Len(fifo) /\ c = Head(fifo).code /\ k = key'
  OBVIOUS
<1>1. /\ phase = "up" /\ irq /\ fifo \in Seq(Queued) /\ fifo # <<>>
      /\ ~ blurred /\ InTable(c) /\ k = Decoded(c)
  <2>1. phase = "up" /\ irq
    BY DEF keyboard_handler
  <2> QED
    BY <1>0, <2>1, Served
<1>2. /\ n \in Nat \ {0} /\ fifo[1] = Head(fifo)
      /\ fifo' = Tail(fifo) /\ Len(fifo') = n - 1
      /\ \A m \in 1 .. n - 1 : fifo'[m] = fifo[m + 1]
  <2>1. fifo' = Tail(fifo)
    BY DEF keyboard_handler
  <2> QED
    BY <1>0, <1>1, <2>1, HeadTailProperties, EmptySeq
<1>3. PICK st \in [0 .. n -> Modifiers] : Replay(st)
  BY <1>0, <1>1 DEF IInv, QueueReplays
<1>4. Readable(1)
  BY <1>0, <1>1, <1>2 DEF Readable
<1>5. st[0] = Current /\ st[1] = After(st[0], c) /\ fifo[1].want = Shown(st[0], c)
  <2>1. 1 \in 1 .. Len(fifo) /\ 1 - 1 = 0 /\ fifo[1].code = c
    BY <1>0, <1>2
  <2> QED
    BY <1>3, <1>4, <2>1 DEF Replay
<1>6. character' = wanted'
  <2>1. wanted' = Head(fifo).want
    BY DEF keyboard_handler
  <2>2. character' = IF Pressed(c) /\ k \in Printable
                     THEN keycode_to_ascii(k, shift, capslock) ELSE None
    BY <1>0 DEF keyboard_handler, Pressed
  <2>3. Current.shift = shift /\ Current.capslock = capslock
    BY DEF Current
  <2> QED
    BY <1>1, <1>2, <1>5, <2>1, <2>2, <2>3 DEF Shown
<1>7. Current' = st[1]
  <2>1. /\ shift' = Modifier(shift, k, ShiftKeys, Pressed(c))
        /\ ctrl' = Modifier(ctrl, k, CtrlKeys, Pressed(c))
        /\ capslock' = Lock(capslock, k, "CAPSLOCK", Pressed(c))
    BY <1>0 DEF keyboard_handler, Pressed
  <2>2. Current.shift = shift /\ Current.capslock = capslock /\ Current.ctrl = ctrl
    BY DEF Current
  <2> QED
    BY <1>1, <1>5, <2>1, <2>2 DEF After, Current
<1> DEFINE fn == [m \in 0 .. n - 1 |-> st[m + 1]]
<1>8. fn \in [0 .. Len(fifo') -> Modifiers]
  BY <1>2, <1>3
<1>. PICK new \in [0 .. Len(fifo') -> Modifiers] : new = fn
  BY <1>8
<1>9. \A m \in 0 .. n - 1 : new[m] = st[m + 1]
  OBVIOUS
<1> HIDE DEF fn
<1>10. ASSUME NEW m \in 0 .. n - 1, Readable(m)' PROVE Readable(m + 1)
  <2> SUFFICES ASSUME NEW l \in 1 .. m + 1 PROVE InTable(fifo[l].code)
    BY DEF Readable
  <2>1. CASE l = 1
    BY <1>0, <1>1, <1>2, <2>1
  <2>2. CASE l # 1
    <3>1. l - 1 \in 1 .. m /\ l - 1 \in 1 .. n - 1 /\ (l - 1) + 1 = l
      BY <1>2, <2>2
    <3>2. InTable(fifo'[l - 1].code)
      BY <1>10, <3>1, Zenon DEF Readable
    <3>3. fifo'[l - 1] = fifo[l]
      BY <1>2, <3>1
    <3> QED
      BY <3>2, <3>3
  <2> QED
    BY <2>1, <2>2
<1>11. ASSUME NEW m \in 1 .. n - 1, Readable(m)'
       PROVE  /\ new[m] = After(new[m - 1], fifo'[m].code)
              /\ fifo'[m].want = Shown(new[m - 1], fifo'[m].code)
  <2>1. /\ m \in 0 .. n - 1 /\ m - 1 \in 0 .. n - 1 /\ (m - 1) + 1 = m
        /\ m + 1 \in 1 .. n /\ (m + 1) - 1 = m
    BY <1>2
  <2>2. Readable(m + 1)
    BY <1>10, <1>11, <2>1
  <2>3. /\ st[m + 1] = After(st[m], fifo[m + 1].code)
        /\ fifo[m + 1].want = Shown(st[m], fifo[m + 1].code)
    BY <1>0, <1>3, <2>1, <2>2 DEF Replay
  <2>4. new[m] = st[m + 1] /\ new[m - 1] = st[m] /\ fifo'[m] = fifo[m + 1]
    BY <1>2, <1>9, <2>1
  <2> QED
    BY <2>3, <2>4
<1>12. ASSUME Readable(n - 1)'
       PROVE  /\ new[n - 1].shift = ShiftDown(down')
              /\ new[n - 1].capslock = caps'
              /\ new[n - 1].ctrl => CtrlDown(down')
  <2>1. n - 1 \in 0 .. n - 1 /\ (n - 1) + 1 = n
    BY <1>2
  <2>2. Readable(n) /\ new[n - 1] = st[n]
    BY <1>9, <1>10, <1>12, <2>1
  <2>3. UNCHANGED <<down, caps>>
    BY DEF keyboard_handler
  <2> QED
    BY <1>0, <1>3, <2>2, <2>3 DEF Replay
<1>13. new[0] = Current'
  BY <1>2, <1>7, <1>9
<1>14. Replay(new)'
  BY <1>2, <1>11, <1>12, <1>13 DEF Replay
<1> QED
  BY <1>6, <1>14

(* An interrupt keeps the invariant. *)
LEMMA HandlerIInv == IInv /\ keyboard_handler => IInv'
<1> SUFFICES ASSUME IInv, keyboard_handler PROVE IInv'
  OBVIOUS
<1>1. /\ phase = "up" /\ irq /\ fifo' = Tail(fifo) /\ irq' = (Len(fifo) > 1)
      /\ UNCHANGED <<phase, down, caps, missed>>
      /\ byte' = Head(fifo).code
  BY DEF keyboard_handler, NextEdge
<1>2. TypeOK /\ fifo \in Seq(Queued) /\ fifo # <<>> /\ Len(fifo) \in Nat \ {0}
  BY Served DEF IInv, BytesKept
<1>3. /\ fifo' \in Seq(Queued) /\ Len(fifo') = Len(fifo) - 1 /\ Head(fifo) \in Queued
      /\ fifo' = <<>> <=> Len(fifo) = 1
  <2>1. /\ fifo' \in Seq(Queued) /\ Len(fifo') = Len(fifo) - 1 /\ Head(fifo) \in Queued
    BY <1>1, <1>2, HeadTailProperties
  <2> QED
    BY <1>2, <2>1, EmptySeq
<1>. /\ irq' => Len(fifo) > 1
     /\ Len(fifo) > 1 => irq'
  BY <1>1, Zenon
<1>4. TypeOK'
  <2>1. byte' \in 0 .. 255
    BY <1>1, <1>3 DEF Queued
  <2>2. key' \in ToSet(keycodes) \cup Stray
    <3>1. PICK sc : sc = byte' % BREAK_MODE_QUALIFIER /\ sc \in Nat
      BY <2>1, ScanType
    <3>2. sc < Len(keycodes) => sc + 1 \in DOMAIN keycodes
      BY <3>1, TableLength
    <3>3. InTable(byte') => Decoded(byte') \in ToSet(keycodes)
      BY <3>1, <3>2 DEF InTable, Decoded, ToSet
    <3> QED
      BY <1>1, <3>3, Served
  <2>3. {ctrl, alt, shift, capslock, numlock, scroll_lock}' \subseteq BOOLEAN
    <3> DEFINE p == Pressed(byte')
    <3>1. p \in BOOLEAN
      BY DEF Pressed
    <3>2. /\ ctrl' = Modifier(ctrl, key', CtrlKeys, p)
          /\ alt' = Modifier(alt, key', AltKeys, p)
          /\ shift' = Modifier(shift, key', ShiftKeys, p)
          /\ capslock' = Lock(capslock, key', "CAPSLOCK", p)
          /\ numlock' = Lock(numlock, key', "KP_NUMLOCK", p)
          /\ scroll_lock' = Lock(scroll_lock, key', "SCROLLLOCK", p)
      BY DEF keyboard_handler, Pressed
    <3> HIDE DEF p
    <3>3. \A q, m : \A u \in BOOLEAN : Modifier(u, q, m, p) \in BOOLEAN /\ Lock(u, q, m, p) \in BOOLEAN
      BY <3>1 DEF Modifier, Lock
    <3>4. {ctrl, alt, shift, capslock, numlock, scroll_lock} \subseteq BOOLEAN
      BY <1>2 DEF TypeOK
    <3> QED
      BY <3>2, <3>3, <3>4
  <2>4. {irq, caps, missed, blurred}' \subseteq BOOLEAN
    <3>1. irq' \in BOOLEAN
      BY <1>1
    <3>2. blurred' \in BOOLEAN
      BY DEF keyboard_handler
    <3> QED
      BY <1>1, <1>2, <3>1, <3>2 DEF TypeOK
  <2>5. Len(fifo') <= BUFFER /\ (irq' => fifo' # <<>>)
    <3>1. Len(fifo) <= BUFFER
      BY <1>2 DEF TypeOK
    <3>2. Len(fifo') <= BUFFER
      BY <1>2, <1>3, <3>1, Ps2Assumption
    <3> QED
      BY <1>2, <1>3, <3>2
  <2>6. \A n \in DOMAIN fifo' : fifo'[n].code \in 0 .. 255
    <3> SUFFICES ASSUME NEW n \in DOMAIN fifo' PROVE fifo'[n].code \in 0 .. 255
      OBVIOUS
    <3>1. fifo'[n] \in Queued
      BY <1>3, LenProperties, ElementOfSeq
    <3> QED
      BY <3>1 DEF Queued
  <2> QED
    BY <1>1, <1>2, <2>1, <2>2, <2>3, <2>4, <2>5, <2>6 DEF TypeOK
<1>5. NoByteForgotten' /\ FifoType' /\ QuietBeforeUp' /\ EarlyByteMissed'
  <2>1. fifo' # <<>> => irq'
    BY <1>2, <1>3
  <2> QED
    BY <1>1, <1>3, <2>1 DEF NoByteForgotten, FifoType, QuietBeforeUp, EarlyByteMissed
<1>6. QueueReplays' /\ PrintsWhatWasTyped'
  BY HandlerReplays DEF QueueReplays, PrintsWhatWasTyped
<1>7. OneShift'
  <2>1. blurred => blurred'
    BY DEF keyboard_handler
  <2> QED
    BY <1>1, <2>1 DEF IInv, OneShift
<1> QED
  BY <1>4, <1>5, <1>6, <1>7 DEF IInv, BytesKept

(* Every step keeps the invariant. *)
LEMMA NextIInv == IInv /\ [Next]_vars => IInv'
<1> SUFFICES ASSUME IInv, [Next]_vars PROVE IInv'
  OBVIOUS
<1>1. CASE UNCHANGED vars
  <2>1. UNCHANGED <<flags, phase, fifo, irq, last, ghosts>>
    BY <1>1 DEF vars
  <2>2. TypeOK' /\ NoByteForgotten' /\ FifoType' /\ QuietBeforeUp' /\ EarlyByteMissed'
    BY <2>1 DEF IInv, BytesKept, TypeOK, NoByteForgotten, FifoType, QuietBeforeUp,
       EarlyByteMissed, flags, last, ghosts
  <2>3. QueueReplays'
    <3>1. \A st : Replay(st)' <=> Replay(st)
      BY <2>1 DEF Replay, Readable, Current, flags, ghosts
    <3> QED
      BY <2>1, <3>1 DEF IInv, QueueReplays, ghosts
  <2> QED
    BY <2>1, <2>2, <2>3 DEF IInv, BytesKept, OneShift, PrintsWhatWasTyped, ghosts, last
<1> QED
  BY <1>1, PressIInv, ReleaseIInv, Ps2InitIInv, UnmaskIInv, HandlerIInv DEF Next

(* What the driver and the keyboard keep between them. *)
LEMMA Invariance == Spec => []IInv
<1> QED
  BY InitIInv, NextIInv, PTL DEF Spec

-----------------------------------------------------------------------------
(* The driver's state keeps its types, the buffer its size, and a byte     *)
(* that waits has its interrupt pending unless its edge came between       *)
(* ps2_init's drain and its unmasking.                                     *)
THEOREM NoByteIsForgotten == Spec => []BytesKept
<1>1. IInv => BytesKept
  BY DEF IInv
<1> QED
  BY <1>1, Invariance, PTL

(* However far the interrupts lag behind the keys, keyboard_handler prints *)
(* what the typist meant when the key went down, unless a read fell behind *)
(* the table, a byte was lost, or two Shifts or keys at boot were held.    *)
THEOREM PrintsAsTyped == Spec => []PrintsWhatWasTyped
<1>1. IInv => PrintsWhatWasTyped
  BY DEF IInv
<1> QED
  BY <1>1, Invariance, PTL

(* Once the driver has caught up with the keyboard, a Shift or Ctrl that   *)
(* it believes to be down is down.                                         *)
THEOREM ModifiersRelease == Spec => []NoStuckModifier
<1>1. IInv => NoStuckModifier
  <2> SUFFICES ASSUME IInv, phase = "up", fifo = <<>>, ~ blurred
               PROVE  /\ shift => \E k \in down : KeyOf(k) \in ShiftKeys
                      /\ ctrl => \E k \in down : KeyOf(k) \in CtrlKeys
    BY DEF NoStuckModifier
  <2>1. Len(fifo) = 0
    BY EmptySeq
  <2>2. PICK st \in [0 .. 0 -> Modifiers] : Replay(st)
    BY <2>1 DEF IInv, QueueReplays
  <2>3. Readable(0)
    BY DEF Readable
  <2>4. Current.shift = ShiftDown(down) /\ (Current.ctrl => CtrlDown(down))
    BY <2>1, <2>2, <2>3 DEF Replay
  <2>5. Current.shift = shift /\ Current.ctrl = ctrl
    BY DEF Current
  <2> QED
    BY <2>4, <2>5 DEF ShiftDown, CtrlDown
<1> QED
  BY <1>1, Invariance, PTL

-----------------------------------------------------------------------------
(* The states that term_print_char works on, ... *)
Consoles ==
    [framebuffer : [Addresses -> Glyphs \cup {Bg}], x : Int, y : Int,
     outside : SUBSET (-(2 * glyph_width) .. -1), above : {0, 1}]

(* ... those between two characters, where a cursor that backspaces took   *)
(* up a line stands too far right for a glyph, and any other is in the     *)
(* first line or below it, ...                                             *)
Resting(s) ==
    /\ s \in Consoles
    /\ s.x \in 1 - 2 * glyph_width .. framebuffer_width + ADVANCE + glyph_width
    /\ s.y \in 0 .. framebuffer_height + glyph_height - 1
    /\ s.above = 1 => s.x = framebuffer_width - 2 * glyph_width + ADVANCE
    /\ s.above = 0 => s.y = 0 \/ s.y >= glyph_height

(* ... and those in which a glyph is drawn. *)
Placed(s) ==
    /\ s \in Consoles
    /\ s.x \in -glyph_width .. framebuffer_width - glyph_width
    /\ s.y \in 0 .. framebuffer_height - 1
    /\ s.above = 0 /\ (s.y = 0 \/ s.y >= glyph_height)

ConsoleInv == Resting(now) /\ spaces \in 0 .. 4

(* The constants are numbers. *)
LEMMA ConsoleConstants ==
    /\ framebuffer_width \in Nat /\ framebuffer_height \in Nat /\ PITCH \in Nat
    /\ glyph_width \in Nat /\ glyph_height \in Nat /\ ADVANCE \in Nat /\ TOP \in Nat
    /\ 1 <= glyph_width /\ glyph_width <= framebuffer_width /\ framebuffer_width <= PITCH
    /\ 1 <= glyph_height /\ 2 * glyph_height <= framebuffer_height
    /\ ADVANCE > glyph_width
    /\ SpaceGlyph \notin WideGlyphs
    /\ PITCH * framebuffer_height \in Nat
<1>1. PITCH \in Nat /\ framebuffer_height \in Nat BY ConsoleNumbers
<1>2. PITCH * framebuffer_height \in Nat BY <1>1
<1> QED BY <1>2, ConsoleNumbers DEF SpaceGlyph, Glyphs

(* A pixel of a row on the screen lies in the frame buffer, or before it   *)
(* by as much as its column is before the first.                           *)
LEMMA PixelNear ==
    ASSUME NEW r \in 0 .. framebuffer_height - 1,
           NEW c \in -(2 * glyph_width) .. framebuffer_width - 1
    PROVE  /\ r * PITCH + c \in Int
           /\ r * PITCH + c \in Addresses \/ r * PITCH + c \in -(2 * glyph_width) .. -1
<1>1. r \in Nat /\ framebuffer_height \in Nat /\ r + 1 <= framebuffer_height /\ PITCH \in Nat
  BY ConsoleConstants
<1>2. \A a, b, p \in Nat : a + 1 <= b => a * p + p <= p * b /\ a * p \in Nat
  <2> SUFFICES ASSUME NEW a \in Nat, NEW b \in Nat, NEW p \in Nat, a + 1 <= b
      PROVE  a * p + p <= p * b /\ a * p \in Nat
    OBVIOUS
  <2>1. PICK d \in Nat : b = a + 1 + d
    <3>1. b - a - 1 \in Nat /\ b = a + 1 + (b - a - 1) OBVIOUS
    <3> QED BY <3>1
  <2>2. p * (a + 1 + d) = a * p + p + p * d OBVIOUS
  <2>3. p * d \in Nat /\ a * p \in Nat OBVIOUS
  <2> QED BY <2>1, <2>2, <2>3
<1>3. r * PITCH + PITCH <= PITCH * framebuffer_height /\ r * PITCH \in Nat BY <1>1, <1>2
<1> DEFINE n == r * PITCH  m == PITCH * framebuffer_height
<1>4. n \in Nat /\ m \in Nat /\ n + PITCH <= m BY <1>3, ConsoleConstants
<1>5. Addresses = 0 .. m - 1 BY DEF Addresses
<1> HIDE DEF n, m
<1>6. n + c \in Int /\ (n + c \in 0 .. m - 1 \/ n + c \in -(2 * glyph_width) .. -1)
  BY <1>4, ConsoleConstants
<1> QED BY <1>5, <1>6 DEF n

(* A record of such fields is such a state. *)
LEMMA ConsoleRecord ==
    ASSUME NEW fb \in [Addresses -> Glyphs \cup {Bg}], NEW a \in Int, NEW b \in Int,
           NEW out \in SUBSET (-(2 * glyph_width) .. -1), NEW n \in {0, 1}
    PROVE  LET t == [framebuffer |-> fb, x |-> a, y |-> b, outside |-> out, above |-> n]
           IN  t \in Consoles /\ t.x = a /\ t.y = b /\ t.above = n
BY DEF Consoles

(* The fields of such a state. *)
LEMMA ConsoleFields ==
    ASSUME NEW s \in Consoles
    PROVE  /\ s = [framebuffer |-> s.framebuffer, x |-> s.x, y |-> s.y, outside |-> s.outside,
                   above |-> s.above]
           /\ s.framebuffer \in [Addresses -> Glyphs \cup {Bg}] /\ s.x \in Int /\ s.y \in Int
           /\ s.outside \in SUBSET (-(2 * glyph_width) .. -1) /\ s.above \in {0, 1}
BY DEF Consoles

(* ssfn_putc draws near, and moves the cursor right. *)
LEMMA PutStays ==
    ASSUME NEW s \in Consoles, NEW g \in Glyphs \cup {SpaceGlyph},
           s.x \in -(2 * glyph_width) .. framebuffer_width - glyph_width,
           s.y \in 0 .. framebuffer_height - 1
    PROVE  LET t == ssfn_putc(s, g)
           IN  t \in Consoles /\ t.x = s.x + Advance(g) /\ t.y = s.y /\ t.above = s.above
<1> DEFINE addr(p) == (s.y + p[1]) * PITCH + s.x + p[2]
           pixels == {addr(p) : p \in Drawn(s, g)}
           inked == {addr(p) : p \in {q \in Drawn(s, g) : Ink(g, q[1])}}
           fb == [a \in Addresses |->
                    IF a \in inked THEN g ELSE IF a \in pixels THEN Bg ELSE s.framebuffer[a]]
           out == s.outside \cup (pixels \ Addresses)
           t == ssfn_putc(s, g)
<1>1. t = [s EXCEPT !.framebuffer = fb, !.outside = out, !.x = s.x + Advance(g)]
  BY DEF ssfn_putc, Consoles
<1>2. fb \in [Addresses -> Glyphs \cup {Bg}] BY DEF Consoles, SpaceGlyph
<1>3. ASSUME NEW p \in Drawn(s, g) PROVE addr(p) \in Addresses \/ addr(p) \in -(2 * glyph_width) .. -1
  <2>1. GlyphWidth(g) \in Nat BY ConsoleConstants DEF GlyphWidth
  <2>2. p[1] \in 0 .. glyph_height - 1 /\ p[2] \in 0 .. GlyphWidth(g) - 1 BY DEF Drawn
  <2>3. p[1] \in Nat /\ p[2] \in Nat BY <2>1, <2>2, ConsoleConstants
  <2>4. s.y + p[1] < framebuffer_height /\ s.x + p[2] < framebuffer_width BY DEF Drawn
  <2>5. s.y + p[1] \in 0 .. framebuffer_height - 1
    BY <2>3, <2>4, ConsoleConstants
  <2>6. s.x + p[2] \in -(2 * glyph_width) .. framebuffer_width - 1
    BY <2>3, <2>4, ConsoleConstants
  <2> DEFINE r == s.y + p[1]  c == s.x + p[2]
  <2>7. r * PITCH + c \in Addresses \/ r * PITCH + c \in -(2 * glyph_width) .. -1
    BY <2>5, <2>6, PixelNear
  <2>8. r * PITCH \in Int BY <2>5, ConsoleConstants
  <2>9. addr(p) = r * PITCH + c
    <3> DEFINE n == r * PITCH
    <3>1. n \in Int /\ s.x \in Int /\ p[2] \in Int BY <2>3, <2>8, ConsoleConstants DEF Consoles
    <3>2. addr(p) = n + s.x + p[2] OBVIOUS
    <3> HIDE DEF n
    <3>3. n + s.x + p[2] = n + c BY <3>1
    <3> QED BY <3>2, <3>3 DEF n
  <2> QED BY <2>7, <2>9
<1>4. out \in SUBSET (-(2 * glyph_width) .. -1) BY <1>3 DEF Consoles
<1>5. Advance(g) \in Int BY ConsoleConstants DEF Advance
<1> HIDE DEF fb, out, t
<1>6. t = [framebuffer |-> fb, x |-> s.x + Advance(g), y |-> s.y, outside |-> out,
           above |-> s.above]
  BY <1>1 DEF Consoles
<1>7. s.x + Advance(g) \in Int BY <1>5, ConsoleFields
<1>8. t \in Consoles /\ t.x = s.x + Advance(g) /\ t.y = s.y /\ t.above = s.above
  BY <1>2, <1>4, <1>6, <1>7, ConsoleFields, ConsoleRecord
<1> QED BY <1>8 DEF t

(* The screen that is shifted up is a screen: no pixel is read from below  *)
(* its end.                                                                *)
LEMMA ShiftStays ==
    ASSUME NEW fb \in [Addresses -> Glyphs \cup {Bg}]
    PROVE  term_line_shift_up(fb) \in [Addresses -> Glyphs \cup {Bg}]
<1> SUFFICES ASSUME NEW a \in Addresses, a \div PITCH + glyph_height < framebuffer_height
    PROVE  a + glyph_height * PITCH \in Addresses
  BY DEF term_line_shift_up
<1>1. a \in Nat /\ PITCH \in Nat \ {0} BY ConsoleConstants DEF Addresses
<1> DEFINE i == a \div PITCH  c == a % PITCH
<1>2. i \in Nat /\ c \in 0 .. PITCH - 1 /\ a = PITCH * i + c BY <1>1
<1> HIDE DEF i, c
<1>3. i + glyph_height < framebuffer_height BY DEF i
<1>4. PICK d \in Nat : framebuffer_height = i + glyph_height + 1 + d
  <2>1. framebuffer_height - i - glyph_height - 1 \in Nat BY <1>2, <1>3, ConsoleConstants
  <2>2. framebuffer_height = i + glyph_height + 1 + (framebuffer_height - i - glyph_height - 1)
    BY <1>2, ConsoleConstants
  <2> QED BY <2>1, <2>2
<1>5. PITCH * framebuffer_height = PITCH * i + PITCH * glyph_height + PITCH + PITCH * d
  <2>1. \A p, b, e \in Nat : p * (b + e + 1 + d) = p * b + p * e + p + p * d OBVIOUS
  <2> QED BY <2>1, <1>2, <1>4, ConsoleConstants
<1>6. PITCH * i \in Nat /\ PITCH * glyph_height \in Nat /\ PITCH * d \in Nat
      /\ glyph_height * PITCH = PITCH * glyph_height
  BY <1>2, ConsoleConstants
<1> DEFINE n == PITCH * i  h == PITCH * glyph_height  e == PITCH * d  m == PITCH * framebuffer_height
<1>7. n \in Nat /\ h \in Nat /\ e \in Nat /\ m = n + h + PITCH + e /\ a = n + c
  BY <1>2, <1>5, <1>6
<1>8. Addresses = 0 .. m - 1 /\ glyph_height * PITCH = h BY <1>6 DEF Addresses
<1> HIDE DEF n, h, e, m
<1>9. a + h \in 0 .. m - 1 BY <1>1, <1>2, <1>7
<1> QED BY <1>8, <1>9

(* A new line, from where a glyph may be drawn or the cursor rests. *)
LEMMA LineFeedStays ==
    ASSUME NEW s \in Consoles
    PROVE  LET t == LineFeed(s)
           IN  t \in Consoles /\ t.x = 0 /\ t.y = s.y + glyph_height /\ t.above = 0
<1> DEFINE n == IF s.above = 0 THEN 0 ELSE s.above - 1
           b == s.y + glyph_height
           t == LineFeed(s)
<1>1. n = 0 BY ConsoleFields
<1>2. t = [s EXCEPT !.x = 0, !.y = b, !.above = n] BY DEF LineFeed
<1>3. 0 \in Int /\ b \in Int /\ n \in {0, 1} BY <1>1, ConsoleFields, ConsoleConstants
<1> HIDE DEF n, b, t
<1>4. t = [framebuffer |-> s.framebuffer, x |-> 0, y |-> b, outside |-> s.outside, above |-> n]
  BY <1>2 DEF Consoles
<1>5. t \in Consoles /\ t.x = 0 /\ t.y = b /\ t.above = 0
  BY <1>1, <1>3, <1>4, ConsoleFields, ConsoleRecord
<1> QED BY <1>5 DEF t, b

(* Before a character is printed, the cursor is put where a glyph is on    *)
(* the screen.                                                             *)
LEMMA SettledPlaced == ASSUME NEW s, Resting(s) PROVE Placed(Settled(s))
<1> DEFINE w == Wrapped(s)
<1>1. /\ w \in Consoles /\ w.x \in -glyph_width .. framebuffer_width - glyph_width
      /\ w.y \in Nat /\ w.above = 0 /\ (w.y = 0 \/ w.y >= glyph_height)
  <2>1. CASE Exceeds(s.x + glyph_width, framebuffer_width)
    <3>1. w = LineFeed(s) BY <2>1 DEF Wrapped
    <3>2. w \in Consoles /\ w.x = 0 /\ w.y = s.y + glyph_height /\ w.above = 0
      BY <3>1, LineFeedStays DEF Resting
    <3> HIDE DEF w
    <3> QED BY <3>2, ConsoleConstants DEF Resting
  <2>2. CASE ~Exceeds(s.x + glyph_width, framebuffer_width)
    <3>1. w = s BY <2>2 DEF Wrapped
    <3>2. s.x \in Int /\ s.x + glyph_width >= 0 /\ s.x + glyph_width <= framebuffer_width
      BY <2>2, ConsoleConstants DEF Resting, Consoles, Exceeds
    <3>3. s.above # 1 BY <3>2, ConsoleConstants DEF Resting
    <3>4. s.above = 0 BY <3>3 DEF Resting, Consoles
    <3> HIDE DEF w
    <3> QED BY <3>1, <3>2, <3>4, ConsoleConstants DEF Resting
  <2> QED BY <2>1, <2>2
<1> HIDE DEF w
<1>2. CASE Exceeds(w.y, framebuffer_height - 1)
  <2> DEFINE u == [w EXCEPT !.x = 0, !.y = framebuffer_height - glyph_height,
                            !.framebuffer = term_line_shift_up(w.framebuffer)]
  <2>1. Settled(s) = u BY <1>1, <1>2 DEF Settled, w, Consoles
  <2>2. term_line_shift_up(w.framebuffer) \in [Addresses -> Glyphs \cup {Bg}]
    BY <1>1, ShiftStays DEF Consoles
  <2> DEFINE fb == term_line_shift_up(w.framebuffer)  b == framebuffer_height - glyph_height
  <2>3. fb \in [Addresses -> Glyphs \cup {Bg}] /\ b \in Int /\ 0 \in Int BY <2>2, ConsoleConstants
  <2>4. u = [w EXCEPT !.x = 0, !.y = b, !.framebuffer = fb] OBVIOUS
  <2> HIDE DEF u, fb, b
  <2>5. u = [framebuffer |-> fb, x |-> 0, y |-> b, outside |-> w.outside, above |-> w.above]
    BY <1>1, <2>4 DEF Consoles
  <2>6. u \in Consoles /\ u.x = 0 /\ u.y = b /\ u.above = 0
    BY <1>1, <2>3, <2>5, ConsoleFields, ConsoleRecord
  <2>7. Placed(u) BY <1>1, <2>6, ConsoleConstants DEF Placed, b
  <2> QED BY <2>1, <2>7
<1>3. CASE ~Exceeds(w.y, framebuffer_height - 1)
  <2>1. Settled(s) = w BY <1>3 DEF Settled, w
  <2>2. w.y \in 0 .. framebuffer_height - 1 BY <1>1, <1>3, ConsoleConstants DEF Exceeds
  <2> QED BY <1>1, <2>1, <2>2 DEF Placed
<1> QED BY <1>2, <1>3

(* After a glyph the cursor rests. *)
LEMMA PutRests ==
    ASSUME NEW s, Placed(s), NEW g \in Glyphs \cup {SpaceGlyph} PROVE Resting(ssfn_putc(s, g))
<1> DEFINE t == ssfn_putc(s, g)
<1>1. s \in Consoles /\ s.x \in -(2 * glyph_width) .. framebuffer_width - glyph_width
      /\ s.y \in 0 .. framebuffer_height - 1
  BY ConsoleConstants DEF Placed
<1>2. t \in Consoles /\ t.x = s.x + Advance(g) /\ t.y = s.y /\ t.above = s.above
  BY <1>1, PutStays
<1>3. Advance(g) \in ADVANCE .. ADVANCE + glyph_width BY ConsoleConstants DEF Advance
<1> HIDE DEF t
<1>4. t.x \in 1 - 2 * glyph_width .. framebuffer_width + ADVANCE + glyph_width
  BY <1>2, <1>3, ConsoleConstants DEF Placed
<1>5. t.y \in 0 .. framebuffer_height + glyph_height - 1 BY <1>2, ConsoleConstants DEF Placed
<1>6. t.above = 0 /\ (t.y = 0 \/ t.y >= glyph_height) BY <1>2 DEF Placed
<1>7. Resting(t) BY <1>2, <1>4, <1>5, <1>6 DEF Resting
<1> QED BY <1>7 DEF t

(* A cursor where a glyph may be drawn may rest there, ... *)
LEMMA PlacedRests == ASSUME NEW s, Placed(s) PROVE Resting(s)
BY ConsoleConstants DEF Placed, Resting

(* ... and go on to the next line. *)
LEMMA FeedRests == ASSUME NEW s, Placed(s) PROVE Resting(LineFeed(s))
<1> DEFINE t == LineFeed(s)
<1>1. t \in Consoles /\ t.x = 0 /\ t.y = s.y + glyph_height /\ t.above = 0
  BY LineFeedStays DEF Placed
<1> HIDE DEF t
<1>2. Resting(t) BY <1>1, ConsoleConstants DEF Placed, Resting
<1> QED BY <1>2 DEF t

(* A step left changes x alone. *)
LEMMA LeftStays ==
    ASSUME NEW s \in Consoles
    PROVE  LET t == Left(s)
           IN  t \in Consoles /\ t.x = s.x - glyph_width /\ t.y = s.y /\ t.above = s.above
BY ConsoleConstants DEF Left, Consoles

(* A backspace leaves the cursor at rest: in its line, since the space it  *)
(* draws moves it right by more than glyph_width; or, from the first       *)
(* column, in the line above and too far right for another glyph.          *)
LEMMA BackspaceRests == ASSUME NEW s, Placed(s) PROVE Resting(Backspaced(s))
<1>1. SpaceGlyph \in Glyphs \cup {SpaceGlyph} /\ Advance(SpaceGlyph) = ADVANCE BY ConsoleConstants DEF Advance
<1>2. CASE s.x # 0
  <2> DEFINE l == Left(s)  p == ssfn_putc(l, SpaceGlyph)  t == Left(p)
  <2>1. Backspaced(s) = t BY <1>2 DEF Backspaced
  <2>2. l \in Consoles /\ l.x = s.x - glyph_width /\ l.y = s.y /\ l.above = s.above
    BY LeftStays DEF Placed
  <2> HIDE DEF l
  <2>3. l.x \in -(2 * glyph_width) .. framebuffer_width - glyph_width
        /\ l.y \in 0 .. framebuffer_height - 1
    BY <2>2, ConsoleConstants DEF Placed
  <2>4. p \in Consoles /\ p.x = l.x + ADVANCE /\ p.y = l.y /\ p.above = l.above
    BY <1>1, <2>2, <2>3, PutStays
  <2> HIDE DEF p
  <2>5. t \in Consoles /\ t.x = p.x - glyph_width /\ t.y = p.y /\ t.above = p.above
    BY <2>4, LeftStays
  <2> HIDE DEF t
  <2>6. t.x \in 1 - 2 * glyph_width .. framebuffer_width + ADVANCE + glyph_width
    BY <2>2, <2>4, <2>5, ConsoleConstants DEF Placed
  <2>7. t.y \in 0 .. framebuffer_height + glyph_height - 1
    BY <2>2, <2>4, <2>5, ConsoleConstants DEF Placed
  <2>8. t.above = 0 /\ (t.y = 0 \/ t.y >= glyph_height) BY <2>2, <2>4, <2>5 DEF Placed
  <2>9. Resting(t) BY <2>5, <2>6, <2>7, <2>8 DEF Resting
  <2> QED BY <2>1, <2>9
<1>3. CASE s.x = 0 /\ s.y = 0
  <2>1. Backspaced(s) = s BY <1>3 DEF Backspaced
  <2> QED BY <2>1, PlacedRests
<1>4. CASE s.x = 0 /\ s.y # 0
  <2> DEFINE l == [s EXCEPT !.x = framebuffer_width - glyph_width, !.y = s.y - glyph_height,
                            !.above = s.above + 1]
             p == ssfn_putc(l, SpaceGlyph)
             t == Left(p)
  <2>1. Backspaced(s) = t BY <1>4 DEF Backspaced, Placed, Consoles
  <2>2. /\ l \in Consoles /\ l.x = framebuffer_width - glyph_width
        /\ l.y = s.y - glyph_height /\ l.above = 1
    <3> DEFINE a == framebuffer_width - glyph_width  b == s.y - glyph_height  n == s.above + 1
    <3>1. s \in Consoles /\ a \in Int /\ b \in Int /\ n = 1
      BY ConsoleFields, ConsoleConstants DEF Placed
    <3>2. l = [s EXCEPT !.x = a, !.y = b, !.above = n] OBVIOUS
    <3> HIDE DEF a, b, n, l
    <3>3. l = [framebuffer |-> s.framebuffer, x |-> a, y |-> b, outside |-> s.outside, above |-> n]
      BY <3>1, <3>2 DEF Consoles
    <3>4. n \in {0, 1} BY <3>1
    <3>5. l \in Consoles /\ l.x = a /\ l.y = b /\ l.above = 1
      BY <3>1, <3>3, <3>4, ConsoleFields, ConsoleRecord
    <3> QED BY <3>5 DEF a, b
  <2> HIDE DEF l
  <2>3. l.x \in -(2 * glyph_width) .. framebuffer_width - glyph_width
        /\ l.y \in 0 .. framebuffer_height - 1
    BY <1>4, <2>2, ConsoleConstants DEF Placed
  <2>4. p \in Consoles /\ p.x = l.x + ADVANCE /\ p.y = l.y /\ p.above = l.above
    BY <1>1, <2>2, <2>3, PutStays
  <2> HIDE DEF p
  <2>5. t \in Consoles /\ t.x = p.x - glyph_width /\ t.y = p.y /\ t.above = p.above
    BY <2>4, LeftStays
  <2> HIDE DEF t
  <2>6. t.x = framebuffer_width - 2 * glyph_width + ADVANCE BY <2>2, <2>4, <2>5, ConsoleConstants
  <2>7. t.x \in 1 - 2 * glyph_width .. framebuffer_width + ADVANCE + glyph_width
    BY <2>6, ConsoleConstants
  <2>8. t.y \in 0 .. framebuffer_height + glyph_height - 1 BY <2>3, <2>4, <2>5, ConsoleConstants
  <2>9. t.above = 1 BY <2>2, <2>4, <2>5
  <2>10. Resting(t) BY <2>5, <2>6, <2>7, <2>8, <2>9 DEF Resting
  <2> QED BY <2>1, <2>10
<1> QED BY <1>2, <1>3, <1>4

(* The console begins at rest, ... *)
LEMMA ConsoleInitInv == ConsoleInit => ConsoleInv
<1> SUFFICES ASSUME ConsoleInit PROVE ConsoleInv
  OBVIOUS
<1>1. framebuffer \in [Addresses -> Glyphs \cup {Bg}] BY DEF ConsoleInit
<1>2. now \in Consoles BY <1>1 DEF ConsoleInit, now, Consoles
<1>3. now.x = 0 /\ now.y = 0 /\ now.above = 0 BY DEF ConsoleInit, now
<1>4. Resting(now) BY <1>2, <1>3, ConsoleConstants DEF Resting
<1> QED BY <1>4 DEF ConsoleInv, ConsoleInit

(* ... a step that becomes a state at rest leaves it at rest, ... *)
LEMMA BecomesRests ==
    ASSUME NEW s, Resting(s), Becomes(s) PROVE Resting(now)'
<1>1. s = [framebuffer |-> s.framebuffer, x |-> s.x, y |-> s.y, outside |-> s.outside,
           above |-> s.above]
  BY DEF Resting, Consoles
<1>2. now' = s BY <1>1 DEF Becomes, now
<1> QED BY <1>2 DEF Resting

(* ... and so does every character. *)
LEMMA ConsoleStep == ConsoleInv /\ [ConsoleNext]_console => ConsoleInv'
<1> SUFFICES ASSUME ConsoleInv, [ConsoleNext]_console PROVE ConsoleInv'
  OBVIOUS
<1> DEFINE s == Settled(now)
<1>1. Placed(s) BY SettledPlaced DEF ConsoleInv
<1> HIDE DEF s
<1>2. ASSUME NEW g \in Glyphs \cup {SpaceGlyph}, PrintGlyph(g) PROVE ConsoleInv'
  <2>1. Resting(ssfn_putc(s, g)) BY <1>1, PutRests
  <2>2. Resting(now)' BY <1>2, <2>1, BecomesRests DEF PrintGlyph, s
  <2> QED BY <1>2, <2>2 DEF ConsoleInv, PrintGlyph
<1>3. CASE PrintNothing
  <2>1. Resting(now)' BY <1>1, <1>3, PlacedRests, BecomesRests DEF PrintNothing, s
  <2> QED BY <1>3, <2>1 DEF ConsoleInv, PrintNothing
<1>4. CASE PrintNewline
  <2>1. Resting(now)' BY <1>1, <1>4, FeedRests, BecomesRests DEF PrintNewline, s
  <2> QED BY <1>4, <2>1 DEF ConsoleInv, PrintNewline
<1>5. CASE PrintTab
  <2>1. Resting(now)' BY <1>1, <1>5, PlacedRests, BecomesRests DEF PrintTab, s
  <2> QED BY <1>5, <2>1 DEF ConsoleInv, PrintTab
<1>6. CASE PrintTabSpace
  <2>1. Resting(ssfn_putc(s, SpaceGlyph)) BY <1>1, PutRests
  <2>2. Resting(now)' BY <1>6, <2>1, BecomesRests DEF PrintTabSpace, s
  <2>3. (spaces \in 0 .. 4)' BY <1>6 DEF ConsoleInv, PrintTabSpace
  <2> QED BY <2>2, <2>3 DEF ConsoleInv
<1>7. CASE PrintBackspace
  <2>1. Resting(now)' BY <1>1, <1>7, BackspaceRests, BecomesRests DEF PrintBackspace, s
  <2> QED BY <1>7, <2>1 DEF ConsoleInv, PrintBackspace
<1>8. CASE UNCHANGED console BY <1>8 DEF console, ConsoleInv, Resting, now
<1> QED BY <1>2, <1>3, <1>4, <1>5, <1>6, <1>7, <1>8 DEF ConsoleNext

(* framebuffer.c draws on the screen or a few pixels before it, and        *)
(* backspaces stop at the end of the line above, whatever the sizes of the *)
(* screen and of its glyphs, as long as a glyph advances by more than      *)
(* glyph_width.                                                            *)
THEOREM CursorStaysNear == ConsoleSpec => []CursorNear
<1>1. ConsoleInv => CursorNear
  <2> SUFFICES ASSUME ConsoleInv PROVE CursorNear
    OBVIOUS
  <2>1. /\ now.framebuffer = framebuffer /\ now.x = x /\ now.y = y /\ now.outside = outside
        /\ now.above = above
    BY DEF now
  <2>2. ConsoleTypeOK BY <2>1 DEF ConsoleInv, Resting, Consoles, ConsoleTypeOK
  <2>3. StrayOnlyBefore BY <2>1 DEF ConsoleInv, Resting, Consoles, StrayOnlyBefore
  <2>4. BackspaceNear BY <2>1 DEF ConsoleInv, Resting, Consoles, BackspaceNear
  <2> QED BY <2>2, <2>3, <2>4 DEF CursorNear
<1> QED BY <1>1, ConsoleInitInv, ConsoleStep, PTL DEF ConsoleSpec

-----------------------------------------------------------------------------
(* The pages of cells. *)
Pages == [0 .. ROWS - 1 -> [0 .. COLS - 1 -> Narrow \cup {SpaceGlyph}]]

(* Pixel j of row i of the cell in row r and column c. *)
Spot(r, c, i, j) == (r * glyph_height + i) * PITCH + (c * ADVANCE + j)

(* A picture shows a page when each cell has all pixels of its glyph. *)
Pictures(image, cells) ==
    \A r \in 0 .. ROWS - 1, c \in 0 .. COLS - 1, i \in 0 .. glyph_height - 1, j \in 0 .. glyph_width - 1 :
        image[Spot(r, c, i, j)] = IF Ink(cells[r][c], i) THEN cells[r][c] ELSE Bg

(* The console shows a page, with its cursor at a cell of it, right of a   *)
(* line or at the start of the line below the last.                        *)
At(s, cells, row, col) ==
    /\ cells \in Pages /\ Pictures(s.framebuffer, cells)
    /\ row \in 0 .. ROWS /\ col \in 0 .. COLS /\ (row = ROWS => col = 0)
    /\ s.x = col * ADVANCE /\ s.y = row * glyph_height

(* Page, before a character is printed. *)
WrappedRow(row, col) == IF col = COLS THEN row + 1 ELSE row
MovesUp(row, col) == WrappedRow(row, col) = ROWS
StartRow(row, col) == IF MovesUp(row, col) THEN ROWS - 1 ELSE WrappedRow(row, col)
StartCol(row, col) == IF col = COLS \/ MovesUp(row, col) THEN 0 ELSE col
StartCells(cells, row, col) ==
    IF MovesUp(row, col)
    THEN [r \in 0 .. ROWS - 1 |-> IF r + 1 < ROWS THEN cells[r + 1] ELSE [c \in 0 .. COLS - 1 |-> SpaceGlyph]]
    ELSE cells

(* Read, of any picture. *)
ReadIn(image, r, c) ==
    IF \E g \in Narrow \cup {SpaceGlyph} :
           \A i \in 0 .. glyph_height - 1, j \in 0 .. glyph_width - 1 :
               image[(r * glyph_height + i) * PITCH + (c * ADVANCE + j)] = IF Ink(g, i) THEN g ELSE Bg
    THEN image[(r * glyph_height + TOP) * PITCH + c * ADVANCE]
    ELSE "garbled"

PageInv == ConsoleInv /\ \E cells, row, col : At(now, cells, row, col)

(* The sizes of the page. *)
LEMMA PageNumbers ==
    ASSUME WholeLines
    PROVE  /\ COLS \in Nat /\ COLS >= 1 /\ ROWS \in Nat /\ ROWS >= 2
           /\ ROWS * glyph_height = framebuffer_height
           /\ (COLS - 1) * ADVANCE <= framebuffer_width - glyph_width
           /\ COLS * ADVANCE > framebuffer_width - glyph_width
<1> DEFINE w == framebuffer_width - glyph_width
           q == w \div ADVANCE
           h == framebuffer_height \div glyph_height
<1>1. w \in Nat /\ ADVANCE \in Nat \ {0} /\ framebuffer_height \in Nat /\ glyph_height \in Nat \ {0}
  BY ConsoleConstants
<1>2. q \in Nat /\ w % ADVANCE \in 0 .. ADVANCE - 1 /\ w = ADVANCE * q + (w % ADVANCE)
  <2> HIDE DEF w
  <2> QED BY <1>1
<1>3. h \in Nat /\ framebuffer_height = glyph_height * h
  <2>1. framebuffer_height = glyph_height * h + (framebuffer_height % glyph_height) /\ h \in Nat BY <1>1
  <2> QED BY <1>1, <2>1 DEF WholeLines
<1>4. COLS = q + 1 /\ ROWS = h BY DEF COLS, ROWS
<1> HIDE DEF w, q, h
<1>5. q * ADVANCE = ADVANCE * q /\ (q + 1) * ADVANCE = ADVANCE * q + ADVANCE
      /\ ADVANCE * q \in Nat /\ h * glyph_height = glyph_height * h
  BY <1>1, <1>2, <1>3
<1> DEFINE n == ADVANCE * q
<1>6. n <= w /\ n + ADVANCE > w
  <2>1. n \in Nat /\ w = n + (w % ADVANCE) /\ w % ADVANCE \in 0 .. ADVANCE - 1 BY <1>2, <1>5
  <2> HIDE DEF n
  <2> QED BY <1>1, <2>1
<1>7. h >= 2
  <2> SUFFICES ASSUME h < 2 PROVE FALSE BY <1>3
  <2>1. h = 0 \/ h = 1 BY <1>3
  <2>2. framebuffer_height = 0 \/ framebuffer_height = glyph_height BY <1>1, <1>3, <2>1
  <2> QED BY <2>2, ConsoleConstants
<1>8. COLS \in Nat /\ COLS >= 1 /\ COLS - 1 = q BY <1>2, <1>4
<1>9. (COLS - 1) * ADVANCE <= framebuffer_width - glyph_width BY <1>5, <1>6, <1>8 DEF w
<1>10. COLS * ADVANCE > framebuffer_width - glyph_width BY <1>4, <1>5, <1>6 DEF w
<1>11. ROWS * glyph_height = framebuffer_height BY <1>3, <1>4, <1>5
<1> QED BY <1>3, <1>4, <1>7, <1>8, <1>9, <1>10, <1>11

(* A pixel of a cell is on the screen. *)
LEMMA SpotOnScreen ==
    ASSUME WholeLines, NEW r \in 0 .. ROWS - 1, NEW c \in 0 .. COLS - 1,
           NEW i \in 0 .. glyph_height - 1, NEW j \in 0 .. glyph_width - 1
    PROVE  /\ r * glyph_height + i \in 0 .. framebuffer_height - 1
           /\ c * ADVANCE + j \in 0 .. framebuffer_width - 1
           /\ r * glyph_height \in Nat /\ c * ADVANCE \in Nat
           /\ Spot(r, c, i, j) \in Addresses
           /\ Spot(r, c, i, j) \div PITCH = r * glyph_height + i
           /\ Spot(r, c, i, j) % PITCH = c * ADVANCE + j
<1> DEFINE rr == r * glyph_height + i  cc == c * ADVANCE + j
<1>1. r \in Nat /\ c \in Nat /\ i \in Nat /\ j \in Nat /\ r < ROWS /\ ROWS \in Nat /\ COLS \in Nat
  BY PageNumbers, ConsoleConstants
<1>2. r * glyph_height \in Nat /\ rr \in 0 .. framebuffer_height - 1
  <2> DEFINE m == r * glyph_height  n == ROWS * glyph_height
  <2>1. m \in Nat /\ n \in Nat /\ m + glyph_height <= n BY <1>1, ConsoleConstants, Multiples
  <2>2. n = framebuffer_height BY PageNumbers
  <2> HIDE DEF m, n
  <2>3. m + i \in 0 .. framebuffer_height - 1 BY <2>1, <2>2, ConsoleConstants
  <2> QED BY <2>1, <2>3 DEF m
<1>3. c * ADVANCE \in Nat /\ cc \in 0 .. framebuffer_width - 1
  <2> DEFINE m == c * ADVANCE  n == (COLS - 1) * ADVANCE
  <2>1. m \in Nat /\ n \in Nat /\ m <= n
    <3>1. m \in Nat /\ COLS - 1 \in Nat /\ n \in Nat BY <1>1, ConsoleConstants, PageNumbers
    <3>2. CASE c = COLS - 1 BY <3>1, <3>2
    <3>3. CASE c < COLS - 1
      <4>1. m + ADVANCE <= n BY <1>1, <3>1, <3>3, ConsoleConstants, Multiples
      <4> HIDE DEF m, n
      <4> QED BY <3>1, <4>1, ConsoleConstants
    <3> QED BY <1>1, <3>2, <3>3
  <2>2. n <= framebuffer_width - glyph_width BY PageNumbers
  <2> HIDE DEF m, n
  <2>3. m + j \in 0 .. framebuffer_width - 1 BY <2>1, <2>2, ConsoleConstants
  <2> QED BY <2>1, <2>3 DEF m
<1>4. Spot(r, c, i, j) = rr * PITCH + cc BY DEF Spot
<1> HIDE DEF rr, cc
<1>5. rr \in Nat /\ PITCH \in Nat \ {0} /\ cc \in 0 .. PITCH - 1
  BY <1>2, <1>3, ConsoleConstants
<1>6. (rr * PITCH + cc) \div PITCH = rr /\ (rr * PITCH + cc) % PITCH = cc
  BY <1>5, Recovers
<1>7. rr * PITCH + cc \in Addresses
  <2>1. cc \in -(2 * glyph_width) .. framebuffer_width - 1 BY <1>3, ConsoleConstants
  <2>2. rr * PITCH + cc \in Nat BY <1>5
  <2> QED BY <1>2, <2>1, <2>2, PixelNear
<1> QED BY <1>2, <1>3, <1>4, <1>6, <1>7 DEF rr, cc

(* No two pixels of the cells have the same address. *)
LEMMA SpotsDiffer ==
    ASSUME WholeLines, NEW r \in 0 .. ROWS - 1, NEW c \in 0 .. COLS - 1,
           NEW i \in 0 .. glyph_height - 1, NEW j \in 0 .. glyph_width - 1,
           NEW r2 \in 0 .. ROWS - 1, NEW c2 \in 0 .. COLS - 1,
           NEW i2 \in 0 .. glyph_height - 1, NEW j2 \in 0 .. glyph_width - 1,
           Spot(r, c, i, j) = Spot(r2, c2, i2, j2)
    PROVE  r = r2 /\ c = c2 /\ i = i2 /\ j = j2
<1>1. r * glyph_height + i = r2 * glyph_height + i2 /\ c * ADVANCE + j = c2 * ADVANCE + j2
  <2>1. Spot(r, c, i, j) \div PITCH = r * glyph_height + i
        /\ Spot(r, c, i, j) % PITCH = c * ADVANCE + j
    BY SpotOnScreen
  <2>2. Spot(r2, c2, i2, j2) \div PITCH = r2 * glyph_height + i2
        /\ Spot(r2, c2, i2, j2) % PITCH = c2 * ADVANCE + j2
    BY SpotOnScreen
  <2> QED BY <2>1, <2>2
<1>2. r \in Nat /\ r2 \in Nat /\ c \in Nat /\ c2 \in Nat BY PageNumbers
<1>3. r = r2 /\ i = i2 BY <1>1, <1>2, ConsoleConstants, QuotientRest
<1>4. j \in 0 .. ADVANCE - 1 /\ j2 \in 0 .. ADVANCE - 1 BY ConsoleConstants
<1>5. c = c2 /\ j = j2 BY <1>1, <1>2, <1>4, ConsoleConstants, QuotientRest
<1> QED BY <1>3, <1>5

(* What the cells of a page look like decides what is read off them. *)
LEMMA CellsAreRead ==
    ASSUME WholeLines, NEW image, NEW cells \in Pages, Pictures(image, cells),
           NEW r \in 0 .. ROWS - 1, NEW c \in 0 .. COLS - 1
    PROVE  ReadIn(image, r, c) = cells[r][c]
<1> DEFINE g == cells[r][c]
<1>1. g \in Narrow \cup {SpaceGlyph} BY DEF Pages
<1>2. \A i \in 0 .. glyph_height - 1, j \in 0 .. glyph_width - 1 :
        image[(r * glyph_height + i) * PITCH + (c * ADVANCE + j)] = IF Ink(g, i) THEN g ELSE Bg
  BY DEF Pictures, Spot
<1>3. TOP \in 0 .. glyph_height - 1 /\ 0 \in 0 .. glyph_width - 1 /\ TOP >= TOP
  <2>1. TOP \in Nat /\ TOP < glyph_height BY ConsoleNumbers
  <2> QED BY <2>1, ConsoleConstants
<1>4. c * ADVANCE + 0 = c * ADVANCE
  <2>1. c * ADVANCE \in Nat BY <1>3, SpotOnScreen
  <2> QED BY <2>1
<1>5. image[(r * glyph_height + TOP) * PITCH + c * ADVANCE] = IF Ink(g, TOP) THEN g ELSE Bg
  BY <1>2, <1>3, <1>4
<1>6. (IF Ink(g, TOP) THEN g ELSE Bg) = g BY <1>3 DEF Ink, SpaceGlyph
<1> QED BY <1>1, <1>2, <1>5, <1>6 DEF ReadIn

(* A glyph changes its own cell and no other. *)
LEMMA PutAt ==
    ASSUME WholeLines, NEW s, Placed(s), NEW g \in Narrow \cup {SpaceGlyph},
           NEW cells, NEW row, NEW col, At(s, cells, row, col), row < ROWS, col < COLS
    PROVE  At(ssfn_putc(s, g), [cells EXCEPT ![row][col] = g], row, col + 1)
<1> DEFINE addr(p) == (s.y + p[1]) * PITCH + s.x + p[2]
           pixels == {addr(p) : p \in Drawn(s, g)}
           inked == {addr(p) : p \in {q \in Drawn(s, g) : Ink(g, q[1])}}
           fb == [a \in Addresses |->
                    IF a \in inked THEN g ELSE IF a \in pixels THEN Bg ELSE s.framebuffer[a]]
           after == [cells EXCEPT ![row][col] = g]
           t == ssfn_putc(s, g)
<1>1. row \in 0 .. ROWS - 1 /\ col \in 0 .. COLS - 1 /\ ROWS \in Nat /\ COLS \in Nat
  BY PageNumbers DEF At
<1>2. s \in Consoles /\ s.x \in Int /\ s.y \in Int BY ConsoleFields DEF Placed
<1>3. g \in Glyphs \cup {SpaceGlyph} /\ GlyphWidth(g) = glyph_width /\ Advance(g) = ADVANCE
  BY DEF WholeLines, GlyphWidth, Advance, Glyphs
<1>4. t.framebuffer = fb BY <1>2 DEF ssfn_putc, Consoles
<1>5. t.x = s.x + ADVANCE /\ t.y = s.y
  <2>1. s.x \in -(2 * glyph_width) .. framebuffer_width - glyph_width
        /\ s.y \in 0 .. framebuffer_height - 1
    BY ConsoleConstants DEF Placed
  <2> QED BY <1>2, <1>3, <2>1, PutStays
<1>6. after \in Pages BY <1>1 DEF At, Pages
<1>7. ASSUME NEW p \in Drawn(s, g)
      PROVE  /\ p = <<p[1], p[2]>> /\ p[1] \in 0 .. glyph_height - 1 /\ p[2] \in 0 .. glyph_width - 1
             /\ addr(p) = Spot(row, col, p[1], p[2])
  <2>1. p \in (0 .. glyph_height - 1) \X (0 .. glyph_width - 1) BY <1>3 DEF Drawn
  <2>2. p = <<p[1], p[2]>> /\ p[1] \in 0 .. glyph_height - 1 /\ p[2] \in 0 .. glyph_width - 1
    BY <2>1
  <2> DEFINE k == (s.y + p[1]) * PITCH
  <2>3. k \in Int /\ p[2] \in Int BY <1>2, <2>2, ConsoleConstants
  <2>4. k + s.x + p[2] = k + (s.x + p[2])
    <3> HIDE DEF k
    <3> QED BY <1>2, <2>3
  <2>5. s.x = col * ADVANCE /\ s.y = row * glyph_height BY DEF At
  <2> QED BY <2>2, <2>4, <2>5 DEF Spot
<1>8. ASSUME NEW i \in 0 .. glyph_height - 1, NEW j \in 0 .. glyph_width - 1
      PROVE  <<i, j>> \in Drawn(s, g)
  <2>1. row * glyph_height + i \in 0 .. framebuffer_height - 1
        /\ col * ADVANCE + j \in 0 .. framebuffer_width - 1
    BY <1>1, SpotOnScreen
  <2>2. s.y + i < framebuffer_height /\ s.x + j < framebuffer_width /\ s.x + j >= 0
    BY <2>1, ConsoleConstants DEF At
  <2> DEFINE p == <<i, j>>
  <2>3. p \in (0 .. glyph_height - 1) \X (0 .. GlyphWidth(g) - 1) /\ p[1] = i /\ p[2] = j
    BY <1>3
  <2> QED BY <2>2, <2>3 DEF Drawn
<1>9. ASSUME NEW r \in 0 .. ROWS - 1, NEW c \in 0 .. COLS - 1,
             NEW i \in 0 .. glyph_height - 1, NEW j \in 0 .. glyph_width - 1
      PROVE  fb[Spot(r, c, i, j)] = IF Ink(after[r][c], i) THEN after[r][c] ELSE Bg
  <2> DEFINE a == Spot(r, c, i, j)
  <2>1. a \in Addresses BY SpotOnScreen
  <2>2. fb[a] = IF a \in inked THEN g ELSE IF a \in pixels THEN Bg ELSE s.framebuffer[a]
    BY <2>1
  <2>3. CASE r = row /\ c = col
    <3>1. after[r][c] = g BY <1>1, <2>3 DEF At, Pages
    <3>2. <<i, j>> \in Drawn(s, g) BY <1>8
    <3>3. addr(<<i, j>>) = a
      <4> DEFINE p == <<i, j>>
      <4>1. addr(p) = Spot(row, col, p[1], p[2]) /\ p[1] = i /\ p[2] = j BY <1>7, <3>2
      <4> QED BY <2>3, <4>1
    <3>4. a \in pixels BY <3>2, <3>3
    <3>5. CASE Ink(g, i)
      <4>1. <<i, j>> \in {q \in Drawn(s, g) : Ink(g, q[1])} BY <3>2, <3>5
      <4>2. a \in inked BY <3>3, <4>1
      <4> QED BY <2>2, <3>1, <3>5, <4>2
    <3>6. CASE ~Ink(g, i)
      <4>1. a \notin inked
        <5> SUFFICES ASSUME NEW p \in Drawn(s, g), Ink(g, p[1]), addr(p) = a PROVE FALSE
          OBVIOUS
        <5>1. p[1] = i BY <1>1, <1>7, <2>3, SpotsDiffer
        <5> QED BY <3>6, <5>1
      <4> QED BY <2>2, <3>1, <3>4, <3>6, <4>1
    <3> QED BY <3>5, <3>6
  <2>4. CASE ~(r = row /\ c = col)
    <3>1. after[r][c] = cells[r][c] BY <1>1, <2>4 DEF At, Pages
    <3>2. a \notin pixels
      <4> SUFFICES ASSUME NEW p \in Drawn(s, g), addr(p) = a PROVE FALSE
        OBVIOUS
      <4> QED BY <1>1, <1>7, <2>4, SpotsDiffer
    <3>3. a \notin inked BY <3>2
    <3>4. fb[a] = s.framebuffer[a] BY <2>2, <3>2, <3>3
    <3> QED BY <3>1, <3>4 DEF At, Pictures
  <2> QED BY <2>3, <2>4
<1>10. Pictures(t.framebuffer, after)
  <2> HIDE DEF fb, after, t
  <2> QED BY <1>4, <1>9 DEF Pictures
<1>11. t.x = (col + 1) * ADVANCE /\ t.y = row * glyph_height
  <2>1. (col + 1) * ADVANCE = col * ADVANCE + ADVANCE BY <1>1, ConsoleConstants
  <2> QED BY <1>5, <2>1 DEF At
<1>12. row \in 0 .. ROWS /\ col + 1 \in 0 .. COLS /\ row # ROWS BY <1>1
<1> HIDE DEF fb, after, t
<1>13. At(t, after, row, col + 1) BY <1>6, <1>10, <1>11, <1>12 DEF At
<1> QED BY <1>13 DEF t, after

(* A shift moves every line of cells up by one, and empties the last. *)
LEMMA ShiftMovesUp ==
    ASSUME WholeLines, NEW image, NEW cells \in Pages, Pictures(image, cells)
    PROVE  Pictures(term_line_shift_up(image),
                    [r \in 0 .. ROWS - 1 |->
                        IF r + 1 < ROWS THEN cells[r + 1] ELSE [c \in 0 .. COLS - 1 |-> SpaceGlyph]])
<1> DEFINE empty == [c \in 0 .. COLS - 1 |-> SpaceGlyph]
           after == [r \in 0 .. ROWS - 1 |-> IF r + 1 < ROWS THEN cells[r + 1] ELSE empty]
           fb == term_line_shift_up(image)
<1> SUFFICES ASSUME NEW r \in 0 .. ROWS - 1, NEW c \in 0 .. COLS - 1,
                    NEW i \in 0 .. glyph_height - 1, NEW j \in 0 .. glyph_width - 1
    PROVE  fb[Spot(r, c, i, j)] = IF Ink(after[r][c], i) THEN after[r][c] ELSE Bg
  BY DEF Pictures
<1> DEFINE a == Spot(r, c, i, j)  line == r * glyph_height + i
<1>1. /\ a \in Addresses /\ a \div PITCH = line /\ a % PITCH = c * ADVANCE + j
      /\ c * ADVANCE + j \in 0 .. framebuffer_width - 1
      /\ line \in 0 .. framebuffer_height - 1 /\ r * glyph_height \in Nat
  BY SpotOnScreen
<1>2. ~(a % PITCH >= framebuffer_width) BY <1>1, ConsoleConstants
<1>3. fb[a] = IF line + glyph_height < framebuffer_height THEN image[a + glyph_height * PITCH]
              ELSE IF line >= glyph_height THEN Bg ELSE image[a]
  BY <1>1, <1>2 DEF term_line_shift_up
<1>4. r \in Nat /\ ROWS \in Nat /\ ROWS >= 2 /\ i \in Nat BY PageNumbers, ConsoleConstants
<1>5. CASE r + 1 < ROWS
  <2>1. r + 1 \in 0 .. ROWS - 1 BY <1>4, <1>5
  <2>2. (r + 1) * glyph_height + i = line + glyph_height
    <3> DEFINE m == r * glyph_height
    <3>1. (r + 1) * glyph_height = m + glyph_height /\ m \in Nat BY <1>4, ConsoleConstants
    <3> HIDE DEF m
    <3>2. m + glyph_height + i = m + i + glyph_height BY <1>4, <3>1, ConsoleConstants
    <3> QED BY <3>1, <3>2 DEF m
  <2>3. line + glyph_height < framebuffer_height
    <3>1. (r + 1) * glyph_height + i \in 0 .. framebuffer_height - 1 BY <2>1, SpotOnScreen
    <3> HIDE DEF line
    <3>2. line + glyph_height \in 0 .. framebuffer_height - 1 BY <2>2, <3>1
    <3> QED BY <3>2, ConsoleConstants
  <2>4. Spot(r + 1, c, i, j) = a + glyph_height * PITCH
    <3> DEFINE k == line * PITCH  h == glyph_height * PITCH  l == c * ADVANCE + j
    <3>1. line \in Nat /\ l \in Nat BY <1>1, ConsoleConstants
    <3>2. (line + glyph_height) * PITCH = k + h /\ k \in Nat /\ h \in Nat
      <4> HIDE DEF line
      <4> QED BY <3>1, ConsoleConstants
    <3>3. Spot(r + 1, c, i, j) = k + h + l BY <2>2, <3>2 DEF Spot
    <3>4. a = k + l BY DEF Spot
    <3> HIDE DEF k, h, l, a
    <3>5. k + h + l = (k + l) + h BY <3>1, <3>2
    <3> QED BY <3>3, <3>4, <3>5 DEF h
  <2>5. fb[a] = image[Spot(r + 1, c, i, j)] BY <1>3, <2>3, <2>4
  <2>6. after[r] = cells[r + 1] BY <1>5
  <2>7. image[Spot(r + 1, c, i, j)] = IF Ink(cells[r + 1][c], i) THEN cells[r + 1][c] ELSE Bg
    BY <2>1 DEF Pictures
  <2> HIDE DEF fb, after
  <2> QED BY <2>5, <2>6, <2>7
<1>6. CASE ~(r + 1 < ROWS)
  <2>1. r + 1 = ROWS /\ r >= 1 BY <1>4, <1>6
  <2>2. line + glyph_height >= framebuffer_height /\ line >= glyph_height
    <3> DEFINE m == r * glyph_height
    <3>1. (r + 1) * glyph_height = m + glyph_height /\ m \in Nat BY <1>4, ConsoleConstants
    <3>2. m + glyph_height = framebuffer_height BY <2>1, <3>1, PageNumbers
    <3> HIDE DEF m
    <3>3. m + i + glyph_height >= framebuffer_height /\ m + i >= glyph_height
      BY <1>4, <3>1, <3>2, ConsoleConstants
    <3> QED BY <3>3 DEF m
  <2>3. fb[a] = Bg
    <3> HIDE DEF fb, a
    <3>1. line \in Nat BY <1>1, ConsoleConstants
    <3> HIDE DEF line
    <3>2. ~(line + glyph_height < framebuffer_height) BY <2>2, <3>1, ConsoleConstants
    <3> QED BY <1>3, <2>2, <3>2
  <2>4. after[r][c] = SpaceGlyph BY <1>6
  <2> QED BY <2>3, <2>4 DEF Ink
<1> QED BY <1>5, <1>6

(* Before a character is printed, the console does what Page does. *)
LEMMA SettledAt ==
    ASSUME WholeLines, NEW s, Resting(s), NEW cells, NEW row, NEW col, At(s, cells, row, col)
    PROVE  /\ At(Settled(s), StartCells(cells, row, col), StartRow(row, col), StartCol(row, col))
           /\ StartRow(row, col) < ROWS /\ StartCol(row, col) < COLS
<1> DEFINE w == Wrapped(s)  r == WrappedRow(row, col)  c == IF col = COLS THEN 0 ELSE col
<1>1. /\ row \in 0 .. ROWS /\ col \in 0 .. COLS /\ ROWS \in Nat /\ ROWS >= 2 /\ COLS \in Nat /\ COLS >= 1
      /\ s \in Consoles /\ s.x = col * ADVANCE /\ s.y = row * glyph_height
  BY PageNumbers DEF At, Resting
<1>2. col * ADVANCE \in Nat /\ row * glyph_height \in Nat BY <1>1, ConsoleConstants
<1>3. Exceeds(s.x + glyph_width, framebuffer_width) <=> col = COLS
  <2> DEFINE m == col * ADVANCE  n == (COLS - 1) * ADVANCE
  <2>1. CASE col = COLS
    <3>1. m > framebuffer_width - glyph_width BY <2>1, PageNumbers
    <3> HIDE DEF m
    <3>2. m + glyph_width > framebuffer_width BY <1>2, <3>1, ConsoleConstants DEF m
    <3> QED BY <1>1, <2>1, <3>2 DEF Exceeds, m
  <2>2. CASE col # COLS
    <3>1. m \in Nat /\ n \in Nat /\ m <= n
      <4>1. COLS - 1 \in Nat /\ n \in Nat /\ m \in Nat BY <1>1, ConsoleConstants
      <4>2. CASE col = COLS - 1 BY <4>1, <4>2
      <4>3. CASE col < COLS - 1
        <5>1. m + ADVANCE <= n BY <1>1, <4>1, <4>3, ConsoleConstants, Multiples
        <5> HIDE DEF m, n
        <5> QED BY <4>1, <5>1, ConsoleConstants
      <4> QED BY <1>1, <2>2, <4>2, <4>3
    <3>2. n <= framebuffer_width - glyph_width BY PageNumbers
    <3> HIDE DEF m, n
    <3>3. ~(m + glyph_width < 0) /\ ~(m + glyph_width > framebuffer_width)
      BY <3>1, <3>2, ConsoleConstants
    <3> QED BY <1>1, <2>2, <3>3 DEF Exceeds, m
  <2> QED BY <2>1, <2>2
<1>4. /\ r \in 0 .. ROWS /\ c \in 0 .. COLS - 1 /\ (r = ROWS => c = 0)
  <2>1. CASE col = COLS
    <3>1. row # ROWS BY <1>1, <2>1 DEF At
    <3> QED BY <1>1, <2>1, <3>1 DEF WrappedRow
  <2>2. CASE col # COLS BY <1>1, <2>2 DEF WrappedRow, At
  <2> QED BY <2>1, <2>2
<1>5. w \in Consoles /\ w.framebuffer = s.framebuffer /\ w.x = c * ADVANCE /\ w.y = r * glyph_height
  <2>1. CASE col = COLS
    <3>1. w = LineFeed(s) BY <1>3, <2>1 DEF Wrapped
    <3>2. w \in Consoles /\ w.x = 0 /\ w.y = s.y + glyph_height BY <1>1, <3>1, LineFeedStays
    <3>3. w.framebuffer = s.framebuffer BY <1>1, <3>1 DEF LineFeed, Consoles
    <3>4. 0 * ADVANCE = 0 /\ (row + 1) * glyph_height = row * glyph_height + glyph_height
      BY <1>1, ConsoleConstants
    <3> QED BY <1>1, <2>1, <3>2, <3>3, <3>4 DEF WrappedRow
  <2>2. CASE col # COLS
    <3>1. w = s BY <1>3, <2>2 DEF Wrapped
    <3> QED BY <1>1, <2>2, <3>1 DEF WrappedRow
  <2> QED BY <2>1, <2>2
<1>6. Exceeds(w.y, framebuffer_height - 1) <=> r = ROWS
  <2> DEFINE m == r * glyph_height  n == ROWS * glyph_height
  <2>1. m \in Nat /\ n = framebuffer_height BY <1>4, ConsoleConstants, PageNumbers
  <2>2. CASE r = ROWS
    <3> HIDE DEF r
    <3>1. m = framebuffer_height BY <2>1, <2>2
    <3> HIDE DEF m
    <3> QED BY <1>5, <2>1, <2>2, <3>1, ConsoleConstants DEF Exceeds, m
  <2>3. CASE r # ROWS
    <3>1. r \in Nat /\ r < ROWS BY <1>1, <1>4, <2>3
    <3>2. m + glyph_height <= n
      <4> HIDE DEF r
      <4> QED BY <1>1, <3>1, ConsoleConstants, Multiples
    <3> HIDE DEF m, n, r
    <3>3. ~(m < 0) /\ ~(m > framebuffer_height - 1) BY <2>1, <3>2, ConsoleConstants
    <3> QED BY <1>5, <2>3, <3>3 DEF Exceeds, m
  <2> QED BY <2>2, <2>3
<1>7. cells \in Pages /\ Pictures(s.framebuffer, cells) BY DEF At
<1> HIDE DEF w
<1>8. CASE r = ROWS
  <2> DEFINE b == framebuffer_height - glyph_height
             u == [w EXCEPT !.x = 0, !.y = b, !.framebuffer = term_line_shift_up(w.framebuffer)]
             after == StartCells(cells, row, col)
  <2>1. Settled(s) = u BY <1>5, <1>6, <1>8 DEF Settled, w, Consoles
  <2>2. u.x = 0 /\ u.y = b /\ u.framebuffer = term_line_shift_up(s.framebuffer)
    BY <1>5 DEF Consoles
  <2>3. MovesUp(row, col) BY <1>8 DEF MovesUp
  <2>4. Pictures(u.framebuffer, after) BY <1>7, <2>2, <2>3, ShiftMovesUp DEF StartCells
  <2>5. after \in Pages BY <1>7, <2>3, <1>1 DEF StartCells, Pages
  <2>6. StartRow(row, col) = ROWS - 1 /\ StartCol(row, col) = 0 BY <2>3 DEF StartRow, StartCol
  <2>7. b = (ROWS - 1) * glyph_height /\ 0 * ADVANCE = 0
    <3>1. ROWS * glyph_height = (ROWS - 1) * glyph_height + glyph_height
          /\ (ROWS - 1) * glyph_height \in Nat
      BY <1>1, ConsoleConstants
    <3> DEFINE m == (ROWS - 1) * glyph_height
    <3>2. framebuffer_height = m + glyph_height /\ m \in Nat BY <3>1, PageNumbers
    <3> HIDE DEF m
    <3>3. b = m BY <3>2, ConsoleConstants
    <3>4. 0 * ADVANCE = 0 BY ConsoleConstants
    <3> QED BY <3>3, <3>4 DEF m
  <2>8. ROWS - 1 \in 0 .. ROWS /\ 0 \in 0 .. COLS /\ ROWS - 1 # ROWS /\ ROWS - 1 < ROWS /\ 0 < COLS
    BY <1>1
  <2> HIDE DEF u, after, b
  <2>9. At(u, after, ROWS - 1, 0) BY <2>2, <2>4, <2>5, <2>7, <2>8 DEF At
  <2> QED BY <2>1, <2>6, <2>8, <2>9 DEF after
<1>9. CASE r # ROWS
  <2>1. Settled(s) = w BY <1>6, <1>9 DEF Settled, w
  <2>2. StartCells(cells, row, col) = cells /\ StartRow(row, col) = r /\ StartCol(row, col) = c
    BY <1>9 DEF StartCells, StartRow, StartCol, MovesUp
  <2> HIDE DEF r, c
  <2>3. r < ROWS /\ c < COLS /\ c \in 0 .. COLS BY <1>1, <1>4, <1>9
  <2>4. At(w, cells, r, c) BY <1>4, <1>5, <1>7, <1>9, <2>3 DEF At
  <2> QED BY <2>1, <2>2, <2>3, <2>4
<1> QED BY <1>8, <1>9

(* A new line. *)
LEMMA FeedAt ==
    ASSUME WholeLines, NEW s \in Consoles, NEW cells, NEW row, NEW col, At(s, cells, row, col), row < ROWS
    PROVE  At(LineFeed(s), cells, row + 1, 0)
<1> DEFINE t == LineFeed(s)
<1>1. row \in Nat /\ ROWS \in Nat /\ COLS \in Nat /\ row + 1 \in 0 .. ROWS /\ 0 \in 0 .. COLS
  BY PageNumbers DEF At
<1>2. t.x = 0 /\ t.y = s.y + glyph_height BY LineFeedStays
<1>3. t.framebuffer = s.framebuffer BY DEF LineFeed, Consoles
<1>4. 0 * ADVANCE = 0 /\ (row + 1) * glyph_height = row * glyph_height + glyph_height
  BY <1>1, ConsoleConstants
<1> HIDE DEF t
<1>5. At(t, cells, row + 1, 0) BY <1>1, <1>2, <1>3, <1>4 DEF At
<1> QED BY <1>5 DEF t

(* The console begins with an empty page, ... *)
LEMMA PageInitInv ==
    ASSUME WholeLines, ConsoleInit
    PROVE  PageInv /\ At(now, [r \in 0 .. ROWS - 1 |-> [c \in 0 .. COLS - 1 |-> SpaceGlyph]], 0, 0)
<1> DEFINE empty == [r \in 0 .. ROWS - 1 |-> [c \in 0 .. COLS - 1 |-> SpaceGlyph]]
<1>1. empty \in Pages BY DEF Pages
<1>2. Pictures(framebuffer, empty)
  <2> SUFFICES ASSUME NEW r \in 0 .. ROWS - 1, NEW c \in 0 .. COLS - 1,
                      NEW i \in 0 .. glyph_height - 1, NEW j \in 0 .. glyph_width - 1
      PROVE  framebuffer[Spot(r, c, i, j)] = IF Ink(empty[r][c], i) THEN empty[r][c] ELSE Bg
    BY DEF Pictures
  <2>1. Spot(r, c, i, j) \in Addresses BY SpotOnScreen
  <2>2. empty[r][c] = SpaceGlyph OBVIOUS
  <2> HIDE DEF empty
  <2> QED BY <2>1, <2>2 DEF ConsoleInit, Ink
<1>3. 0 * ADVANCE = 0 /\ 0 * glyph_height = 0 /\ 0 \in 0 .. ROWS /\ 0 \in 0 .. COLS
  BY PageNumbers, ConsoleConstants
<1>4. now.framebuffer = framebuffer /\ now.x = 0 /\ now.y = 0 BY DEF now, ConsoleInit
<1> HIDE DEF empty
<1>5. At(now, empty, 0, 0) BY <1>1, <1>2, <1>3, <1>4 DEF At
<1>6. PageInv BY <1>5, ConsoleInitInv DEF PageInv
<1> QED BY <1>5, <1>6 DEF empty

(* ... and what the step of a character becomes is what is shown. *)
LEMMA BecomesShown ==
    ASSUME NEW s, Resting(s), Becomes(s), NEW cells, NEW row, NEW col, At(s, cells, row, col)
    PROVE  At(now, cells, row, col)'
<1>1. s = [framebuffer |-> s.framebuffer, x |-> s.x, y |-> s.y, outside |-> s.outside,
           above |-> s.above]
  BY DEF Resting, Consoles
<1>2. now' = s BY <1>1 DEF Becomes, now
<1> QED BY <1>2 DEF At, Pictures

(* The page that a state shows is the one that is read off the frame       *)
(* buffer, and the cursor is in the row and column that its place gives.   *)
ReadRow == y \div glyph_height
ReadCol == x \div ADVANCE
ReadCells == [r \in 0 .. ROWS - 1 |-> [c \in 0 .. COLS - 1 |-> Read(r, c)]]

(* What is read from a page is on the screen.                              *)
LEMMA ReadIsShown ==
    ASSUME WholeLines, NEW cells, NEW row, NEW col, At(now, cells, row, col)
    PROVE  ReadCells = cells /\ ReadRow = row /\ ReadCol = col
<1>1. cells \in Pages /\ Pictures(framebuffer, cells) BY DEF At, now
<1>2. ASSUME NEW r \in 0 .. ROWS - 1, NEW c \in 0 .. COLS - 1 PROVE Read(r, c) = cells[r][c]
  <2>1. ReadIn(framebuffer, r, c) = cells[r][c] BY <1>1, CellsAreRead
  <2> QED BY <2>1, Zenon DEF Read, ReadIn, Pixel
<1>3. ReadCells = cells BY <1>1, <1>2 DEF ReadCells, Pages
<1>4. row \in Nat /\ col \in Nat /\ x = col * ADVANCE /\ y = row * glyph_height
  BY PageNumbers DEF At, now
<1>5. 0 \in 0 .. glyph_height - 1 /\ 0 \in 0 .. ADVANCE - 1
      /\ glyph_height \in Nat \ {0} /\ ADVANCE \in Nat \ {0}
  BY ConsoleConstants
<1>6. (row * glyph_height + 0) \div glyph_height = row /\ (col * ADVANCE + 0) \div ADVANCE = col
  BY <1>4, <1>5, Recovers
<1>7. row * glyph_height + 0 = row * glyph_height /\ col * ADVANCE + 0 = col * ADVANCE
  BY <1>4, <1>5
<1>8. ReadRow = row /\ ReadCol = col BY <1>4, <1>6, <1>7 DEF ReadRow, ReadCol
<1> QED BY <1>3, <1>8

(* The same of the state that a step leads to. *)
LEMMA ReadWillBeShown ==
    ASSUME WholeLines, NEW cells, NEW row, NEW col, At(now, cells, row, col)'
    PROVE  ReadCells' = cells /\ ReadRow' = row /\ ReadCol' = col
<1>1. cells \in Pages /\ Pictures(framebuffer', cells) BY DEF At, now, Pictures
<1>2. ASSUME NEW r \in 0 .. ROWS - 1, NEW c \in 0 .. COLS - 1 PROVE Read(r, c)' = cells[r][c]
  <2>1. ReadIn(framebuffer', r, c) = cells[r][c] BY <1>1, CellsAreRead
  <2> QED BY <2>1, Zenon DEF Read, ReadIn, Pixel
<1>3. ReadCells' = cells BY <1>1, <1>2 DEF ReadCells, Pages
<1>4. row \in Nat /\ col \in Nat /\ x' = col * ADVANCE /\ y' = row * glyph_height
  BY PageNumbers DEF At, now
<1>5. 0 \in 0 .. glyph_height - 1 /\ 0 \in 0 .. ADVANCE - 1
      /\ glyph_height \in Nat \ {0} /\ ADVANCE \in Nat \ {0}
  BY ConsoleConstants
<1>6. (row * glyph_height + 0) \div glyph_height = row /\ (col * ADVANCE + 0) \div ADVANCE = col
  BY <1>4, <1>5, Recovers
<1>7. row * glyph_height + 0 = row * glyph_height /\ col * ADVANCE + 0 = col * ADVANCE
  BY <1>4, <1>5
<1>8. ReadRow' = row /\ ReadCol' = col BY <1>4, <1>6, <1>7 DEF ReadRow, ReadCol
<1> QED BY <1>3, <1>8

(* Page starts where the console does. *)
LEMMA PageStarts ==
    ASSUME NEW cells, NEW row, NEW col, ReadCells = cells, ReadRow = row, ReadCol = col
    PROVE  /\ P!Settled = StartCells(cells, row, col)
           /\ P!SettledRow = StartRow(row, col) /\ P!SettledCol = StartCol(row, col)
<1>1. P!Wraps <=> col = COLS BY Zenon DEF P!Wraps, ReadCol
<1>2. P!HomeRow = WrappedRow(row, col) BY <1>1, Zenon DEF P!HomeRow, WrappedRow, ReadRow
<1>3. P!Scrolls <=> MovesUp(row, col) BY <1>2, Zenon DEF P!Scrolls, MovesUp
<1>4. P!Settled = StartCells(cells, row, col)
  <2>1. CASE MovesUp(row, col)
    <3>1. P!Settled = [r \in 0 .. ROWS - 1 |->
                        IF r + 1 < ROWS THEN ReadCells[r + 1] ELSE [c \in 0 .. COLS - 1 |-> SpaceGlyph]]
      BY <1>3, <2>1 DEF P!Settled, P!Blank, ReadCells
    <3> QED BY <2>1, <3>1 DEF StartCells
  <2>2. CASE ~MovesUp(row, col)
    <3>1. P!Settled = ReadCells BY <1>3, <2>2, Zenon DEF P!Settled, ReadCells
    <3> QED BY <2>2, <3>1 DEF StartCells
  <2> QED BY <2>1, <2>2
<1>5. P!SettledRow = StartRow(row, col) BY <1>2, <1>3, Zenon DEF P!SettledRow, StartRow
<1>6. P!SettledCol = StartCol(row, col) BY <1>1, <1>3, Zenon DEF P!SettledCol, StartCol, ReadCol
<1> QED BY <1>4, <1>5, <1>6

(* Every character does to the page what Page says. *)
LEMMA PageStep ==
    ASSUME WholeLines, PageInv, [ConsoleNext]_console
    PROVE  PageInv' /\ ImplementsPage
<1>1. PICK cells, row, col : At(now, cells, row, col) BY DEF PageInv
<1> DEFINE s == Settled(now)
           r == StartRow(row, col)  c == StartCol(row, col)  before == StartCells(cells, row, col)
<1>2. ConsoleInv' BY ConsoleStep DEF PageInv
<1>3. Resting(now) BY DEF PageInv, ConsoleInv
<1>4. Placed(s) /\ At(s, before, r, c) /\ r < ROWS /\ c < COLS
  BY <1>1, <1>3, SettledPlaced, SettledAt
<1>5. P!Settled = before /\ P!SettledRow = r /\ P!SettledCol = c
  BY <1>1, ReadIsShown, PageStarts
<1> HIDE DEF s, r, c, before
<1>6. ASSUME NEW g \in Narrow \cup {SpaceGlyph}, Becomes(ssfn_putc(s, g)) PROVE PageInv' /\ P!Next
  <2> DEFINE after == [before EXCEPT ![r][c] = g]
  <2>1. At(ssfn_putc(s, g), after, r, c + 1) BY <1>4, PutAt
  <2>2. Resting(ssfn_putc(s, g)) BY <1>4, PutRests DEF Glyphs
  <2> HIDE DEF after
  <2>3. At(now, after, r, c + 1)' BY <1>6, <2>1, <2>2, BecomesShown
  <2>4. PageInv' BY <1>2, <2>3 DEF PageInv
  <2>5. ReadCells' = after /\ ReadRow' = r /\ ReadCol' = c + 1 BY <2>3, ReadWillBeShown
  <2>6. P!Type(g) BY <1>5, <2>5, Zenon DEF P!Type, after, ReadCells, ReadRow, ReadCol
  <2> QED BY <2>4, <2>6 DEF P!Next
<1>7. ASSUME Becomes(s) PROVE PageInv' /\ P!Next
  <2>1. Resting(s) BY <1>4, PlacedRests
  <2>2. At(now, before, r, c)' BY <1>4, <1>7, <2>1, BecomesShown
  <2>3. PageInv' BY <1>2, <2>2 DEF PageInv
  <2>4. ReadCells' = before /\ ReadRow' = r /\ ReadCol' = c BY <2>2, ReadWillBeShown
  <2>5. P!Nothing BY <1>5, <2>4, Zenon DEF P!Nothing, ReadCells, ReadRow, ReadCol
  <2> QED BY <2>3, <2>5 DEF P!Next
<1>8. ASSUME Becomes(LineFeed(s)) PROVE PageInv' /\ P!Next
  <2>1. At(LineFeed(s), before, r + 1, 0) BY <1>4, FeedAt DEF Placed
  <2>2. Resting(LineFeed(s)) BY <1>4, FeedRests
  <2>3. At(now, before, r + 1, 0)' BY <1>8, <2>1, <2>2, BecomesShown
  <2>4. PageInv' BY <1>2, <2>3 DEF PageInv
  <2>5. ReadCells' = before /\ ReadRow' = r + 1 /\ ReadCol' = 0 BY <2>3, ReadWillBeShown
  <2>6. P!Newline BY <1>5, <2>5, Zenon DEF P!Newline, ReadCells, ReadRow, ReadCol
  <2> QED BY <2>4, <2>6 DEF P!Next
<1>9. CASE UNCHANGED console
  <2>1. now' = now /\ framebuffer' = framebuffer /\ x' = x /\ y' = y BY <1>9 DEF console, now
  <2>2. At(now, cells, row, col)' BY <1>1, <2>1 DEF At, Pictures
  <2>3. PageInv' BY <1>2, <2>2 DEF PageInv
  <2>4. ReadCells' = ReadCells /\ ReadRow' = ReadRow /\ ReadCol' = ReadCol
    BY <1>1, <2>2, ReadIsShown, ReadWillBeShown
  <2>5. UNCHANGED P!page BY <2>4, Zenon DEF P!page, ReadCells, ReadRow, ReadCol
  <2> QED BY <2>3, <2>5 DEF ImplementsPage
<1>10. CASE ConsoleNext
  <2>1. ASSUME NEW g \in Glyphs \cup {SpaceGlyph}, PrintGlyph(g) PROVE PageInv' /\ P!Next
    <3>1. g \in Narrow \cup {SpaceGlyph} BY DEF WholeLines, Glyphs
    <3> QED BY <1>6, <2>1, <3>1 DEF PrintGlyph, s
  <2>2. ASSUME PrintNothing PROVE PageInv' /\ P!Next BY <1>7, <2>2 DEF PrintNothing, s
  <2>3. ASSUME PrintNewline PROVE PageInv' /\ P!Next BY <1>8, <2>3 DEF PrintNewline, s
  <2>4. ASSUME PrintTab PROVE PageInv' /\ P!Next BY <1>7, <2>4 DEF PrintTab, s
  <2>5. ASSUME PrintTabSpace PROVE PageInv' /\ P!Next BY <1>6, <2>5 DEF PrintTabSpace, s
  <2>6. ~PrintBackspace BY DEF PrintBackspace, WholeLines
  <2> QED BY <1>10, <2>1, <2>2, <2>3, <2>4, <2>5, <2>6 DEF ConsoleNext, ImplementsPage
<1> QED BY <1>9, <1>10

(* term_print_char implements Page: on every frame buffer of whole lines,  *)
(* whatever its pitch and the sizes of its glyphs, a text without          *)
(* backspaces and wide glyphs wraps, scrolls and stands on the screen as   *)
(* on a page of cells, each glyph whole and in its place.                  *)
THEOREM ConsoleShowsPage ==
    ASSUME WholeLines
    PROVE  ConsoleSpec => P!Init /\ [][P!Next]_(P!page)
<1>1. ConsoleInit => P!Init
  <2> SUFFICES ASSUME ConsoleInit PROVE P!Init OBVIOUS
  <2> DEFINE empty == [r \in 0 .. ROWS - 1 |-> [c \in 0 .. COLS - 1 |-> SpaceGlyph]]
  <2>1. At(now, empty, 0, 0) BY PageInitInv
  <2> HIDE DEF empty
  <2>2. ReadCells = empty /\ ReadRow = 0 /\ ReadCol = 0 BY <2>1, ReadIsShown
  <2> QED BY <2>2, Zenon DEF P!Init, P!Blank, empty, ReadCells, ReadRow, ReadCol
<1>2. ConsoleInit => PageInv BY PageInitInv
<1>3. PageInv /\ [ConsoleNext]_console => PageInv' /\ ImplementsPage BY PageStep
<1> QED BY <1>1, <1>2, <1>3, PTL DEF ConsoleSpec, ImplementsPage
=============================================================================
