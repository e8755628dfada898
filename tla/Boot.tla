-------------------------------- MODULE Boot --------------------------------
(***************************************************************************)
(* The order of the boot (kernel/src/main.c), and the interrupts that may  *)
(* come in between: what each initialiser does to the interrupt flag, the  *)
(* IDT, the two old interrupt controllers (devices/pic.c), the local APIC  *)
(* (devices/apic.c) and the lines that are open; kprint (klibc/io.c), with *)
(* which nearly all of them begin and end; and the interrupt stubs of      *)
(* idt/idt.asm with their handlers in idt/isr.c.                           *)
(*                                                                         *)
(* The boot loader masks every line of the PICs and of the I/O APIC, and   *)
(* enters the kernel with interrupts off.  The PIT may run.                *)
(*                                                                         *)
(* The stubs save no register.  A handler that has sent its end of         *)
(* interrupt needs none of those that another takes, and neither does the  *)
(* loop that the boot ends in.  Whatever else is interrupted may go wrong. *)
(***************************************************************************)
EXTENDS Integers, Sequences, FiniteSets

CONSTANT MAX_KEYS   \* bound on the keys pressed during the boot

ASSUME BootNumbers == MAX_KEYS \in Nat

TIMER == 32         \* IDT_EXCEPTIONS + TIMER_IRQ
KEYBOARD == 33      \* IDT_EXCEPTIONS + KEYBOARD_IRQ
CLOCK == 40         \* the clock's line, the first of the second PIC

(* _start, as far as interrupts can tell: gdt_init, disk_search_and_init,  *)
(* idt_init, the memory managers and ACPI (which print), apic_init,        *)
(* ioapic_init, ps2_init, hpet_init and apic_timer_init, and, after more   *)
(* printing, init_multitasking.                                            *)
Program ==
    <<"kprint", "load_gdt", "kprint", "kprint", "kprint", "kprint", "load_idt", "kprint",
      "kprint", "remap_pic", "restore", "disable_pic", "enable_lapic", "kprint",
      "kprint", "ioapic_init", "kprint",
      "kprint", "drain", "unmask_keyboard", "kprint",
      "kprint", "apic_timer", "kprint",
      "kprint", "current_task", "kprint", "unmask_timer", "hang">>

VARIABLES
    at,             \* the boot's place in Program
    printing,       \* where it is in kprint: "out", "locked" or "printed"
    intr,           \* the interrupt flag
    idt,            \* the IDT is loaded
    pic,            \* "masked", or "open" from the initialisation words to the old masks
    pic_irr, pic_isr,   \* lines of the PICs waiting, and in service: nobody ends those
    lapic,          \* the local APIC is enabled
    open,           \* vectors whose line is open at the I/O APIC or the local timer
    irr, isr,       \* vectors waiting at the local APIC, and in service
    stack,          \* the handlers running, the innermost last
    current_task,   \* there is one
    spinlock,
    keys,
    stray           \* the interrupt that went wrong: on which line and where, and whether
                    \* by the registers that it took from the boot

boot == <<at, printing>>
pics == <<pic, pic_irr, pic_isr>>
boot_vars == <<boot, intr, idt, pics, lapic, open, irr, isr, stack, current_task, spinlock, keys,
               stray>>

BootInit ==
    /\ at = 1 /\ printing = "out"
    /\ intr = FALSE /\ idt = FALSE
    /\ pic = "masked" /\ pic_irr = {} /\ pic_isr = {}
    /\ lapic = FALSE /\ open = {} /\ irr = {} /\ isr = {}
    /\ stack = <<>>
    /\ current_task = FALSE /\ spinlock = FALSE /\ keys = 0 /\ stray = {}

-----------------------------------------------------------------------------
Frame == stack[Len(stack)]
InFrame(v, here) == stack # <<>> /\ Frame = [vector |-> v, at |-> here] /\ stray = {}
FrameTo(there) == stack' = [stack EXCEPT ![Len(stack)].at = there]

(* An instruction of the boot.  The machine is followed no further once an *)
(* interrupt has gone wrong.                                               *)
Boots(op) == stack = <<>> /\ stray = {} /\ Program[at] = op
Goes == at' = at + 1 /\ UNCHANGED <<printing, irr, isr, stack, spinlock, keys, stray>>

(* A lock that is taken with interrupts on. *)
KprintLockOpen ==
    /\ Boots("kprint") /\ printing = "out" /\ ~spinlock
    /\ spinlock' = TRUE /\ printing' = "locked"
    /\ UNCHANGED <<at, intr, idt, pics, lapic, open, irr, isr, stack, current_task, keys, stray>>

(* kprint: cli and the lock; the text; the unlock and sti. *)
KprintLock ==
    /\ Boots("kprint") /\ printing = "out" /\ ~spinlock
    /\ intr' = FALSE /\ spinlock' = TRUE /\ printing' = "locked"
    /\ UNCHANGED <<at, idt, pics, lapic, open, irr, isr, stack, current_task, keys, stray>>

KprintText ==
    /\ Boots("kprint") /\ printing = "locked"
    /\ printing' = "printed"
    /\ UNCHANGED <<at, intr, idt, pics, lapic, open, irr, isr, stack, current_task, spinlock,
                   keys, stray>>

(* An unlock that is forgotten. *)
KprintUnlockNot ==
    /\ Boots("kprint") /\ printing = "printed"
    /\ intr' = TRUE /\ printing' = "out" /\ at' = at + 1
    /\ UNCHANGED <<idt, pics, lapic, open, irr, isr, stack, current_task, spinlock, keys, stray>>

KprintUnlock ==
    /\ Boots("kprint") /\ printing = "printed"
    /\ spinlock' = FALSE /\ intr' = TRUE /\ printing' = "out" /\ at' = at + 1
    /\ UNCHANGED <<idt, pics, lapic, open, irr, isr, stack, current_task, keys, stray>>

kprint == KprintLock \/ KprintText \/ KprintUnlock

load_gdt ==
    /\ Boots("load_gdt") /\ Goes /\ intr' = TRUE
    /\ UNCHANGED <<idt, pics, lapic, open, current_task>>

load_idt ==
    /\ Boots("load_idt") /\ Goes /\ intr' = TRUE /\ idt' = TRUE
    /\ UNCHANGED <<pics, lapic, open, current_task>>

(* remap_pic: the initialisation words clear the masks and forget what was *)
(* waiting.  From the last of them to the old masks all lines are open.    *)
remap_pic ==
    /\ Boots("remap_pic") /\ Goes
    /\ pic' = "open" /\ pic_irr' = {} /\ pic_isr' = {}
    /\ UNCHANGED <<intr, idt, lapic, open, current_task>>

restore ==
    /\ Boots("restore") /\ Goes
    /\ pic' = "masked"
    /\ UNCHANGED <<intr, idt, pic_irr, pic_isr, lapic, open, current_task>>

disable_pic ==
    /\ Boots("disable_pic") /\ Goes /\ pic' = "masked"
    /\ UNCHANGED <<intr, idt, pic_irr, pic_isr, lapic, open, current_task>>

enable_lapic ==
    /\ Boots("enable_lapic") /\ Goes /\ lapic' = TRUE
    /\ UNCHANGED <<intr, idt, pics, open, current_task>>

(* ioapic_init: every line masked, and the vectors written: module IoApic. *)
mask_lines ==
    /\ Boots("ioapic_init") /\ Goes /\ open' = {}
    /\ UNCHANGED <<intr, idt, pics, lapic, current_task>>

(* ps2_init empties the controller and starts the scanning: module Ps2. *)
drain ==
    /\ Boots("drain") /\ Goes
    /\ UNCHANGED <<intr, idt, pics, lapic, open, current_task>>

unmask(op, v) ==
    /\ Boots(op) /\ Goes /\ open' = open \cup {v}
    /\ UNCHANGED <<intr, idt, pics, lapic, current_task>>

(* apic_timer_init: mask_irq(0), then the periodic mode: module Timer. *)
mask_timer ==
    /\ Boots("apic_timer") /\ Goes /\ open' = open \ {TIMER}
    /\ UNCHANGED <<intr, idt, pics, lapic, current_task>>

(* init_multitasking: its task, which is the boot itself. *)
init_multitasking ==
    /\ Boots("current_task") /\ Goes /\ current_task' = TRUE
    /\ UNCHANGED <<intr, idt, pics, lapic, open>>

start ==
    \/ kprint \/ load_gdt \/ load_idt \/ remap_pic \/ restore \/ disable_pic \/ enable_lapic
    \/ mask_lines \/ drain \/ unmask("unmask_keyboard", KEYBOARD) \/ mask_timer
    \/ init_multitasking \/ unmask("unmask_timer", TIMER)

-----------------------------------------------------------------------------
(* A line rises.  Where it is masked, nobody remembers it. *)
Edge(v) ==
    /\ stray = {}
    /\ v = KEYBOARD => keys < MAX_KEYS
    /\ keys' = IF v = KEYBOARD THEN keys + 1 ELSE keys
    /\ pic_irr' = IF pic = "open" THEN pic_irr \cup {v} ELSE pic_irr
    /\ irr' = IF lapic /\ v \in open THEN irr \cup {v} ELSE irr
    /\ pic_irr' # pic_irr \/ irr' # irr
    /\ UNCHANGED <<boot, intr, idt, pic, pic_isr, lapic, open, isr, stack, current_task, spinlock,
                   stray>>

Wrong(v, lost) == [vector |-> v, at |-> Program[at], lost |-> lost]

(* The processor takes an interrupt, with interrupts off.  It goes wrong   *)
(* without an IDT, and through an entry that idt_init filled from behind   *)
(* the 32 stubs.                                                           *)
Takes(v) ==
    /\ intr /\ stray = {}
    /\ intr' = FALSE
    /\ stack' = Append(stack, [vector |-> v, at |-> "entry"])
    /\ stray' = IF ~idt \/ v \notin {TIMER, KEYBOARD} THEN {Wrong(v, FALSE)} ELSE {}
    /\ UNCHANGED <<boot, idt, pic, lapic, open, current_task, spinlock, keys>>

(* From a PIC: lines before the lowest that is in service. *)
PicInterrupt(v) ==
    /\ pic = "open" /\ v \in pic_irr /\ \A w \in pic_isr : v < w
    /\ pic_irr' = pic_irr \ {v} /\ pic_isr' = pic_isr \cup {v}
    /\ Takes(v)
    /\ UNCHANGED <<irr, isr>>

(* From the local APIC: a vector of a higher class than those in service. *)
Interrupt(v) ==
    /\ v \in irr /\ \A w \in isr : v \div 16 > w \div 16
    /\ irr' = irr \ {v} /\ isr' = isr \cup {v}
    /\ Takes(v)
    /\ UNCHANGED <<pic_irr, pic_isr>>

(* A write to APIC_EOI_REG ends the highest vector in service. *)
Eoi == isr' = {v \in isr : \E w \in isr : v < w}

(* timer_irq_handler. *)
TimerEoi ==
    /\ InFrame(TIMER, "entry") /\ Eoi /\ FrameTo("handler")
    /\ UNCHANGED <<boot, intr, idt, pics, lapic, open, irr, current_task, spinlock, keys, stray>>

TimerCount ==
    /\ InFrame(TIMER, "handler") /\ FrameTo("iret")
    /\ stray' = IF current_task THEN {} ELSE {Wrong(TIMER, FALSE)}
    /\ UNCHANGED <<boot, intr, idt, pics, lapic, open, irr, isr, current_task, spinlock, keys>>

(* keyboard_handler, which prints a character or not. *)
KeyboardQuiet ==
    /\ InFrame(KEYBOARD, "entry") /\ FrameTo("eoi")
    /\ UNCHANGED <<boot, intr, idt, pics, lapic, open, irr, isr, current_task, spinlock, keys,
                   stray>>

KeyboardLock ==
    /\ InFrame(KEYBOARD, "entry") /\ ~spinlock /\ FrameTo("print")
    /\ intr' = FALSE /\ spinlock' = TRUE
    /\ UNCHANGED <<boot, idt, pics, lapic, open, irr, isr, current_task, keys, stray>>

KeyboardUnlock ==
    /\ InFrame(KEYBOARD, "print") /\ FrameTo("eoi")
    /\ intr' = TRUE /\ spinlock' = FALSE
    /\ UNCHANGED <<boot, idt, pics, lapic, open, irr, isr, current_task, keys, stray>>

KeyboardEoi ==
    /\ InFrame(KEYBOARD, "eoi") /\ Eoi /\ FrameTo("iret")
    /\ UNCHANGED <<boot, intr, idt, pics, lapic, open, irr, current_task, spinlock, keys, stray>>

(* sti and iretq: sti takes effect after the instruction that follows it.  *)
(* What has been interrupted goes on unharmed or not.                      *)
Live == Len(stack) = 1 /\ Program[at] # "hang"

Return ==
    /\ stack # <<>> /\ Frame.at = "iret" /\ stray = {}
    /\ stack' = SubSeq(stack, 1, Len(stack) - 1)
    /\ intr' = TRUE
    /\ stray' = {} \/ (Live /\ stray' = {Wrong(Frame.vector, TRUE)})
    /\ UNCHANGED <<boot, idt, pics, lapic, open, irr, isr, current_task, spinlock, keys>>

Handler ==
    \/ TimerEoi \/ TimerCount
    \/ KeyboardQuiet \/ KeyboardLock \/ KeyboardUnlock \/ KeyboardEoi \/ Return

Vectors == {TIMER, KEYBOARD, CLOCK}

BootNext ==
    \/ start \/ Handler
    \/ \E v \in Vectors : Edge(v) \/ PicInterrupt(v) \/ Interrupt(v)

(* The processor runs; an interrupt that waits is taken when it can be. *)
BootSpec ==
    /\ BootInit /\ [][BootNext]_boot_vars
    /\ WF_boot_vars(start) /\ WF_boot_vars(Handler)
    /\ \A v \in Vectors : SF_boot_vars(Interrupt(v))

-----------------------------------------------------------------------------
(* Types of the boot and its interrupts; only vectors that some init       *)
(* function has opened are waiting or in service at the local APIC.        *)
BootTypeOK ==
    /\ at \in 1 .. Len(Program) /\ printing \in {"out", "locked", "printed"}
    /\ {intr, idt, lapic, current_task, spinlock} \subseteq BOOLEAN
    /\ pic \in {"masked", "open"} /\ pic_irr \subseteq Vectors /\ pic_isr \subseteq Vectors
    /\ open \subseteq {TIMER, KEYBOARD} /\ irr \subseteq open /\ isr \subseteq open
    /\ stack \in Seq([vector : Vectors, at : {"entry", "handler", "print", "eoi", "iret"}])
    /\ keys \in 0 .. MAX_KEYS

(* The only interrupts that find no handler, or no task to count down, are *)
(* those that a PIC sends while remap_pic has it open: kprint has turned   *)
(* interrupts on before there is an IDT, and everything else that could    *)
(* interrupt is opened only when its handler can run.  Besides, those of   *)
(* the keyboard may take registers of the boot, from the opening of its    *)
(* line to the end; those of the timer come too late for that.             *)
StrayOnlyIf ==
    \A i \in stray :
        i.at = "restore" \/ (i.lost /\ i.vector \in open \ {TIMER} /\ i.at # "hang")

(* An interrupt interrupts only handlers of the keyboard that have sent    *)
(* their end of interrupt: until then the priority class keeps the others  *)
(* out, although kprint has turned interrupts on.                          *)
NestedOnlyAfterEoi ==
    \A i \in 1 .. Len(stack) - 1 :
        pic_isr = {} => stack[i].vector = KEYBOARD /\ stack[i].at = "iret"

(* A handler of the local APIC that has not sent its end of interrupt is   *)
(* in service, and nothing else is.                                        *)
InServiceExact ==
    pic_isr = {} =>
        isr = {stack[i].vector : i \in {j \in 1 .. Len(stack) :
                   stack[j].at \notin {"iret", IF stack[j].vector = TIMER THEN "handler" ELSE ""}}}

(* The handler of the keyboard never waits for a lock that the code it has *)
(* interrupted holds.                                                      *)
LockFreeInHandler == stack # <<>> /\ Frame.at = "entry" => ~spinlock

(* main.c, idt.asm, isr.c, pic.c: only an interrupt that a PIC sends while *)
(* remap_pic has it open finds no handler or no task, and only one of the  *)
(* keyboard takes the registers of the boot; handlers nest only behind     *)
(* their end of interrupt; what is in service at the local APIC is what    *)
(* has not ended; and no handler waits for the lock of the code that it    *)
(* has interrupted.                                                        *)
InterruptsHandled ==
    BootTypeOK /\ StrayOnlyIf /\ NestedOnlyAfterEoi /\ InServiceExact /\ LockFreeInHandler

(* The boot gets to its end, unless an interrupt goes wrong, which it may  *)
(* do only as stated above.                                                *)
BootEnds == <>(Program[at] = "hang" \/ stray # {})

(* Every interrupt that the local APIC has accepted is taken. *)
Answered == \A v \in Vectors : v \in irr ~> v \notin irr \/ stray # {}
=============================================================================
