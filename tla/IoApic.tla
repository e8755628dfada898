------------------------------- MODULE IoApic -------------------------------
(***************************************************************************)
(* The I/O APIC, kernel/src/devices/ioapic.c: the redirection table, the   *)
(* interrupt source overrides of the MADT, and masking by IRQ number.      *)
(*                                                                         *)
(* A redirection entry is two registers behind a select register and a     *)
(* window.  No interrupt handler uses them, so that an access is one step. *)
(* read_redtbl_entry shifts the upper register by 31 in 32 bits, which     *)
(* drops all of it but its lowest bit, a reserved one: what the callers    *)
(* get is the lower register, and what they write to the upper one is 0.   *)
(***************************************************************************)
EXTENDS Integers, Sequences, FiniteSetsExt

CONSTANTS
    Machines,       \* records of entries, gsib, overrides (irq and gsi), firmware's table
    NUM_OF_IRQ,     \* lines of the ISA bus
    IDT_EXCEPTIONS  \* the vector of IRQ 0

TIMER_IRQ == 0
KEYBOARD_IRQ == 1
ISA == 0 .. NUM_OF_IRQ - 1

Entry == [vector : Nat, mask : BOOLEAN, destination : Nat]

(* The entries that calc_redtbl_offset reaches in its 8 bits. *)
REACH == 120

(* An override is for a line of the ISA bus, at most one is for each line, *)
(* and no two lines are on one pin.  Vectors have 8 bits.                  *)
ASSUME IoApicNumbers ==
    /\ NUM_OF_IRQ \in Nat \ {0, 1} /\ IDT_EXCEPTIONS \in Nat /\ IDT_EXCEPTIONS >= NUM_OF_IRQ
    /\ IDT_EXCEPTIONS + NUM_OF_IRQ <= 256
    /\ \A m \in Machines :
           /\ m.entries \in 1 .. REACH /\ m.gsib \in Nat
           /\ m.firmware \in [0 .. m.entries - 1 -> Entry]
           /\ m.overrides \in Seq([irq : ISA, gsi : 0 .. REACH - 1])
           /\ \A i, j \in 1 .. Len(m.overrides) :
                  i # j => /\ m.overrides[i].irq # m.overrides[j].irq
                           /\ m.overrides[i].gsi # m.overrides[j].gsi

VARIABLES
    machine,
    max_redirection_entry,
    redtbl,         \* the redirection table
    lvt_masked,     \* the mask bit of the local timer
    ioapic_up,      \* ioapic_init is done
    unmasked        \* ghost: the IRQ numbers last unmasked

ioapic == <<machine, max_redirection_entry, redtbl, lvt_masked, ioapic_up, unmasked>>

Pins == DOMAIN redtbl

-----------------------------------------------------------------------------
(* The overrides of an IRQ, and those for a pin. *)
OfIrq(irq) == {k \in 1 .. Len(machine.overrides) : machine.overrides[k].irq = irq}
OfGsi(gsi) == {k \in 1 .. Len(machine.overrides) : machine.overrides[k].gsi = gsi}

(* What is left in an entry. *)
map_redtbl_entry(vector) ==
    [vector |-> vector + IDT_EXCEPTIONS, mask |-> TRUE, destination |-> 0]

(* mask_gsi and unmask_gsi on a set of entries. *)
mask_gsi(gsis) ==
    [p \in Pins |-> IF p \in gsis /\ p <= max_redirection_entry
                    THEN [redtbl[p] EXCEPT !.mask = TRUE] ELSE redtbl[p]]

unmask_gsi(gsis) ==
    [p \in Pins |-> IF p \in gsis /\ p <= max_redirection_entry
                    THEN [redtbl[p] EXCEPT !.mask = FALSE] ELSE redtbl[p]]

(* The entry that mask_irq and unmask_irq act on, without the overrides. *)
GsiIdentity(irq) == irq

(* The entry that mask_irq and unmask_irq act on: of IRQ 0 the entry 0,    *)
(* next to the local timer; of another the first override's, or its own.   *)
GsiOf(irq) ==
    IF irq = TIMER_IRQ \/ OfIrq(irq) = {} THEN irq ELSE machine.overrides[Min(OfIrq(irq))].gsi

-----------------------------------------------------------------------------
IoApicInit ==
    /\ machine \in Machines
    /\ max_redirection_entry = 0
    /\ redtbl = machine.firmware
    /\ lvt_masked = TRUE                    \* after the reset of the local APIC
    /\ ioapic_up = FALSE
    /\ unmasked = {}

MaskAll(r) == [p \in DOMAIN r |-> [r[p] EXCEPT !.mask = TRUE]]

(* The overrides in their order: the last for a pin stays.  Registers that *)
(* the I/O APIC does not have ignore what is written.                      *)
MapOverrides(r) ==
    [p \in DOMAIN r |->
        IF OfGsi(p) = {} THEN r[p] ELSE map_redtbl_entry(machine.overrides[Max(OfGsi(p))].irq)]

(* Then its own entry for each ISA line, which irq_map spares if it is an  *)
(* override's.                                                             *)
MapIdentity(r) ==
    [p \in DOMAIN r |-> IF p \in ISA /\ OfGsi(p) = {} THEN map_redtbl_entry(p) ELSE r[p]]

ioapic_init ==
    /\ ~ ioapic_up
    /\ max_redirection_entry' = machine.entries - 1
    /\ redtbl' = MapIdentity(MapOverrides(MaskAll(redtbl)))
    /\ ioapic_up' = TRUE
    /\ UNCHANGED <<machine, lvt_masked, unmasked>>

(* mask_irq and unmask_irq on a set of IRQ numbers. *)
MaskIrqs(irqs) ==
    /\ redtbl' = mask_gsi({GsiOf(i) : i \in irqs})
    /\ lvt_masked' = (lvt_masked \/ TIMER_IRQ \in irqs)
    /\ unmasked' = unmasked \ irqs
    /\ UNCHANGED <<machine, max_redirection_entry, ioapic_up>>

UnmaskIrqs(irqs) ==
    /\ redtbl' = unmask_gsi({GsiOf(i) : i \in irqs})
    /\ lvt_masked' = (lvt_masked /\ TIMER_IRQ \notin irqs)
    /\ unmasked' = unmasked \cup irqs
    /\ UNCHANGED <<machine, max_redirection_entry, ioapic_up>>

mask_irq(irq) == MaskIrqs({irq})
unmask_irq(irq) == UnmaskIrqs({irq})

(* The vectors of the ISA lines, which mask_all_irq takes for their IRQs. *)
AllVectors == IDT_EXCEPTIONS .. IDT_EXCEPTIONS + NUM_OF_IRQ - 1
mask_all_irq == MaskIrqs(AllVectors)
unmask_all_irq == UnmaskIrqs(AllVectors)

IoApicNext ==
    \/ ioapic_init
    \/ ioapic_up /\ \E irq \in ISA : mask_irq(irq) \/ unmask_irq(irq)
    \/ ioapic_up /\ (mask_all_irq \/ unmask_all_irq)

IoApicSpec == IoApicInit /\ [][IoApicNext]_ioapic

-----------------------------------------------------------------------------
(* Any number that some call takes for an IRQ. *)
Irqs == ISA \cup AllVectors

(* Types of ioapic.c: the last entry that ioapic_init works out is one of  *)
(* the table's, so that mask_gsi and unmask_gsi write no other.            *)
IoApicTypeOK ==
    /\ machine \in Machines
    /\ max_redirection_entry \in 0 .. machine.entries - 1
    /\ redtbl \in [0 .. machine.entries - 1 -> Entry]
    /\ lvt_masked \in BOOLEAN /\ ioapic_up \in BOOLEAN
    /\ unmasked \subseteq Irqs

(* The pin that the line of an IRQ is wired to. *)
Pin(irq) ==
    (IF OfIrq(irq) = {} THEN irq ELSE machine.overrides[Min(OfIrq(irq))].gsi) - machine.gsib

(* ioapic_init: the pin of each ISA line carries the line's own vector to  *)
(* processor 0, and a line without an override keeps its pin unless an     *)
(* override has taken it.  The code uses global interrupt numbers as       *)
(* entries, which holds for an I/O APIC whose first is 0.                  *)
IrqRouted ==
    ioapic_up /\ machine.gsib = 0 =>
        \A irq \in ISA :
            Pin(irq) \in Pins /\ (OfIrq(irq) # {} \/ \A j \in ISA \ {irq} : Pin(j) # Pin(irq))
                => /\ redtbl[Pin(irq)].vector = IDT_EXCEPTIONS + irq
                   /\ redtbl[Pin(irq)].destination = 0

(* The entry that a call for an IRQ should reach: entry 0 stands for IRQ 0 *)
(* wherever its line is.                                                   *)
Meant(irq) == IF irq = TIMER_IRQ THEN 0 ELSE Pin(irq)

(* An entry of the table is open exactly when the last call for the line   *)
(* on its pin unmasked it, unless calls for two IRQs mean one entry; the   *)
(* local timer is open exactly when the last call for IRQ 0 unmasked it.   *)
OpenPins ==
    /\ lvt_masked <=> TIMER_IRQ \notin unmasked
    /\ ioapic_up /\ machine.gsib = 0 /\ (\A i, j \in Irqs : Meant(i) = Meant(j) => i = j)
           => {p \in Pins : ~ redtbl[p].mask} = {Meant(i) : i \in unmasked} \cap Pins

(* mask_all_irq and unmask_all_irq take vectors for IRQs: no call of them  *)
(* changes the mask of an entry that an ISA line has, unless an override   *)
(* is for an IRQ of that number.                                           *)
AllMissesIsa ==
    (mask_all_irq \/ unmask_all_irq) /\ ioapic_up =>
       \A irq \in ISA : GsiOf(irq) \in Pins /\ GsiOf(irq) < IDT_EXCEPTIONS
           => redtbl'[GsiOf(irq)].mask = redtbl[GsiOf(irq)].mask

(* ioapic.c: every ISA line has its vector on the pin it is wired to, an   *)
(* entry is open exactly if its IRQ was last unmasked, and the calls for   *)
(* all lines, which take vectors for IRQs, miss the ISA lines.             *)
LinesRouted == [](IoApicTypeOK /\ IrqRouted /\ OpenPins) /\ [][AllMissesIsa]_ioapic
=============================================================================
