----------------------------- MODULE MCDevices ------------------------------
(***************************************************************************)
(* The boot with its interrupts, the firmware tables, the I/O APIC, the    *)
(* timers, the disk and the start of the other processors, side by side.   *)
(* These parts share no variable.  So the run looks at them one at a time: *)
(* part says which of them moves, and the others stay in an initial state. *)
(***************************************************************************)
EXTENDS Boot, Acpi, IoApic, Timer, Disk, Smp, SequencesExt

VARIABLE part

-----------------------------------------------------------------------------
(* The firmware tables: a machine in order, with every MADT of up to four  *)
(* entries of two bytes, or of up to three of any length, the last of them *)
(* cut short, ...                                                          *)
Entries == [type : {0, 1, 9, 7}, length : {1, 2}]
Table(sig, sum) == [signature |-> sig, checksum |-> sum]
InOrder == [rsdp_sum |-> 0, revision |-> 0, rsdt_sum |-> 0,
            sdts |-> <<Table("HPET", 0), Table("APIC", 1), Table("APIC", 0), Table("APIC", 0)>>,
            madt |-> <<>>, cut |-> 0]
Madts == BoundedSeq([type : {0, 1, 9, 7}, length : {2}], 4) \cup BoundedSeq(Entries, 3)
             \cup {[k \in 1 .. 7 |-> [type |-> IF k < 7 THEN 2 ELSE 3, length |-> 1]]}
Walks == {[InOrder EXCEPT !.madt = m] : m \in Madts}
             \cup {[InOrder EXCEPT !.madt = m, !.cut = 1] :
                       m \in {n \in BoundedSeq(Entries, 2) : n # <<>> /\ Last(n).length = 2}}

(* ... with an entry of length 0, ...                                      *)
Stuck == {[InOrder EXCEPT !.madt = <<[type |-> 1, length |-> 2], [type |-> t, length |-> 0],
                                     [type |-> 1, length |-> 2]>>] : t \in {0, 7, 9}}

(* ... and machines whose other tables differ.                             *)
Odd == [rsdp_sum : {0, 1}, revision : {0, 2}, rsdt_sum : {0, 1},
        sdts : BoundedSeq({Table("HPET", 0), Table("APIC", 1), Table("APIC", 0)}, 2),
        madt : {<<>>}, cut : {0}]

MCFirmwares == Walks \cup Stuck \cup Odd

(* The I/O APIC: tables that the firmware leaves all masked or open to     *)
(* processor 1; up to two overrides of three lines; a table shorter than   *)
(* the ISA bus, one as long as it, and one with room behind the vectors.   *)
Left(n) == {[p \in 0 .. n - 1 |-> [vector |-> 0, mask |-> TRUE, destination |-> 0]],
            [p \in 0 .. n - 1 |-> [vector |-> p, mask |-> FALSE, destination |-> 1]]}
Overrides == {os \in BoundedSeq([irq : 0 .. 2, gsi : {0, 2, 3}], 2) :
                 Len(os) = 2 => os[1].irq # os[2].irq /\ os[1].gsi # os[2].gsi}
Plain == [entries |-> 3, gsib |-> 0, overrides |-> <<>>,
          firmware |-> [p \in 0 .. 2 |-> [vector |-> 0, mask |-> TRUE, destination |-> 0]]]

MCMachines ==
    [entries : {3}, gsib : {2}, overrides : Overrides, firmware : Left(3)] \cup
    UNION {[entries : {n}, gsib : {0}, overrides : Overrides, firmware : Left(n)] : n \in {2, 3, 7}}

(* The timers: two sleepers, a nap of two ticks and one that wraps.        *)
(* The disk: an address of the second drive, and counts below and above    *)
(* what the drive's register holds.                                        *)
MCTotals == -1 .. 4

-----------------------------------------------------------------------------
MCvars == <<part, boot_vars, acpi, ioapic, timer, disk, vars>>

MCInit ==
    /\ part \in {"boot", "acpi", "ioapic", "timer", "disk", "smp"}
    /\ BootInit
    /\ AcpiInit /\ (part # "acpi" => fw = InOrder)
    /\ IoApicInit /\ (part # "ioapic" => machine = Plain)
    /\ TimerInit /\ (part # "timer" => hpet_on = FALSE /\ main_counter = 0)
    /\ DiskInit
    /\ Init /\ (part # "smp" => boot_cpu = 0)

BootMoves ==
    /\ part = "boot" /\ BootNext
    /\ UNCHANGED <<part, acpi, ioapic, timer, disk, vars>>
AcpiMoves ==
    /\ part = "acpi" /\ AcpiNext
    /\ UNCHANGED <<part, boot_vars, ioapic, timer, disk, vars>>
IoApicMoves ==
    /\ part = "ioapic" /\ IoApicNext
    /\ UNCHANGED <<part, boot_vars, acpi, timer, disk, vars>>
TimerMoves ==
    /\ part = "timer" /\ TimerNext
    /\ UNCHANGED <<part, boot_vars, acpi, ioapic, disk, vars>>
DiskMoves ==
    /\ part = "disk" /\ DiskNext
    /\ UNCHANGED <<part, boot_vars, acpi, ioapic, timer, vars>>
SmpMoves ==
    /\ part = "smp" /\ Next
    /\ UNCHANGED <<part, boot_vars, acpi, ioapic, timer, disk>>

MCNext == BootMoves \/ AcpiMoves \/ IoApicMoves \/ TimerMoves \/ DiskMoves \/ SmpMoves

(* The fairness of the part that moves, as its own module states it. *)
MCSpec ==
    /\ MCInit /\ [][MCNext]_MCvars
    /\ WF_boot_vars(part = "boot" /\ start) /\ WF_boot_vars(part = "boot" /\ Handler)
    /\ \A v \in Vectors : SF_boot_vars(part = "boot" /\ Interrupt(v))
    /\ WF_acpi(part = "acpi" /\ AcpiNext)
    /\ WF_timer(part = "timer" /\ Clock)
    /\ WF_timer(part = "timer" /\ (hpet_init \/ apic_timer_init))
    /\ \A s \in Sleepers : /\ WF_timer(part = "timer" /\ SleepStart(s))
                           /\ SF_timer(part = "timer" /\ SleepEnd(s))
    /\ WF_disk(part = "disk" /\ (DriveReady \/ DriveFails))
    /\ WF_disk(part = "disk" /\ ReadSector) /\ WF_disk(part = "disk" /\ ReadReturns)
    /\ WF_vars(part = "smp" /\ SmpInit) /\ \A c \in Cpus : WF_vars(part = "smp" /\ ApStep(c))

-----------------------------------------------------------------------------
(* Which waits end, and which do not.  The boot comes to its end and every *)
(* interrupt that is accepted is taken, unless one goes wrong; acpi_init   *)
(* ends exactly if the walk meets no entry of length 0; the calibration    *)
(* and every usleep end, unless an interrupt takes their registers; a read *)
(* of the disk ends or waits for ever for a drive with nothing to answer;  *)
(* and smp_init returns exactly if the boot processor comes first in the   *)
(* boot loader's list.                                                     *)
WaitsEnd ==
    /\ part = "boot" => BootEnds /\ Answered
    /\ part = "acpi" => InitEnds
    /\ part = "timer" => CalibrationEnds /\ SleepEnds
    /\ part = "disk" => ReadEnds
    /\ part = "smp" => SmpInitReturns
=============================================================================
