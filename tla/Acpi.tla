-------------------------------- MODULE Acpi --------------------------------
(***************************************************************************)
(* The firmware tables, kernel/src/firmware/acpi.c: acpi_init checks the   *)
(* RSDP and the RSDT, acpi_find_sdt_tbl looks a table up by signature, and *)
(* madt_init sorts the entries of the MADT into seven arrays that malloc   *)
(* provides.                                                               *)
(*                                                                         *)
(* The arrays are the first blocks of a new heap.  Their places follow     *)
(* from klibc/alloc.c and klibc/bitmap.c (module Heap): the second array   *)
(* of a pair lies one stride behind the first, the next pair four strides, *)
(* and the stride is LONG_BYTES times the size that was asked for.         *)
(***************************************************************************)
EXTENDS Integers, Sequences, FiniteSetsExt

CONSTANTS
    Firmwares,      \* what the firmware may present
    ROOM,           \* pointers that ACPI_APIC_TBL_SIZE bytes hold
    LONG_BYTES,     \* the stride of malloc's result over the size asked for
    None            \* a slot that was never written

(* A MADT has bytes of its last entry, whatever its header cuts off. *)
ASSUME AcpiNumbers ==
    /\ {ROOM, LONG_BYTES} \subseteq Nat \ {0}
    /\ \A f \in Firmwares :
           /\ {f.rsdp_sum, f.revision, f.rsdt_sum, f.cut} \subseteq Nat
           /\ f.sdts \in Seq([signature : STRING, checksum : Nat])
           /\ f.madt \in Seq([type : Nat, length : Nat])
           /\ IF f.madt = <<>> THEN f.cut = 0 ELSE f.cut < f.madt[Len(f.madt)].length

PROCESSOR_LOCAL_APIC == 0
IO_APIC == 1
IO_APIC_INTERRUPT_SRC_OVERRIDE == 2
IO_APIC_NMI_SRC == 3
LOCAL_APIC_NMI == 4
LOCAL_APIC_ADDR_OVERRIDE == 5
PROCESSOR_LOCAL_X2_APIC == 9
Types == {PROCESSOR_LOCAL_APIC, IO_APIC, IO_APIC_INTERRUPT_SRC_OVERRIDE, IO_APIC_NMI_SRC,
          LOCAL_APIC_NMI, LOCAL_APIC_ADDR_OVERRIDE, PROCESSOR_LOCAL_X2_APIC}

Stride == ROOM * LONG_BYTES
Slots == 0 .. 16 * Stride - 1

VARIABLES
    fw,             \* the firmware of this machine
    acpi_pc,             \* "init", "madt", "walk", "done", "panic", "fault"
    acpi_version_2,
    madt,           \* the place of the MADT among the tables, 0: none
    ptr,            \* the entry of the MADT that the walk looks at
    idx,            \* the length of each array
    slots           \* the memory of the seven arrays: the entry in each slot

acpi == <<fw, acpi_pc, acpi_version_2, madt, ptr, idx, slots>>

-----------------------------------------------------------------------------
(* The MADT: the offset of an entry, and the end that the header gives. *)
Offset(k) ==
    LET sum[n \in 0 .. Len(fw.madt)] == IF n = 0 THEN 0 ELSE sum[n - 1] + fw.madt[n].length
    IN  sum[k - 1]
MadtEnd == Offset(Len(fw.madt) + 1) - fw.cut
EntryAt(offset) == CHOOSE k \in 1 .. Len(fw.madt) : /\ Offset(k) = offset
                                                    /\ \A j \in 1 .. k - 1 : Offset(j) # offset

(* The first table of the signature with a good checksum, or 0. *)
acpi_find_sdt_tbl(sig) ==
    LET found == {i \in 1 .. Len(fw.sdts) : fw.sdts[i].signature = sig /\ fw.sdts[i].checksum = 0}
    IN  IF found = {} THEN 0 ELSE Min(found)

(* The seven arrays as a heap with plain addresses places them. *)
PlacePlain(type) ==
    ROOM * CASE type = PROCESSOR_LOCAL_APIC           -> 0
             [] type = IO_APIC                        -> 1
             [] type = IO_APIC_INTERRUPT_SRC_OVERRIDE -> 4
             [] type = IO_APIC_NMI_SRC                -> 5
             [] type = LOCAL_APIC_NMI                 -> 8
             [] type = LOCAL_APIC_ADDR_OVERRIDE       -> 9
             [] OTHER                                 -> 12

Place(type) == LONG_BYTES * PlacePlain(type)

-----------------------------------------------------------------------------
AcpiInit ==
    /\ fw \in Firmwares
    /\ acpi_pc = "init"
    /\ acpi_version_2 = FALSE
    /\ madt = 0
    /\ ptr = 0
    /\ idx = [t \in Types |-> 0]
    /\ slots = [s \in Slots |-> None]

(* acpi_init up to madt_init.  Of revision 2 the XSDT is not taken up.     *)
(* The pages that are mapped for the RSDT are mapped already: its address  *)
(* has 32 bits, and vmm_init maps all of them (module Vmm).                *)
acpi_init ==
    /\ acpi_pc = "init"
    /\ acpi_version_2' = (fw.rsdp_sum = 0 /\ fw.revision >= 2)
    /\ acpi_pc' = IF fw.rsdp_sum # 0 THEN "panic"
                  ELSE IF fw.revision >= 2 THEN "fault"     \* rsdt is still NULL
                  ELSE IF fw.rsdt_sum # 0 THEN "panic" ELSE "madt"
    /\ UNCHANGED <<fw, madt, ptr, idx, slots>>

(* madt_init up to its loop. *)
madt_init ==
    /\ acpi_pc = "madt"
    /\ madt' = acpi_find_sdt_tbl("APIC")
    /\ acpi_pc' = IF madt' = 0 THEN "panic" ELSE "walk"
    /\ UNCHANGED <<fw, acpi_version_2, ptr, idx, slots>>

(* Entry k goes to the array of its type, if it is one of the seven.  The  *)
(* slots behind them are other memory: a walk that gets there is lost.     *)
Record(k) ==
    LET type == fw.madt[k].type
        dest == Place(type) + idx[type]
    IN  IF type \notin Types THEN UNCHANGED <<slots, idx, acpi_pc>>
        ELSE IF dest \in Slots
        THEN slots' = [slots EXCEPT ![dest] = k] /\ idx' = [idx EXCEPT ![type] = @ + 1] /\ acpi_pc' = acpi_pc
        ELSE acpi_pc' = "fault" /\ UNCHANGED <<slots, idx>>

Walking == acpi_pc = "walk" /\ ptr < MadtEnd

(* One iteration of the loop of madt_init: by the length in the entry. *)
Walk ==
    LET k == EntryAt(ptr)
    IN  /\ Walking
        /\ Record(k)
        /\ ptr' = ptr + fw.madt[k].length
        /\ UNCHANGED <<fw, acpi_version_2, madt>>

(* The end of the loop, of madt_init and of acpi_init. *)
WalkDone ==
    /\ acpi_pc = "walk"
    /\ ptr >= MadtEnd
    /\ acpi_pc' = "done"
    /\ UNCHANGED <<fw, acpi_version_2, madt, ptr, idx, slots>>

AcpiNext == acpi_init \/ madt_init \/ Walk \/ WalkDone

(* The boot processor runs on: there is nothing else it could do. *)
AcpiSpec == AcpiInit /\ [][AcpiNext]_acpi /\ WF_acpi(AcpiNext)

-----------------------------------------------------------------------------
(* Types of acpi.c's variables: every slot written holds an entry of the   *)
(* MADT.                                                                   *)
AcpiTypeOK ==
    /\ fw \in Firmwares
    /\ acpi_pc \in {"init", "madt", "walk", "done", "panic", "fault"}
    /\ acpi_version_2 \in BOOLEAN
    /\ madt \in 0 .. Len(fw.sdts)
    /\ ptr \in Nat
    /\ idx \in [Types -> Nat]
    /\ slots \in [Slots -> 1 .. Len(fw.madt) \cup {None}]

(* The entries of a type among the first n, and how many there are. *)
OfType(t, n) == {k \in 1 .. n : fw.madt[k].type = t}
Number(t, n) == Cardinality(OfType(t, n))

ZeroLength == \E k \in 1 .. Len(fw.madt) : fw.madt[k].length = 0

(* madt_init: a finished walk has put every entry of the MADT into the     *)
(* array of its type, once and in order, and no array has overwritten      *)
(* another, as long as none has more than Stride entries.  That is         *)
(* LONG_BYTES times the ROOM that was asked for: what madt_init does not   *)
(* check is made up for by the addresses that the heap hands out.          *)
TablesExact ==
    acpi_pc = "done" =>
        /\ \A t \in Types : idx[t] = Number(t, Len(fw.madt))
        /\ (\A t \in Types : idx[t] <= Stride)
               => \A t \in Types : \A k \in OfType(t, Len(fw.madt)) :
                      slots[Place(t) + Number(t, k - 1)] = k

(* acpi_init leaves the tables it can read only for revision 2 of ACPI     *)
(* (rsdt is NULL), for an entry of length 0 that fills the heap, or for    *)
(* more entries than there is memory behind the last array.                *)
FaultOnlyIf ==
    acpi_pc = "fault" => acpi_version_2 \/ ZeroLength \/ Len(fw.madt) > 4 * Stride

(* madt_init reads a MADT that checks: no table before it has the same     *)
(* signature and a good checksum.                                          *)
MadtChecked ==
    acpi_pc \in {"walk", "done"} =>
        /\ fw.sdts[madt].signature = "APIC" /\ fw.sdts[madt].checksum = 0
        /\ \A i \in 1 .. madt - 1 : fw.sdts[i].signature = "APIC" => fw.sdts[i].checksum # 0

(* acpi_init comes to an end, well or in a panic, exactly if the walk      *)
(* meets no entry of length 0: from such a one it goes round until it has  *)
(* filled the memory, or for ever if the type has no array.                *)
Endless == \E k \in 1 .. Len(fw.madt) : fw.madt[k].length = 0 /\ Offset(k) < MadtEnd

InitEnds ==
    /\ ~ Endless => <>(acpi_pc \in {"done", "panic", "fault"})
    /\ Endless => [](acpi_pc # "done")

(* acpi.c: the MADT that is read checks, and a walk that ends has put      *)
(* every entry once, in order, into the array of its type; the tables are  *)
(* left only for ACPI 2, for an entry of length 0 or for too many entries. *)
TablesRead == AcpiTypeOK /\ TablesExact /\ FaultOnlyIf /\ MadtChecked
=============================================================================
