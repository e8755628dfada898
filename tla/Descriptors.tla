---------------------------- MODULE Descriptors -----------------------------
(***************************************************************************)
(* The descriptor tables: kernel/src/gdt/gdt.c, idt/idt.c with the table   *)
(* of stubs in idt/idt.asm, and tss/tss.c.                                 *)
(*                                                                         *)
(* Memory around the GDT is a function from byte offsets; an address is a  *)
(* sequence of bytes, the lowest first.                                    *)
(***************************************************************************)
EXTENDS Integers, Sequences

CONSTANTS
    Stray,          \* what stands behind the stubs' table, where code is expected
    Tsses           \* addresses (eight bytes) that malloc may give the task state segment

FRAZZOS_TOTAL_SEGMENTS == 7
FRAZZOS_TOTAL_IDT_ENTRIES == 256
STUBS == 32
TSS_OFFSET == 40
TSS_SIZE == 103

VARIABLES
    pc, i,          \* the next function, and the index of its loop
    mem,            \* bytes from the start of the GDT
    idt,            \* the handler of each vector
    gdtr, idtr, tr, \* what is loaded
    tss             \* the address of the task state segment

vars == <<pc, i, mem, idt, gdtr, idtr, tr, tss>>

SEGMENT == 8                \* sizeof(struct gdt)
DESCRIPTOR == 16            \* sizeof(struct tss_descriptor)
Memory == 0 .. DESCRIPTOR * (TSS_OFFSET + 1) - 1

Init ==
    /\ pc = "gdt_init" /\ i = 0
    /\ mem = [a \in Memory |-> 0]
    /\ idt = [v \in 0 .. FRAZZOS_TOTAL_IDT_ENTRIES - 1 |-> "none"]
    /\ gdtr = "loader" /\ idtr = "loader" /\ tr = 0
    /\ tss \in Tsses

-----------------------------------------------------------------------------
(* gdt_structured: the access bytes and flags of the null descriptor, of   *)
(* the kernel's and the user's code and data, and of the TSS.              *)
access_byte == <<0, 154, 146, 250, 242, 137>>
flags == <<0, 10, 12, 10, 12, 0>>

encode_gdt_entry(m, k) ==
    [m EXCEPT ![k * SEGMENT + 5] = access_byte[k + 1], ![k * SEGMENT + 6] = flags[k + 1] * 16]

(* gdt_init: all but the last entry, which belongs to the TSS; then        *)
(* load_gdt and load_segment_registers.                                    *)
gdt_init ==
    /\ pc = "gdt_init"
    /\ IF i < FRAZZOS_TOTAL_SEGMENTS - 1
       THEN mem' = encode_gdt_entry(mem, i) /\ i' = i + 1 /\ UNCHANGED <<pc, gdtr>>
       ELSE gdtr' = "kernel" /\ i' = 0 /\ pc' = "idt_init" /\ UNCHANGED mem
    /\ UNCHANGED <<idt, idtr, tr, tss>>

(* What idt_init reads as isr_stub_table[v]: the declaration has 256       *)
(* entries, the table 32.                                                  *)
isr_stub_table(v) == IF v < STUBS THEN "general_exception" ELSE Stray

Handlers == [v \in {0, 32, 33} |->
    CASE v = 0 -> "divide_zero_exception" [] v = 32 -> "timer_irq" [] v = 33 -> "keyboard_irq"]

idt_init ==
    /\ pc = "idt_init"
    /\ IF i < FRAZZOS_TOTAL_IDT_ENTRIES
       THEN idt' = [idt EXCEPT ![i] = isr_stub_table(i)] /\ i' = i + 1 /\ UNCHANGED <<pc, idtr>>
       ELSE /\ idt' = [v \in DOMAIN idt |-> IF v \in DOMAIN Handlers THEN Handlers[v] ELSE idt[v]]
            /\ idtr' = "kernel" /\ i' = 0 /\ pc' = "init_tss"
    /\ UNCHANGED <<mem, gdtr, tr, tss>>

(* init_tss: the offset is added to a pointer to descriptors, so that it   *)
(* counts in units of 16 bytes; and two bytes of the base are cast to 8    *)
(* bits before they are shifted down.                                      *)
TssPlace == TSS_OFFSET * DESCRIPTOR

init_tss ==
    /\ pc = "init_tss"
    /\ mem' = [mem EXCEPT ![TssPlace] = TSS_SIZE,
                          ![TssPlace + 2] = tss[1], ![TssPlace + 3] = tss[2],
                          ![TssPlace + 4] = 0, ![TssPlace + 7] = 0,
                          ![TssPlace + 5] = 137,
                          ![TssPlace + 8] = tss[5], ![TssPlace + 9] = tss[6],
                          ![TssPlace + 10] = tss[7], ![TssPlace + 11] = tss[8]]
    /\ tr' = TSS_OFFSET /\ pc' = "done"
    /\ UNCHANGED <<i, idt, gdtr, idtr, tss>>

Next == gdt_init \/ idt_init \/ init_tss

Spec == Init /\ [][Next]_vars

-----------------------------------------------------------------------------
(* The base of the descriptor that a selector stands for. *)
Base(selector) ==
    <<mem[selector + 2], mem[selector + 3], mem[selector + 4], mem[selector + 7],
      mem[selector + 8], mem[selector + 9], mem[selector + 10], mem[selector + 11]>>

(* init_tss: the task register selects a descriptor of the processor's     *)
(* task state segment.                                                     *)
TssSelected == tr = TSS_OFFSET => Base(TSS_OFFSET) = tss
=============================================================================
