-------------------------------- MODULE Heap --------------------------------
(***************************************************************************)
(* The kernel heap: mm/heap.c and malloc of klibc/alloc.c.                 *)
(*                                                                         *)
(* heap.bitmap has one bit per block and HEAP_WORDS words, but malloc      *)
(* bounds its scans by the bitmap's size in bytes: the words from          *)
(* HEAP_WORDS on are the variables that follow the heap structure.  There  *)
(* is no free().                                                           *)
(*                                                                         *)
(* malloc takes no lock, and an interrupt may come inside it; its steps    *)
(* are the entry, an iteration of the search loop, the marking, and the    *)
(* counting.  The interrupt stubs save no register (idt/idt.asm): when the *)
(* interrupted call goes on, at once or after another task has run, its    *)
(* locals may hold anything.                                               *)
(***************************************************************************)
EXTENDS Bitmap

CONSTANTS
    Callers,        \* the tasks that call malloc
    BLOCK_SIZE,     \* bytes in a block (16)
    LONG_BYTES,     \* sizeof(uint64_t) (8)
    HEAP_WORDS,     \* words in heap.bitmap
    WINDOW,         \* words of memory modelled from the start of heap.bitmap
    RamWords,       \* what a word behind heap.bitmap may hold
    HeapAddrs,      \* what pmm_alloc may return to heap_init
    Sizes,          \* the sizes malloc is called with
    MAX_INTERRUPTS  \* bound on the interrupts that hit malloc

VARIABLES
    map,            \* the words from heap.bitmap on
    free_blocks, used_blocks, heap_addr,    \* the fields of heap
    up,             \* heap_init has run
    pc, size, start,            \* each caller's place in malloc, and its locals
    allocs,         \* ghost: the results that reserved a block
    doubled,        \* ghost: a block was handed out twice
    interrupts,     \* ghost: the interrupts that hit malloc
    running,        \* the caller that has the CPU
    halted          \* a bad address was dereferenced

locals == <<pc, size, start>>
counters == <<free_blocks, used_blocks>>
results == <<allocs, doubled>>
cpu == <<interrupts, running>>
vars == <<map, counters, heap_addr, up, locals, results, cpu, halted>>

U64 == 2 ^ BITS_PER_BLOCK
HEAP_BLOCKS == HEAP_WORDS * BITS_PER_BLOCK     \* FRAZZOS_HEAP_SIZE / BLOCK_SIZE
buffer_long_size == HEAP_WORDS * LONG_BYTES
Words == 0 .. WINDOW - 1
Indices == 0 .. WINDOW * BITS_PER_BLOCK - 1
Beyond == WINDOW * BITS_PER_BLOCK       \* stands for every index that is not modelled

ASSUME HeapAssumption ==
    /\ BLOCK_SIZE \in Nat \ {0} /\ LONG_BYTES \in Nat \ {0}
    /\ LONG_BYTES >= 2
    /\ HEAP_WORDS \in Nat \ {0} /\ WINDOW \in Nat
    /\ buffer_long_size <= WINDOW
    /\ U64 \in Nat /\ HEAP_BLOCKS < U64
    /\ RamWords \subseteq SUBSET Bits
    /\ HeapAddrs \subseteq Int
    /\ Sizes \subseteq Nat
    /\ MAX_INTERRUPTS \in Nat

(* size / BLOCK_SIZE, rounded down. *)
Blocks(sz) == sz \div BLOCK_SIZE

(* The address without the stride of the pointer. *)
AddressOfBytes(block) == heap_addr + block * BLOCK_SIZE

(* heap.heap_addr is a uint64_t*, so that adding start * BLOCK_SIZE to it  *)
(* moves by that many words.                                               *)
AddressOf(block) == heap_addr + block * BLOCK_SIZE * LONG_BYTES

Region(c) == start[c] .. start[c] + Blocks(size[c]) - 1

-----------------------------------------------------------------------------
(* heap_init: what pmm_alloc returns is not checked. *)
heap_init ==
    /\ ~ up
    /\ up' = TRUE
    /\ heap_addr' \in HeapAddrs
    /\ free_blocks' = HEAP_BLOCKS
    /\ used_blocks' = 0
    /\ map' = [w \in Words |-> IF w < HEAP_WORDS THEN {} ELSE map[w]]
    /\ UNCHANGED <<locals, results, cpu, halted>>

(* An interrupt, after which the caller d has the CPU: the keyboard's      *)
(* leaves it where it was, the timer's may switch.                         *)
Interrupt(d) ==
    /\ up /\ ~ halted
    /\ running' = d
    /\ IF pc[running] = "out"
       THEN UNCHANGED <<interrupts, locals>>
       ELSE /\ interrupts < MAX_INTERRUPTS
            /\ interrupts' = interrupts + 1
            /\ \E i \in Indices \cup {ENOMEM, Beyond} : start' = [start EXCEPT ![running] = i]
            /\ \E sz \in Sizes : size' = [size EXCEPT ![running] = sz]
            /\ UNCHANGED pc
    /\ UNCHANGED <<map, counters, heap_addr, up, results, halted>>

Runs(c, at) == up /\ ~ halted /\ running = c /\ pc[c] = at

(* malloc(sz), up to the loop. *)
malloc(c, sz) ==
    /\ Runs(c, "out")
    /\ ~ doubled
    /\ IF free_blocks < Blocks(sz)
       THEN UNCHANGED locals       \* returns ENOMEM
       ELSE /\ size' = [size EXCEPT ![c] = sz]
            /\ start' = [start EXCEPT ![c] = find_first_free(map, 0, buffer_long_size)]
            /\ pc' = [pc EXCEPT ![c] = "probe"]
    /\ UNCHANGED <<map, counters, heap_addr, up, results, cpu, halted>>

Leave(c) ==
    /\ pc' = [pc EXCEPT ![c] = "out"]
    /\ size' = [size EXCEPT ![c] = 0]
    /\ start' = [start EXCEPT ![c] = 0]

(* Nothing is free: testing block -1 faults, unless no block is asked for. *)
ProbeNothing(c) ==
    /\ Runs(c, "probe")
    /\ start[c] = ENOMEM
    /\ halted' = (Blocks(size[c]) > 0)
    /\ Leave(c)
    /\ UNCHANGED <<map, counters, heap_addr, up, results, cpu>>

(* The search or the marks leave the memory that is modelled. *)
Overrun(c) ==
    /\ \/ Runs(c, "probe") /\ start[c] # ENOMEM
       \/ Runs(c, "mark") \/ Runs(c, "count")
    /\ ~ (Region(c) \subseteq Indices)
    /\ halted' = TRUE
    /\ UNCHANGED <<map, counters, heap_addr, up, locals, results, cpu>>

(* One iteration of the loop: the region is not free, search on; or it is. *)
Probe(c) ==
    /\ Runs(c, "probe")
    /\ start[c] # ENOMEM
    /\ Region(c) \subseteq Indices
    /\ LET next_start == is_free_region_big_enough(map, start[c], Blocks(size[c]))
           again == find_first_free(map, next_start, buffer_long_size)
       IN  \/ /\ next_start = 0
              /\ pc' = [pc EXCEPT ![c] = "mark"]
              /\ UNCHANGED <<size, start>>
           \/ /\ next_start # 0
              /\ again = ENOMEM
              /\ Leave(c)
           \/ /\ next_start # 0
              /\ again # ENOMEM
              /\ start' = [start EXCEPT ![c] = again]
              /\ UNCHANGED <<pc, size>>
    /\ UNCHANGED <<map, counters, heap_addr, up, results, cpu, halted>>

(* The bitmap_set_bit loop that stops one block short. *)
MarkShort(c) ==
    /\ Runs(c, "mark")
    /\ Region(c) \subseteq Indices
    /\ map' = SetBits(map, start[c] .. start[c] + Blocks(size[c]) - 2)
    /\ pc' = [pc EXCEPT ![c] = "count"]
    /\ UNCHANGED <<counters, heap_addr, up, size, start, results, cpu, halted>>

(* The bitmap_set_bit loop. *)
Mark(c) ==
    /\ Runs(c, "mark")
    /\ Region(c) \subseteq Indices
    /\ map' = SetBits(map, Region(c))
    /\ pc' = [pc EXCEPT ![c] = "count"]
    /\ UNCHANGED <<counters, heap_addr, up, size, start, results, cpu, halted>>

(* The counters, and the return. *)
Count(c) ==
    /\ Runs(c, "count")
    /\ Region(c) \subseteq Indices
    /\ free_blocks' = (free_blocks - Blocks(size[c])) % U64
    /\ used_blocks' = (used_blocks + Blocks(size[c])) % U64
    /\ allocs' = IF Blocks(size[c]) = 0 THEN allocs
                 ELSE allocs \cup {[start |-> start[c], blocks |-> Blocks(size[c]),
                                    addr |-> AddressOf(start[c]), size |-> size[c]]}
    /\ doubled' = (doubled \/ \E a \in allocs : a.start .. a.start + a.blocks - 1 \cap Region(c) # {})
    /\ Leave(c)
    /\ UNCHANGED <<map, heap_addr, up, cpu, halted>>

(* The machine has halted, or two owners of a block undo each other's work. *)
Halted ==
    /\ halted \/ (doubled /\ \A c \in Callers : pc[c] = "out")
    /\ UNCHANGED vars

-----------------------------------------------------------------------------
Init ==
    /\ map \in [Words -> RamWords]
    /\ free_blocks = 0 /\ used_blocks = 0 /\ heap_addr = 0 /\ up = FALSE
    /\ pc = [c \in Callers |-> "out"]
    /\ size = [c \in Callers |-> 0]
    /\ start = [c \in Callers |-> 0]
    /\ allocs = {} /\ doubled = FALSE /\ halted = FALSE
    /\ interrupts = 0 /\ running \in Callers

Advance(c) == ProbeNothing(c) \/ Overrun(c) \/ Probe(c) \/ Mark(c) \/ Count(c)

Next ==
    \/ heap_init
    \/ \E c \in Callers : (\E sz \in Sizes : malloc(c, sz)) \/ Advance(c) \/ Interrupt(c)
    \/ Halted

(* Each caller is scheduled again and again (module Scheduler). *)
Spec ==
    /\ Init /\ [][Next]_vars
    /\ \A c \in Callers : WF_vars(Advance(c)) /\ SF_vars(Interrupt(c))

-----------------------------------------------------------------------------
(* Every variable keeps its type. *)
TypeOK ==
    /\ map \in [Words -> SUBSET Bits]
    /\ free_blocks \in 0 .. U64 - 1
    /\ used_blocks \in 0 .. U64 - 1
    /\ heap_addr \in Int
    /\ up \in BOOLEAN
    /\ pc \in [Callers -> {"out", "probe", "mark", "count"}]
    /\ size \in [Callers -> Nat]
    /\ start \in [Callers -> Indices \cup {ENOMEM, Beyond}]
    /\ allocs \subseteq [start : Indices, blocks : Nat, addr : Int, size : Nat]
    /\ doubled \in BOOLEAN
    /\ interrupts \in 0 .. MAX_INTERRUPTS
    /\ running \in Callers
    /\ halted \in BOOLEAN

(* No block is handed out twice, unless an interrupt hit a call of malloc: *)
(* then its locals are lost, or another call comes in between.             *)
NoDoubleAllocation == doubled => interrupts > 0

Bytes(a) == a.addr .. a.addr + a.size - 1

(* Two results of malloc share no byte, unless a call was interrupted, or  *)
(* a size was below BLOCK_SIZE and reserved no block at all.  The blocks   *)
(* are rounded down, but lie LONG_BYTES times further apart than they are  *)
(* big.                                                                    *)
ResultsDisjoint ==
    interrupts = 0 => \A a, b \in allocs : a # b => Bytes(a) \cap Bytes(b) = {}

(* The heap's free count never wraps below zero, unless a call was         *)
(* interrupted.                                                            *)
FreeCountBounded ==
    up /\ interrupts = 0 => free_blocks <= HEAP_BLOCKS

(* malloc hands out a run that is not wholly inside heap.bitmap only when  *)
(* no run inside it is free: first fit.                                    *)
InsideRunFree(n) ==
    \E s \in 0 .. HEAP_BLOCKS - 1 :
        /\ s + n <= HEAP_BLOCKS
        /\ \A i \in {s} \cup (s .. s + n - 1) : ~ bitmap_test_bit(map, i)

LeavesBitmapOnlyIfFull ==
    \A c \in Callers :
        pc[c] = "mark" /\ interrupts = 0 /\ start[c] + Blocks(size[c]) > HEAP_BLOCKS =>
            ~ InsideRunFree(Blocks(size[c]))

(* alloc.c's bookkeeping: the free count does not wrap, and a run leaves   *)
(* heap.bitmap only when no run inside it would do.                        *)
HeapBounded == FreeCountBounded /\ LeavesBitmapOnlyIfFull

(* A call of malloc returns, or the machine halts: an interrupt that loses *)
(* its locals does not make it search for ever.                            *)
MallocReturns == \A c \in Callers : pc[c] # "out" ~> (pc[c] = "out" \/ halted)
=============================================================================
