----------------------------- MODULE HeapProofs -----------------------------
(* Proofs about Heap, for every word width, heap size and set of callers.  *)
EXTENDS Heap, BitmapProofs

AllocBlocks(a) == a.start .. a.start + a.blocks - 1

(* Before heap_init there is no result and no call. *)
NothingBeforeInit ==
    ~ up => allocs = {} /\ pc = [c \in Callers |-> "out"]

(* Unless an interrupt hit malloc, only the caller on the CPU is in it. *)
OneAtATime ==
    interrupts = 0 => \A c \in Callers : pc[c] # "out" => c = running

(* Every block handed out is marked. *)
AllocsMarked ==
    interrupts = 0 => \A a \in allocs : \A i \in AllocBlocks(a) : i \in Indices /\ Mask(i) \subseteq map[Block(i)]

(* Past the search, the region lies in the window. *)
RegionInWindow ==
    interrupts = 0 => \A c \in Callers : pc[c] \in {"mark", "count"} =>
        start[c] # ENOMEM /\ Region(c) \subseteq Indices

(* The block the search stands at is free (were it block 0 and in use, the *)
(* check would read as success); the region found is free until it is      *)
(* marked, and nobody's until it is returned.                              *)
RegionFree ==
    interrupts = 0 => \A c \in Callers :
        /\ pc[c] = "probe" /\ start[c] # ENOMEM => ~ bitmap_test_bit(map, start[c])
        /\ pc[c] = "mark" => \A i \in Region(c) : ~ bitmap_test_bit(map, i)
        /\ pc[c] = "count" => \A a \in allocs : AllocBlocks(a) \cap Region(c) = {}

RegionMarked ==
    interrupts = 0 => \A c \in Callers : pc[c] = "count" => \A i \in Region(c) : Mask(i) \subseteq map[Block(i)]

(* Where a result lies, and what it reserves. *)
AllocShape ==
    \A a \in allocs : a.blocks = Blocks(a.size) /\ a.blocks # 0 /\ a.addr = AddressOf(a.start)

AllocsApart ==
    interrupts = 0 => \A a, b \in allocs : a # b => AllocBlocks(a) \cap AllocBlocks(b) = {}

IInv ==
    /\ TypeOK
    /\ NothingBeforeInit
    /\ OneAtATime
    /\ AllocsMarked
    /\ RegionInWindow
    /\ RegionFree
    /\ RegionMarked
    /\ AllocShape
    /\ AllocsApart
    /\ NoDoubleAllocation

USE DEF IInv, TypeOK, NothingBeforeInit, OneAtATime, AllocShape, NoDoubleAllocation

-----------------------------------------------------------------------------
(* A size is a number of blocks. *)
LEMMA BlocksType ==
    ASSUME NEW sz \in Nat
    PROVE  Blocks(sz) \in Nat
  BY HeapAssumption DEF Blocks

(* An index of the window lies in one of its words. *)
LEMMA BlockOfIndex ==
    ASSUME NEW i \in Indices
    PROVE  i \in Nat /\ Block(i) \in Words
  BY BlockInWindow, HeapAssumption DEF Indices, Words

(* What find_first_free returns is a free index of the window, or ENOMEM. *)
LEMMA FirstFreeType ==
    ASSUME NEW s \in Indices, NEW m, NEW f, f = find_first_free(m, s, buffer_long_size)
    PROVE  /\ f \in Indices \cup {ENOMEM}
           /\ f # ENOMEM => ~ bitmap_test_bit(m, f)
<1>1. s \in Nat
  BY BlockOfIndex
<1>2. buffer_long_size \in Nat /\ buffer_long_size <= WINDOW
  BY HeapAssumption DEF buffer_long_size
<1>3. ScanRange(s, buffer_long_size) \subseteq Indices
  BY <1>2, ScanInWindow, HeapAssumption DEF Indices
<1> QED
  BY <1>1, <1>2, <1>3, FindFirstFree

(* The window holds index 0, where malloc starts to look. *)
LEMMA ZeroIndex == 0 \in Indices
<1>1. WINDOW \in Nat \ {0}
  <2>1. buffer_long_size \in Nat \ {0}
    BY HeapAssumption DEF buffer_long_size
  <2> QED
    BY <2>1, HeapAssumption
<1>2. WINDOW * BITS_PER_BLOCK \in Nat \ {0}
  BY <1>1, WordSizes
<1> QED
  BY <1>2 DEF Indices

(* A place in the search is a natural number. *)
LEMMA StartIsNatural ==
    ASSUME TypeOK, NEW c \in Callers, start[c] # ENOMEM
    PROVE  start[c] \in Nat
<1>1. Beyond \in Nat
  BY WordSizes, HeapAssumption DEF Beyond
<1> QED
  BY <1>1, BlockOfIndex

(* A marked block is not free. *)
LEMMA MarkedIsTested ==
    ASSUME NEW i \in Nat, NEW m, Mask(i) \subseteq m[Block(i)]
    PROVE  bitmap_test_bit(m, i)
  BY MaskType DEF bitmap_test_bit

-----------------------------------------------------------------------------
(* The invariant holds before heap_init. *)
LEMMA InitIInv == Init => IInv
<1> SUFFICES ASSUME Init PROVE IInv
  OBVIOUS
<1>1. map \in [Words -> SUBSET Bits]
  BY HeapAssumption DEF Init
<1>2. 0 \in 0 .. U64 - 1
  <2>1. HEAP_BLOCKS \in Nat
    BY HeapAssumption, WordSizes DEF HEAP_BLOCKS
  <2> QED
    BY <2>1, HeapAssumption
<1>3. TypeOK
  <2>1. free_blocks \in 0 .. U64 - 1 /\ used_blocks \in 0 .. U64 - 1 /\ heap_addr \in Int
    BY <1>2 DEF Init
  <2>2. /\ pc \in [Callers -> {"out", "probe", "mark", "count"}]
        /\ size \in [Callers -> Nat]
        /\ start \in [Callers -> Indices \cup {ENOMEM, Beyond}]
    BY ZeroIndex DEF Init
  <2>3. up \in BOOLEAN /\ doubled \in BOOLEAN /\ halted \in BOOLEAN /\ running \in Callers
    BY DEF Init
  <2>5. 0 \in 0 .. MAX_INTERRUPTS
    BY HeapAssumption
  <2>6. interrupts \in 0 .. MAX_INTERRUPTS
    BY <2>5 DEF Init
  <2>4. allocs \subseteq [start : Indices, blocks : Nat, addr : Int, size : Nat]
    BY DEF Init
  <2> QED
    BY <1>1, <2>1, <2>2, <2>3, <2>4, <2>6
<1> QED
  BY <1>3 DEF Init, AllocsMarked, RegionInWindow, RegionFree, RegionMarked, AllocsApart

(* heap_init keeps the invariant. *)
LEMMA HeapInitIInv == IInv /\ heap_init => IInv'
<1> SUFFICES ASSUME IInv, heap_init PROVE IInv'
  OBVIOUS
<1>1. /\ allocs = {} /\ pc = [c \in Callers |-> "out"] /\ up' = TRUE
      /\ UNCHANGED <<pc, size, start, allocs, doubled, interrupts, running, halted>>
      /\ free_blocks' = HEAP_BLOCKS /\ used_blocks' = 0 /\ heap_addr' \in HeapAddrs
      /\ map' = [w \in Words |-> IF w < HEAP_WORDS THEN {} ELSE map[w]]
  BY DEF heap_init, locals, results, cpu
<1>2. map' \in [Words -> SUBSET Bits]
  BY <1>1
<1>3. free_blocks' \in 0 .. U64 - 1 /\ used_blocks' \in 0 .. U64 - 1 /\ heap_addr' \in Int
  <2>1. HEAP_BLOCKS \in Nat
    BY HeapAssumption, WordSizes DEF HEAP_BLOCKS
  <2> QED
    BY <1>1, <2>1, HeapAssumption
<1>4. TypeOK'
  BY <1>1, <1>2, <1>3
<1> QED
  BY <1>1, <1>4 DEF AllocsMarked, RegionInWindow, RegionFree, RegionMarked, AllocsApart

(* Entering malloc keeps the invariant. *)
LEMMA MallocIInv ==
    ASSUME IInv, NEW c \in Callers, NEW sz \in Sizes, malloc(c, sz)
    PROVE  IInv'
<1>1. /\ UNCHANGED <<map, free_blocks, used_blocks, heap_addr, up, allocs, doubled, halted,
                     interrupts, running>>
      /\ pc[c] = "out" /\ up /\ running = c
  BY DEF malloc, Runs, counters, results, cpu
<1>2. CASE free_blocks < Blocks(sz)
  <2>1. UNCHANGED <<pc, size, start>>
    BY <1>2 DEF malloc, locals
  <2> QED
    BY <1>1, <2>1 DEF AllocsMarked, RegionInWindow, RegionFree, RegionMarked, AllocsApart,
       Region, AddressOf
<1>3. CASE ~ (free_blocks < Blocks(sz))
  <2>1. /\ size' = [size EXCEPT ![c] = sz]
        /\ start' = [start EXCEPT ![c] = find_first_free(map, 0, buffer_long_size)]
        /\ pc' = [pc EXCEPT ![c] = "probe"]
    BY <1>3 DEF malloc
  <2>2. /\ find_first_free(map, 0, buffer_long_size) \in Indices \cup {ENOMEM} /\ sz \in Nat
        /\ start'[c] # ENOMEM => ~ bitmap_test_bit(map, start'[c])
    BY <2>1, FirstFreeType, ZeroIndex, HeapAssumption
  <2>3. TypeOK'
    BY <1>1, <2>1, <2>2
  <2>4. \A d \in Callers : pc'[d] \in {"mark", "count"} =>
            d # c /\ pc'[d] = pc[d] /\ Region(d)' = Region(d) /\ start'[d] = start[d]
    BY <2>1 DEF Region
  <2>5. NothingBeforeInit' /\ OneAtATime' /\ AllocShape' /\ NoDoubleAllocation'
    BY <1>1, <2>1 DEF AddressOf
  <2>6. AllocsMarked' /\ AllocsApart'
    BY <1>1 DEF AllocsMarked, AllocsApart
  <2>7. RegionInWindow'
    BY <1>1, <2>4 DEF RegionInWindow
  <2>8. RegionMarked'
    BY <1>1, <2>4 DEF RegionMarked
  <2>9. RegionFree'
    BY <1>1, <2>1, <2>2, <2>4 DEF RegionFree
  <2> QED
    BY <2>3, <2>5, <2>6, <2>7, <2>8, <2>9
<1> QED
  BY <1>2, <1>3

(* A caller that leaves, or searches on, disturbs no other. *)
LEMMA SearchIInv ==
    ASSUME IInv, NEW c \in Callers,
           UNCHANGED <<map, counters, heap_addr, up, results, cpu>>, halted' \in BOOLEAN,
           pc[c] # "out", up, running = c,
           NEW p \in {"out", "probe"}, pc' = [pc EXCEPT ![c] = p],
           NEW n \in Nat, size' = [size EXCEPT ![c] = n],
           NEW s \in Indices \cup {ENOMEM, Beyond}, start' = [start EXCEPT ![c] = s],
           p = "probe" /\ s # ENOMEM => ~ bitmap_test_bit(map, s)
    PROVE  IInv'
<1>1. UNCHANGED <<map, free_blocks, used_blocks, heap_addr, up, allocs, doubled, interrupts,
                 running>>
  BY DEF counters, results, cpu
<1>2. TypeOK'
  BY <1>1
<1>3. \A d \in Callers : pc'[d] \in {"mark", "count"} =>
          d # c /\ pc'[d] = pc[d] /\ Region(d)' = Region(d) /\ start'[d] = start[d]
  BY DEF Region
<1>4. NothingBeforeInit' /\ OneAtATime' /\ AllocShape' /\ NoDoubleAllocation'
  BY <1>1 DEF AddressOf
<1>5. AllocsMarked' /\ AllocsApart' /\ RegionInWindow' /\ RegionFree' /\ RegionMarked'
  BY <1>1, <1>3 DEF AllocsMarked, AllocsApart, RegionInWindow, RegionFree, RegionMarked
<1> QED
  BY <1>2, <1>4, <1>5

(* The iterations that fault or leave the window keep the invariant. *)
LEMMA ProbeFailsIInv ==
    ASSUME IInv, NEW c \in Callers, ProbeNothing(c) \/ Overrun(c)
    PROVE  IInv'
<1>1. CASE ProbeNothing(c)
  <2>1. halted' \in BOOLEAN
    BY <1>1 DEF ProbeNothing
  <2>2. 0 \in Nat /\ 0 \in Indices \cup {ENOMEM, Beyond}
    BY ZeroIndex
  <2> QED
    BY <1>1, <2>1, <2>2, SearchIInv DEF ProbeNothing, Leave, Runs
<1>2. CASE Overrun(c)
  <2>1. UNCHANGED <<map, free_blocks, used_blocks, heap_addr, up, pc, size, start,
                    allocs, doubled, interrupts, running>> /\ halted' \in BOOLEAN
    BY <1>2 DEF Overrun, counters, locals, results, cpu
  <2> QED
    BY <2>1 DEF AllocsMarked, RegionInWindow, RegionFree, RegionMarked, AllocsApart,
       Region, AddressOf
<1> QED
  BY <1>1, <1>2

(* An iteration of malloc's loop keeps the invariant. *)
LEMMA ProbeIInv ==
    ASSUME IInv, NEW c \in Callers, Probe(c)
    PROVE  IInv'
<1> DEFINE n == Blocks(size[c])
           next_start == is_free_region_big_enough(map, start[c], n)
           again == find_first_free(map, next_start, buffer_long_size)
<1>1. /\ up /\ pc[c] = "probe" /\ start[c] # ENOMEM /\ running = c
      /\ Region(c) \subseteq Indices
      /\ UNCHANGED <<map, counters, heap_addr, up, results, cpu>> /\ halted' = halted
  BY DEF Probe, Runs
<1>2. start[c] \in Nat /\ n \in Nat /\ size[c] \in Nat
  BY <1>1, StartIsNatural, BlocksType
<1>3. Region(c) \subseteq Indices
  BY <1>1
<1>4. \/ /\ next_start = 0
         /\ \A i \in Region(c) : ~ bitmap_test_bit(map, i)
      \/ next_start \in Region(c) /\ bitmap_test_bit(map, next_start)
  <2>1. \A s, k \in Nat : LET u == is_free_region_big_enough(map, s, k) IN
            \/ u = 0 /\ \A i \in s .. s + k - 1 : ~ bitmap_test_bit(map, i)
            \/ u \in s .. s + k - 1 /\ bitmap_test_bit(map, u)
    BY RegionCheck
  <2> QED
    BY <1>2, <2>1 DEF Region
<1>5. CASE next_start # 0 /\ again = ENOMEM /\ Leave(c)
  <2>1. 0 \in Nat /\ 0 \in Indices \cup {ENOMEM, Beyond}
    BY ZeroIndex
  <2> QED
    BY <1>1, <1>5, <2>1, SearchIInv DEF Leave
<1>6. CASE next_start # 0 /\ start' = [start EXCEPT ![c] = again] /\ UNCHANGED <<pc, size>>
  <2>1. again \in Indices \cup {ENOMEM} /\ (again # ENOMEM => ~ bitmap_test_bit(map, again))
    BY <1>3, <1>4, <1>6, FirstFreeType
  <2>2. pc' = [pc EXCEPT ![c] = "probe"] /\ size' = [size EXCEPT ![c] = size[c]]
    BY <1>1, <1>6
  <2> QED
    BY <1>1, <1>2, <1>6, <2>1, <2>2, SearchIInv
<1>7. CASE next_start = 0 /\ pc' = [pc EXCEPT ![c] = "mark"] /\ UNCHANGED <<size, start>>
  <2>1. UNCHANGED <<map, free_blocks, used_blocks, heap_addr, up, allocs, doubled, interrupts,
                   running>>
    BY <1>1 DEF counters, results, cpu
  <2>2. TypeOK'
    BY <1>1, <1>7, <2>1
  <2>3. \A d \in Callers : Region(d)' = Region(d)
    BY <1>7 DEF Region
  <2>4. NothingBeforeInit' /\ OneAtATime' /\ AllocShape' /\ NoDoubleAllocation'
    BY <1>1, <1>7, <2>1 DEF AddressOf
  <2>5. AllocsMarked' /\ AllocsApart'
    BY <2>1 DEF AllocsMarked, AllocsApart
  <2>6. RegionInWindow'
    BY <1>1, <1>3, <1>7, <2>1, <2>3 DEF RegionInWindow
  <2>7. RegionMarked'
    BY <1>7, <2>1, <2>3 DEF RegionMarked
  <2>8. RegionFree'
    <3>1. interrupts = 0 => ~ bitmap_test_bit(map, start[c])
      BY <1>1 DEF RegionFree
    <3>2. next_start \in Region(c) => start[c] = 0
      BY <1>2, <1>7 DEF Region
    <3>3. interrupts = 0 => \A i \in Region(c) : ~ bitmap_test_bit(map, i)
      BY <1>4, <1>7, <3>1, <3>2
    <3> QED
      BY <1>7, <2>1, <2>3, <3>3 DEF RegionFree
  <2> QED
    BY <2>2, <2>4, <2>5, <2>6, <2>7, <2>8
<1> QED
  BY <1>5, <1>6, <1>7 DEF Probe

(* Marking the region keeps the invariant. *)
LEMMA MarkIInv ==
    ASSUME IInv, NEW c \in Callers, Mark(c)
    PROVE  IInv'
<1>1. /\ up /\ pc[c] = "mark" /\ map' = SetBits(map, Region(c))
      /\ pc' = [pc EXCEPT ![c] = "count"]
      /\ UNCHANGED <<free_blocks, used_blocks, heap_addr, up, size, start,
                     allocs, doubled, interrupts, running, halted>>
  BY DEF Mark, Runs, counters, results, cpu
<1>2. Region(c) \subseteq Indices /\ Region(c) \subseteq Nat /\ running = c
  BY BlockOfIndex DEF Mark, Runs
<1>3. map' \in [Words -> SUBSET Bits]
  BY <1>1, <1>2, SetClearType
<1>4. TypeOK'
  BY <1>1, <1>3
<1>5. \A w \in Words : map[w] \subseteq map'[w]
  BY <1>1, SetBitsMarks
<1>6. \A i \in Region(c) : Mask(i) \subseteq map'[Block(i)]
  BY <1>1, <1>2, SetBitsMarks, BlockOfIndex
<1>7. \A d \in Callers : Region(d)' = Region(d)
  BY <1>1 DEF Region
<1>8. NothingBeforeInit' /\ OneAtATime' /\ AllocShape' /\ NoDoubleAllocation'
  BY <1>1 DEF AddressOf
<1>9. AllocsMarked' /\ AllocsApart'
  BY <1>1, <1>5, BlockOfIndex DEF AllocsMarked, AllocsApart
<1>10. RegionInWindow'
  BY <1>1, <1>7 DEF RegionInWindow
<1>11. RegionMarked'
  <2>1. interrupts = 0 => \A d \in Callers : pc'[d] = "count" => d = c
    BY <1>1
  <2> QED
    BY <1>1, <1>6, <1>7, <2>1 DEF RegionMarked
<1>12. RegionFree'
  <2> SUFFICES ASSUME interrupts = 0, NEW d \in Callers
               PROVE  /\ pc'[d] = "probe" /\ start[d] # ENOMEM => ~ bitmap_test_bit(map', start[d])
                      /\ pc'[d] = "mark" => \A i \in Region(d) : ~ bitmap_test_bit(map', i)
                      /\ pc'[d] = "count" => \A a \in allocs : AllocBlocks(a) \cap Region(d) = {}
    BY <1>1, <1>7 DEF RegionFree
  <2>1. d # c => pc'[d] = "out"
    BY <1>1
  <2>2. pc'[c] = "count"
    BY <1>1
  <2>3. \A a \in allocs : AllocBlocks(a) \cap Region(c) = {}
    <3> SUFFICES ASSUME NEW a \in allocs, NEW i \in AllocBlocks(a), i \in Region(c) PROVE FALSE
      OBVIOUS
    <3>1. i \in Nat /\ Mask(i) \subseteq map[Block(i)]
      BY BlockOfIndex DEF AllocsMarked
    <3>2. bitmap_test_bit(map, i)
      BY <3>1, MarkedIsTested
    <3> QED
      BY <1>1, <3>2 DEF RegionFree
  <2> QED
    BY <2>1, <2>2, <2>3
<1> QED
  BY <1>4, <1>8, <1>9, <1>10, <1>11, <1>12

(* Counting and returning the region keeps the invariant. *)
LEMMA CountIInv ==
    ASSUME IInv, NEW c \in Callers, Count(c)
    PROVE  IInv'
<1> DEFINE n == Blocks(size[c])
           r == [start |-> start[c], blocks |-> n, addr |-> AddressOf(start[c]), size |-> size[c]]
<1>1. /\ up /\ pc[c] = "count"
      /\ pc' = [pc EXCEPT ![c] = "out"]
      /\ size' = [size EXCEPT ![c] = 0] /\ start' = [start EXCEPT ![c] = 0]
      /\ UNCHANGED <<map, heap_addr, up, interrupts, running, halted>>
      /\ free_blocks' = (free_blocks - n) % U64
      /\ used_blocks' = (used_blocks + n) % U64
      /\ allocs' = IF n = 0 THEN allocs ELSE allocs \cup {r}
      /\ doubled' = (doubled \/ \E a \in allocs : AllocBlocks(a) \cap Region(c) # {})
  BY DEF Count, Leave, Runs, AllocBlocks, cpu
<1>2. /\ start[c] \in Int /\ n \in Nat /\ size[c] \in Nat
      /\ Region(c) \subseteq Indices /\ running = c
      /\ n # 0 => start[c] \in Indices
  <2>1. start[c] \in Int
    BY StartIsNatural DEF ENOMEM
  <2>2. n \in Nat /\ size[c] \in Nat
    BY BlocksType
  <2>3. Region(c) \subseteq Indices /\ running = c
    BY DEF Count, Runs
  <2>4. n # 0 => start[c] \in Region(c)
    BY <2>1, <2>2 DEF Region
  <2> QED
    BY <2>1, <2>2, <2>3, <2>4
<1>3. AddressOf(start[c]) \in Int
  BY <1>2, HeapAssumption DEF AddressOf
<1>4. /\ n # 0 => r \in [start : Indices, blocks : Nat, addr : Int, size : Nat]
      /\ AllocBlocks(r) = Region(c)
      /\ r.blocks = Blocks(r.size) /\ r.addr = AddressOf(r.start) /\ r.blocks = n
  BY <1>2, <1>3 DEF AllocBlocks, Region
<1> HIDE DEF r
<1>5. TypeOK'
  <2>1. \A x \in Int : x % U64 \in 0 .. U64 - 1
    <3>1. HEAP_BLOCKS \in Nat
      BY HeapAssumption, WordSizes DEF HEAP_BLOCKS
    <3>2. U64 \in Nat \ {0}
      BY <3>1, HeapAssumption
    <3> QED
      BY <3>2
  <2>2. free_blocks - n \in Int /\ used_blocks + n \in Int
    BY <1>2
  <2>3. free_blocks' \in 0 .. U64 - 1 /\ used_blocks' \in 0 .. U64 - 1
    BY <1>1, <2>1, <2>2
  <2>4. /\ pc' \in [Callers -> {"out", "probe", "mark", "count"}]
        /\ size' \in [Callers -> Nat] /\ start' \in [Callers -> Indices \cup {ENOMEM, Beyond}]
    BY <1>1, ZeroIndex
  <2>5. doubled' \in BOOLEAN
    BY <1>1
  <2>6. allocs' \subseteq [start : Indices, blocks : Nat, addr : Int, size : Nat]
    BY <1>1, <1>4
  <2> QED
    BY <1>1, <2>3, <2>4, <2>5, <2>6
<1>6. \A d \in Callers : pc'[d] # "out" =>
          d # c /\ pc'[d] = pc[d] /\ Region(d)' = Region(d) /\ start'[d] = start[d]
  BY <1>1 DEF Region
<1>7. allocs' \subseteq allocs \cup {r} /\ \A a \in allocs' : a.blocks # 0
  BY <1>1, <1>4
<1>8. NothingBeforeInit' /\ OneAtATime' /\ AllocShape'
  BY <1>1, <1>4, <1>7 DEF AddressOf
<1>9. AllocsMarked'
  BY <1>1, <1>2, <1>4, <1>7 DEF AllocsMarked, RegionMarked
<1>10. interrupts = 0 => \A a \in allocs : AllocBlocks(a) \cap Region(c) = {}
  BY <1>1 DEF RegionFree
<1>11. AllocsApart' /\ NoDoubleAllocation'
  BY <1>1, <1>4, <1>7, <1>10 DEF AllocsApart
<1>12. RegionInWindow' /\ RegionMarked'
  BY <1>1, <1>6 DEF RegionInWindow, RegionMarked
<1>13. RegionFree'
  <2>1. interrupts = 0 => \A d \in Callers : pc'[d] = "out"
    BY <1>1
  <2> QED
    BY <1>1, <2>1 DEF RegionFree
<1> QED
  BY <1>5, <1>8, <1>9, <1>11, <1>12, <1>13

(* An interrupt keeps the invariant: hitting malloc it ends what holds only *)
(* without one.                                                            *)
LEMMA InterruptIInv ==
    ASSUME IInv, NEW d \in Callers, Interrupt(d)
    PROVE  IInv'
<1>1. /\ UNCHANGED <<map, free_blocks, used_blocks, heap_addr, up, pc, allocs, doubled, halted>>
      /\ up /\ running' = d
  BY DEF Interrupt, counters, locals, results
<1>2. CASE pc[running] = "out"
  <2>1. UNCHANGED <<size, start, interrupts>>
    BY <1>2 DEF Interrupt, locals
  <2>2. interrupts = 0 => \A c \in Callers : pc[c] = "out"
    BY <1>2
  <2>3. TypeOK' /\ NothingBeforeInit' /\ OneAtATime' /\ AllocShape' /\ NoDoubleAllocation'
    BY <1>1, <2>1, <2>2 DEF AddressOf
  <2> QED
    BY <1>1, <2>1, <2>3 DEF AllocsMarked, RegionInWindow, RegionFree, RegionMarked, AllocsApart, Region
<1>3. CASE pc[running] # "out"
  <2>1. /\ interrupts < MAX_INTERRUPTS /\ interrupts' = interrupts + 1
        /\ \E i \in Indices \cup {ENOMEM, Beyond} : start' = [start EXCEPT ![running] = i]
        /\ \E sz \in Sizes : size' = [size EXCEPT ![running] = sz]
    BY <1>3 DEF Interrupt
  <2>2. interrupts' \in 0 .. MAX_INTERRUPTS /\ interrupts' > 0
    BY <2>1, HeapAssumption
  <2>3. TypeOK'
    BY <1>1, <2>1, <2>2, HeapAssumption
  <2>4. NothingBeforeInit' /\ OneAtATime' /\ AllocShape' /\ NoDoubleAllocation'
    BY <1>1, <2>2 DEF AddressOf
  <2> QED
    BY <2>2, <2>3, <2>4 DEF AllocsMarked, RegionInWindow, RegionFree, RegionMarked, AllocsApart
<1> QED
  BY <1>2, <1>3

(* The invariant is inductive. *)
LEMMA NextIInv == IInv /\ [Next]_vars => IInv'
<1> SUFFICES ASSUME IInv, [Next]_vars PROVE IInv'
  OBVIOUS
<1>1. CASE heap_init
  BY <1>1, HeapInitIInv
<1>2. ASSUME NEW c \in Callers, NEW sz \in Sizes, malloc(c, sz) PROVE IInv'
  BY <1>2, MallocIInv
<1>3. ASSUME NEW c \in Callers, Advance(c) \/ Interrupt(c) PROVE IInv'
  BY <1>3, InterruptIInv, ProbeFailsIInv, ProbeIInv, MarkIInv, CountIInv DEF Advance
<1>4. CASE Halted \/ UNCHANGED vars
  <2>1. UNCHANGED <<map, free_blocks, used_blocks, heap_addr, up, pc, size, start,
                    allocs, doubled, interrupts, running, halted>>
    BY <1>4 DEF Halted, vars, counters, locals, results, cpu
  <2> QED
    BY <2>1 DEF AllocsMarked, RegionInWindow, RegionFree, RegionMarked, AllocsApart,
       Region, AddressOf
<1> QED
  BY <1>1, <1>2, <1>3, <1>4 DEF Next

(* The invariant holds in every state of heap_init and malloc. *)
THEOREM Invariance == Spec => []IInv
<1>1. Init => IInv
  BY InitIInv
<1>2. IInv /\ [Next]_vars => IInv'
  BY NextIInv
<1> QED
  BY <1>1, <1>2, PTL DEF Spec

(* heap_init and malloc keep every variable in its type. *)
THEOREM TypeCorrect == Spec => []TypeOK
<1>1. IInv => TypeOK
  OBVIOUS
<1> QED
  BY <1>1, Invariance, PTL

(* Only a malloc that an interrupt has hit, in whose middle others may run *)
(* and whose locals are lost, hands out a block twice.                     *)
THEOREM BlocksHaveOneOwner == Spec => []NoDoubleAllocation
<1>1. IInv => NoDoubleAllocation
  OBVIOUS
<1> QED
  BY <1>1, Invariance, PTL

-----------------------------------------------------------------------------
(* A result is smaller than the bytes its blocks are apart: rounding down  *)
(* loses less than one block, and the stride at least doubles each.        *)
LEMMA SizeBelowStride ==
    ASSUME NEW sz \in Nat, Blocks(sz) # 0
    PROVE  sz <= Blocks(sz) * BLOCK_SIZE * LONG_BYTES
<1>1. \A x \in Nat, d \in Nat \ {0} : x \div d \in Nat /\ x < (x \div d) * d + d
  OBVIOUS
<1> DEFINE n == Blocks(sz)
           bytes == n * BLOCK_SIZE
<1>2. n \in Nat \ {0} /\ sz < n * BLOCK_SIZE + BLOCK_SIZE
  BY <1>1, HeapAssumption DEF Blocks
<1>3. BLOCK_SIZE \in Nat /\ LONG_BYTES \in Nat /\ LONG_BYTES >= 2
  BY HeapAssumption
<1>4. bytes \in Nat /\ BLOCK_SIZE <= bytes
  <2>1. \A x \in Nat \ {0}, y \in Nat : x * y \in Nat /\ y <= x * y
    OBVIOUS
  <2> QED
    BY <1>2, <1>3, <2>1
<1>5. bytes + bytes <= bytes * LONG_BYTES
  <2>1. \A x, y \in Nat : y >= 2 => x + x <= x * y
    OBVIOUS
  <2> HIDE DEF bytes
  <2> QED
    BY <1>3, <1>4, <2>1
<1>6. bytes * LONG_BYTES \in Nat
  BY <1>3, <1>4
<1>7. sz < bytes + BLOCK_SIZE
  BY <1>2
<1>8. bytes * LONG_BYTES = n * BLOCK_SIZE * LONG_BYTES
  OBVIOUS
<1> DEFINE top == bytes * LONG_BYTES
<1> HIDE DEF bytes, n, top
<1>9. sz <= top
  <2>1. top \in Nat /\ bytes + bytes <= top
    BY <1>5, <1>6 DEF top
  <2> QED
    BY <1>3, <1>4, <1>7, <2>1
<1> QED
  BY <1>8, <1>9 DEF n, top

(* Disjoint runs of blocks lie one before the other, and so do the bytes   *)
(* that their results give access to.                                      *)
LEMMA BytesApart ==
    ASSUME IInv, NEW a \in allocs, NEW b \in allocs, a.start + a.blocks <= b.start
    PROVE  Bytes(a) \cap Bytes(b) = {}
<1> DEFINE stride == BLOCK_SIZE * LONG_BYTES
<1>1. /\ a.start \in Nat /\ b.start \in Nat /\ a.blocks \in Nat
      /\ a.size \in Nat /\ b.size \in Nat
      /\ a.addr \in Int /\ b.addr \in Int /\ heap_addr \in Int
  <2>1. /\ a \in [start : Indices, blocks : Nat, addr : Int, size : Nat]
        /\ b \in [start : Indices, blocks : Nat, addr : Int, size : Nat]
    OBVIOUS
  <2> QED
    BY <2>1, BlockOfIndex
<1>2. stride \in Nat
  BY HeapAssumption
<1>3. \A x \in Int, y, z \in Nat : x * y * z = x * (y * z)
  OBVIOUS
<1>4. /\ a.addr = heap_addr + a.start * stride
      /\ b.addr = heap_addr + b.start * stride
      /\ a.size <= a.blocks * stride
  <2>1. BLOCK_SIZE \in Nat /\ LONG_BYTES \in Nat
    BY HeapAssumption
  <2>2. a.blocks = Blocks(a.size) /\ a.blocks # 0
    OBVIOUS
  <2>3. a.size <= a.blocks * BLOCK_SIZE * LONG_BYTES
    BY <1>1, <2>2, SizeBelowStride
  <2>4. /\ a.addr = heap_addr + a.start * BLOCK_SIZE * LONG_BYTES
        /\ b.addr = heap_addr + b.start * BLOCK_SIZE * LONG_BYTES
    BY DEF AddressOf
  <2> QED
    BY <1>1, <1>3, <2>1, <2>3, <2>4
<1>5. a.start * stride + a.blocks * stride <= b.start * stride
  <2>1. \A x, y, z, k \in Nat : x + y <= z => x * k + y * k <= z * k
    <3> SUFFICES ASSUME NEW x \in Nat, NEW y \in Nat, NEW z \in Nat, NEW k \in Nat, x + y <= z
                 PROVE  x * k + y * k <= z * k
      OBVIOUS
    <3>1. (x + y) * k = x * k + y * k
      OBVIOUS
    <3>2. \A p, q, r \in Nat : p <= q => p * r <= q * r
      OBVIOUS
    <3>3. (x + y) * k <= z * k
      BY <3>2
    <3> QED
      BY <3>1, <3>3
  <2> HIDE DEF stride
  <2> QED
    BY <1>1, <1>2, <2>1
<1> DEFINE sa == a.start * stride
           sb == b.start * stride
           na == a.blocks * stride
<1>6. sa \in Nat /\ sb \in Nat /\ na \in Nat
  BY <1>1, <1>2
<1>7. sa + na <= sb /\ a.addr = heap_addr + sa /\ b.addr = heap_addr + sb /\ a.size <= na
  BY <1>4, <1>5
<1> HIDE DEF sa, sb, na, stride
<1>8. a.addr + a.size <= b.addr
  BY <1>1, <1>6, <1>7
<1> QED
  BY <1>1, <1>8 DEF Bytes

(* Unless malloc was interrupted, two results of it share no byte.         *)
THEOREM ResultsShareNoByte == Spec => []ResultsDisjoint
<1>1. IInv => ResultsDisjoint
  <2> SUFFICES ASSUME IInv, interrupts = 0, NEW a \in allocs, NEW b \in allocs, a # b
               PROVE  Bytes(a) \cap Bytes(b) = {}
    BY DEF ResultsDisjoint
  <2>1. AllocBlocks(a) \cap AllocBlocks(b) = {}
    BY DEF AllocsApart
  <2>2. /\ a.start \in Nat /\ b.start \in Nat
        /\ a.blocks \in Nat \ {0} /\ b.blocks \in Nat \ {0}
    BY BlockOfIndex
  <2>3. a.start + a.blocks <= b.start \/ b.start + b.blocks <= a.start
    <3> SUFFICES ASSUME a.start + a.blocks > b.start, b.start + b.blocks > a.start
                 PROVE  FALSE
      BY <2>2
    <3>1. \/ a.start \in AllocBlocks(a) /\ a.start \in AllocBlocks(b)
          \/ b.start \in AllocBlocks(a) /\ b.start \in AllocBlocks(b)
      BY <2>2 DEF AllocBlocks
    <3> QED
      BY <2>1, <3>1
  <2>4. CASE a.start + a.blocks <= b.start
    BY <2>4, BytesApart
  <2>5. CASE b.start + b.blocks <= a.start
    BY <2>5, BytesApart
  <2> QED
    BY <2>3, <2>4, <2>5
<1> QED
  BY <1>1, Invariance, PTL

-----------------------------------------------------------------------------
(* A block of the run of n blocks at s is in use. *)
Taken(s, n) == \E i \in {s} \cup (s .. s + n - 1) : bitmap_test_bit(map, i)

(* Where the search stands, unless malloc was interrupted: no run inside   *)
(* heap.bitmap that starts below it will do.                               *)
SearchedBelow ==
    interrupts = 0 => \A c \in Callers :
        pc[c] \in {"probe", "mark"} /\ start[c] # ENOMEM =>
            \A s \in 0 .. HEAP_BLOCKS - 1 :
                s < start[c] /\ s + Blocks(size[c]) <= HEAP_BLOCKS => Taken(s, Blocks(size[c]))

(* The free count covers what the call in malloc is about to subtract.     *)
CountCovers ==
    interrupts = 0 => \A c \in Callers : pc[c] # "out" => Blocks(size[c]) <= free_blocks

BInv == SearchedBelow /\ CountCovers /\ FreeCountBounded

(* The scans of malloc cover heap.bitmap: their bound is its size in bytes. *)
LEMMA ScanCoversBitmap ==
    /\ buffer_long_size \in Nat /\ HEAP_BLOCKS \in Nat
    /\ buffer_long_size * BITS_PER_BLOCK \in Nat
    /\ HEAP_BLOCKS <= buffer_long_size * BITS_PER_BLOCK
<1>1. buffer_long_size \in Nat /\ HEAP_WORDS <= buffer_long_size
  <2>1. \A x \in Nat, y \in Nat \ {0} : x * y \in Nat /\ x <= x * y
    OBVIOUS
  <2> QED
    BY <2>1, HeapAssumption DEF buffer_long_size
<1>2. HEAP_BLOCKS <= buffer_long_size * BITS_PER_BLOCK
  <2>1. \A x, y, z \in Nat : x <= y => x * z <= y * z
    OBVIOUS
  <2> QED
    BY <1>1, <2>1, WordSizes, HeapAssumption DEF HEAP_BLOCKS
<1> QED
  BY <1>1, <1>2, WordSizes, HeapAssumption DEF HEAP_BLOCKS

(* malloc's first search skips only blocks in use. *)
LEMMA FirstSearch ==
    ASSUME NEW f, f = find_first_free(map, 0, buffer_long_size), f # ENOMEM,
           NEW n \in Nat, NEW s \in 0 .. HEAP_BLOCKS - 1, s < f
    PROVE  Taken(s, n)
<1>1. 0 % BITS_PER_BLOCK = 0
  BY WordSizes
<1>2. s \in ScanRange(0, buffer_long_size)
  BY <1>1, ScanCoversBitmap DEF ScanRange
<1>3. bitmap_test_bit(map, s)
  BY <1>2, ScanCoversBitmap, FindFirstFree
<1> QED
  BY <1>3 DEF Taken

(* Each later search skips only runs that hold a block in use: the one the *)
(* region check stopped at, or their first.                                *)
LEMMA NextSearch ==
    ASSUME NEW from \in Nat, NEW n \in Nat,
           NEW u \in from .. from + n - 1, bitmap_test_bit(map, u),
           NEW f, f = find_first_free(map, u, buffer_long_size), f # ENOMEM,
           NEW s \in 0 .. HEAP_BLOCKS - 1, from <= s, s < f
    PROVE  Taken(s, n)
<1>1. CASE s <= u
  <2>1. u \in s .. s + n - 1
    BY <1>1
  <2> QED
    BY <2>1 DEF Taken
<1>2. CASE u < s
  <2>1. Block(u) \in Nat /\ Block(u) < buffer_long_size
    <3>1. u \in 0 .. buffer_long_size * BITS_PER_BLOCK - 1
      BY <1>2, ScanCoversBitmap
    <3> QED
      BY <3>1, ScanCoversBitmap, BlockInWindow
  <2>2. ScanRange(u, buffer_long_size) = u .. buffer_long_size * BITS_PER_BLOCK - 1
    BY <2>1, ScanCoversBitmap DEF ScanRange
  <2>3. s \in ScanRange(u, buffer_long_size)
    BY <1>2, <2>2, ScanCoversBitmap
  <2>4. bitmap_test_bit(map, s)
    BY <2>3, ScanCoversBitmap, FindFirstFree
  <2> QED
    BY <2>4 DEF Taken
<1> QED
  BY <1>1, <1>2

(* Entering malloc: the count covers the blocks, the search starts at 0.   *)
LEMMA MallocBInv ==
    ASSUME IInv, BInv, NEW c \in Callers, NEW sz \in Sizes, malloc(c, sz)
    PROVE  BInv'
<1>1. /\ UNCHANGED <<map, free_blocks, up, interrupts, running>>
      /\ pc[c] = "out" /\ running = c
  BY DEF malloc, Runs, counters, cpu
<1>2. CASE free_blocks < Blocks(sz)
  <2>1. UNCHANGED <<pc, size, start>>
    BY <1>2 DEF malloc, locals
  <2> QED
    BY <1>1, <2>1 DEF BInv, SearchedBelow, CountCovers, FreeCountBounded, Taken
<1>3. CASE ~ (free_blocks < Blocks(sz))
  <2>1. /\ size' = [size EXCEPT ![c] = sz]
        /\ start' = [start EXCEPT ![c] = find_first_free(map, 0, buffer_long_size)]
        /\ pc' = [pc EXCEPT ![c] = "probe"]
    BY <1>3 DEF malloc
  <2>2. sz \in Nat /\ Blocks(sz) \in Nat /\ free_blocks \in Nat /\ Blocks(sz) <= free_blocks
    BY <1>3, BlocksType, HeapAssumption
  <2>3. interrupts' = 0 => interrupts = 0 /\ \A d \in Callers \ {c} : pc'[d] = "out"
    BY <1>1, <2>1
  <2>4. size'[c] = sz /\ start'[c] = find_first_free(map, 0, buffer_long_size)
    BY <2>1
  <2>5. CountCovers'
    BY <1>1, <2>2, <2>3, <2>4 DEF CountCovers
  <2>6. SearchedBelow'
    <3> SUFFICES ASSUME interrupts' = 0, start'[c] # ENOMEM,
                        NEW s \in 0 .. HEAP_BLOCKS - 1, s < start'[c]
                 PROVE  Taken(s, Blocks(sz))
      BY <1>1, <2>3, <2>4 DEF SearchedBelow, Taken
    <3> QED
      BY <2>2, <2>4, FirstSearch
  <2> QED
    BY <1>1, <2>3, <2>5, <2>6 DEF BInv, FreeCountBounded
<1> QED
  BY <1>2, <1>3

(* An iteration of malloc's loop skips no run that would do. *)
LEMMA ProbeBInv ==
    ASSUME IInv, BInv, NEW c \in Callers, Probe(c)
    PROVE  BInv'
<1> DEFINE n == Blocks(size[c])
           next_start == is_free_region_big_enough(map, start[c], n)
           again == find_first_free(map, next_start, buffer_long_size)
<1>1. /\ pc[c] = "probe" /\ start[c] # ENOMEM /\ running = c
      /\ UNCHANGED <<map, free_blocks, up, interrupts, running>>
  BY DEF Probe, Runs, counters, results, cpu
<1>2. start[c] \in Nat /\ n \in Nat
  BY <1>1, StartIsNatural, BlocksType
<1>3. FreeCountBounded'
  BY <1>1 DEF BInv, FreeCountBounded
<1>4. CASE next_start = 0 /\ pc' = [pc EXCEPT ![c] = "mark"] /\ UNCHANGED <<size, start>>
  <2>1. CountCovers'
    BY <1>1, <1>4 DEF BInv, CountCovers
  <2>2. SearchedBelow'
    BY <1>1, <1>4 DEF BInv, SearchedBelow, Taken
  <2> QED
    BY <1>3, <2>1, <2>2 DEF BInv
<1>5. CASE Leave(c)
  <2>1. \A d \in Callers : pc'[d] # "out" =>
            d # c /\ pc'[d] = pc[d] /\ size'[d] = size[d] /\ start'[d] = start[d]
    BY <1>5 DEF Leave
  <2>2. CountCovers'
    BY <1>1, <2>1 DEF BInv, CountCovers
  <2>3. SearchedBelow'
    BY <1>1, <2>1 DEF BInv, SearchedBelow, Taken
  <2> QED
    BY <1>3, <2>2, <2>3 DEF BInv
<1>6. CASE /\ next_start # 0 /\ again # ENOMEM
           /\ start' = [start EXCEPT ![c] = again] /\ UNCHANGED <<pc, size>>
  <2>1. CountCovers'
    BY <1>1, <1>6 DEF BInv, CountCovers
  <2>2. next_start \in start[c] .. start[c] + n - 1 /\ bitmap_test_bit(map, next_start)
    BY <1>2, <1>6, RegionCheck
  <2>3. SearchedBelow'
    <3> SUFFICES ASSUME interrupts = 0, NEW s \in 0 .. HEAP_BLOCKS - 1, s < again,
                        s + n <= HEAP_BLOCKS
                 PROVE  Taken(s, n)
      <4>1. interrupts = 0 => \A d \in Callers \ {c} : pc'[d] = "out"
        BY <1>1, <1>6
      <4>2. start'[c] = again /\ Blocks(size'[c]) = n
        BY <1>6
      <4>3. \A s : Taken(s, n)' = Taken(s, n)
        BY <1>1, <1>6 DEF Taken
      <4> HIDE DEF again, n
      <4> QED
        BY <1>1, <4>1, <4>2, <4>3 DEF SearchedBelow, Taken
    <3>1. CASE s < start[c]
      BY <1>1, <3>1 DEF BInv, SearchedBelow
    <3>2. CASE start[c] <= s
      <4> HIDE DEF n, next_start
      <4> QED
        BY <1>2, <1>6, <2>2, <3>2, NextSearch
    <3> QED
      BY <1>2, <3>1, <3>2
  <2> QED
    BY <1>3, <2>1, <2>3 DEF BInv
<1> QED
  BY <1>4, <1>5, <1>6 DEF Probe

(* Every step keeps the count and the search right. *)
LEMMA NextBInv == IInv /\ BInv /\ [Next]_vars => BInv'
<1> SUFFICES ASSUME IInv, BInv, [Next]_vars PROVE BInv'
  OBVIOUS
<1>1. CASE heap_init
  <2>1. \A c \in Callers : pc'[c] = "out"
    BY <1>1 DEF heap_init, locals
  <2>2. HEAP_BLOCKS \in Nat /\ free_blocks' = HEAP_BLOCKS
    BY <1>1, HeapAssumption, WordSizes DEF HEAP_BLOCKS, heap_init
  <2> QED
    BY <2>1, <2>2 DEF BInv, SearchedBelow, CountCovers, FreeCountBounded
<1>2. ASSUME NEW c \in Callers, NEW sz \in Sizes, malloc(c, sz) PROVE BInv'
  BY <1>2, MallocBInv
<1>3. ASSUME NEW c \in Callers, ProbeNothing(c) PROVE BInv'
  <2>1. UNCHANGED <<map, free_blocks, up, interrupts, running>>
    BY <1>3 DEF ProbeNothing, counters, results, cpu
  <2>2. \A d \in Callers : pc'[d] # "out" =>
            d # c /\ pc'[d] = pc[d] /\ size'[d] = size[d] /\ start'[d] = start[d]
    BY <1>3 DEF ProbeNothing, Leave
  <2>3. SearchedBelow' /\ CountCovers'
    BY <2>1, <2>2 DEF BInv, SearchedBelow, CountCovers, Taken
  <2> QED
    BY <2>1, <2>3 DEF BInv, FreeCountBounded
<1>4. ASSUME NEW c \in Callers, Probe(c) PROVE BInv'
  BY <1>4, ProbeBInv
<1>5. ASSUME NEW c \in Callers, Mark(c) PROVE BInv'
  <2>1. UNCHANGED <<free_blocks, up, interrupts, running, size, start>> /\ pc[c] = "mark"
        /\ running = c /\ pc' = [pc EXCEPT ![c] = "count"]
    BY <1>5 DEF Mark, Runs, counters, results, cpu
  <2>2. interrupts = 0 => \A d \in Callers : pc'[d] \notin {"probe", "mark"}
    BY <2>1
  <2>3. CountCovers'
    BY <2>1 DEF BInv, CountCovers
  <2>4. SearchedBelow'
    BY <2>1, <2>2 DEF SearchedBelow
  <2> QED
    BY <2>1, <2>3, <2>4 DEF BInv, FreeCountBounded
<1>6. ASSUME NEW c \in Callers, Count(c) PROVE BInv'
  <2> DEFINE n == Blocks(size[c])
  <2>1. /\ free_blocks' = (free_blocks - n) % U64 /\ UNCHANGED <<up, interrupts, running>>
        /\ pc[c] = "count" /\ pc' = [pc EXCEPT ![c] = "out"] /\ up /\ running = c
    BY <1>6 DEF Count, Leave, Runs, cpu
  <2>2. n \in Nat /\ HEAP_BLOCKS \in Nat /\ U64 \in Nat
    BY BlocksType, HeapAssumption, WordSizes DEF HEAP_BLOCKS
  <2>3. interrupts = 0 => \A d \in Callers : pc'[d] = "out"
    BY <2>1
  <2>4. interrupts = 0 => n <= free_blocks /\ free_blocks <= HEAP_BLOCKS
    BY <2>1 DEF BInv, CountCovers, FreeCountBounded
  <2> HIDE DEF n
  <2>5. interrupts = 0 => free_blocks' <= HEAP_BLOCKS
    <3> SUFFICES ASSUME interrupts = 0 PROVE free_blocks' <= HEAP_BLOCKS
      OBVIOUS
    <3>1. free_blocks - n \in 0 .. U64 - 1 /\ free_blocks - n <= HEAP_BLOCKS
      BY <2>2, <2>4
    <3>2. \A x \in 0 .. U64 - 1 : x % U64 = x
      BY <2>2
    <3> QED
      BY <2>1, <3>1, <3>2
  <2> QED
    BY <2>1, <2>3, <2>5 DEF BInv, SearchedBelow, CountCovers, FreeCountBounded
<1>7. CASE Halted \/ UNCHANGED vars \/ \E c \in Callers : Overrun(c)
  <2>1. UNCHANGED <<map, free_blocks, up, pc, size, start, interrupts, running>>
    BY <1>7 DEF Halted, Overrun, vars, counters, locals, results, cpu
  <2> QED
    BY <2>1 DEF BInv, SearchedBelow, CountCovers, FreeCountBounded, Taken
<1>8. ASSUME NEW d \in Callers, Interrupt(d) PROVE BInv'
  <2>1. UNCHANGED <<map, free_blocks, up, pc>> /\ interrupts \in Nat
    BY <1>8, HeapAssumption DEF Interrupt, counters, locals
  <2>2. \/ interrupts' = interrupts + 1
        \/ UNCHANGED <<interrupts, size, start>>
    BY <1>8 DEF Interrupt, locals
  <2> QED
    BY <2>1, <2>2 DEF BInv, SearchedBelow, CountCovers, FreeCountBounded, Taken
<1> QED
  BY <1>1, <1>2, <1>3, <1>4, <1>5, <1>6, <1>7, <1>8 DEF Next, Advance

(* malloc's bookkeeping, unless it was interrupted: the free count does    *)
(* not wrap, and a run leaves heap.bitmap only when no run inside it would *)
(* do.                                                                     *)
THEOREM BookkeepingHolds == Spec => []HeapBounded
<1>1. Init => BInv
  BY DEF Init, BInv, SearchedBelow, CountCovers, FreeCountBounded
<1>2. IInv /\ BInv => HeapBounded
  <2> SUFFICES ASSUME IInv, BInv, NEW c \in Callers, pc[c] = "mark", interrupts = 0,
                      start[c] + Blocks(size[c]) > HEAP_BLOCKS,
                      InsideRunFree(Blocks(size[c]))
               PROVE  FALSE
    BY DEF HeapBounded, BInv, LeavesBitmapOnlyIfFull
  <2> DEFINE n == Blocks(size[c])
  <2>1. PICK s \in 0 .. HEAP_BLOCKS - 1 :
            s + n <= HEAP_BLOCKS /\ \A i \in {s} \cup (s .. s + n - 1) : ~ bitmap_test_bit(map, i)
    BY DEF InsideRunFree
  <2>2. start[c] \in Nat /\ start[c] # ENOMEM /\ n \in Nat /\ HEAP_BLOCKS \in Nat
    <3>1. start[c] # ENOMEM
      BY DEF RegionInWindow
    <3> QED
      BY <3>1, StartIsNatural, BlocksType, HeapAssumption, WordSizes DEF HEAP_BLOCKS
  <2>3. s < start[c]
    BY <2>1, <2>2
  <2>4. Taken(s, n)
    BY <2>1, <2>2, <2>3 DEF BInv, SearchedBelow
  <2> QED
    BY <2>1, <2>4 DEF Taken
<1>3. IInv /\ BInv /\ [Next]_vars => BInv'
  BY NextBInv
<1> QED
  BY <1>1, <1>2, <1>3, Invariance, PTL DEF Spec
=============================================================================
