----------------------------- MODULE PmmProofs -----------------------------
(* Proofs about Pmm, for every word width, page size and memory map.       *)
EXTENDS Pmm, BitmapProofs, FiniteSetTheorems

LowPages == PageRange(0, LOW_MEMORY)

(* The bitmap lies in the window. *)
BitmapInWindow == BitmapSize \in Nat /\ BitmapSize <= WINDOW

(* Nothing is handed out before pmm_init. *)
NothingHeldAtBoot == pc = "boot" => held = {}

(* A page that is held is marked, unless its alias was freed. *)
HeldMarked ==
    ~ aliased_free => \A p \in held : Mask(p) \subseteq map[Block(p)]

(* The low memory is marked as long as the manager runs. *)
LowMarked ==
    pc \in {"idle", "probe"} => \A p \in LowPages : Mask(p) \subseteq map[Block(p)]

(* Where the search stands: nothing below it will do. *)
Searched ==
    pc = "probe" =>
        IF page_frame = ENOMEM
        THEN \A s \in TrackedPages : ~ FreeRun(s)
        ELSE /\ ~ bitmap_test_bit(map, page_frame)
             /\ \A s \in 0 .. page_frame - 1 : ~ FreeRun(s)

IInv ==
    /\ TypeOK
    /\ BitmapInWindow
    /\ NothingHeldAtBoot
    /\ NoDoubleAllocation
    /\ HeldMarked
    /\ LowMarked
    /\ LowMemoryReserved
    /\ Searched

-----------------------------------------------------------------------------
(* A page of the window lies in one of its words. *)
LEMMA BlockOfPage ==
    ASSUME NEW p \in Pages
    PROVE  p \in Nat /\ Block(p) \in Words
  BY BlockInWindow, PmmAssumption DEF Pages, Words

(* A search of pmm.c looks at pages of the window only. *)
LEMMA ScanInPages ==
    ASSUME NEW start \in Pages, NEW words \in Nat, words <= WINDOW
    PROVE  ScanRange(start, words) \subseteq Pages
  BY ScanInWindow, PmmAssumption DEF Pages

(* What find_first_free returns is a page of the window or ENOMEM. *)
LEMMA FirstFreeType ==
    ASSUME NEW start \in Pages, NEW words \in Nat, words <= WINDOW, NEW m
    PROVE  find_first_free(m, start, words) \in Pages \cup {ENOMEM}
<1>1. start \in Nat
  BY BlockOfPage
<1> QED
  BY <1>1, FindFirstFree, ScanInPages

(* 0x100000 is a whole number of words of pages. *)
LEMMA LowWords ==
    \E k \in 1 .. WINDOW :
        /\ LOW_MEMORY = k * BITS_PER_BLOCK * PAGE_SIZE
        /\ LowPages = 0 .. k * BITS_PER_BLOCK - 1
<1>1. PICK k \in 1 .. WINDOW : LOW_MEMORY = k * BITS_PER_BLOCK * PAGE_SIZE
  BY PmmAssumption
<1> DEFINE a == k * BITS_PER_BLOCK
<1>2. a \in Nat /\ LOW_MEMORY = a * PAGE_SIZE
  BY <1>1, WordSizes, PmmAssumption
<1> HIDE DEF a
<1>3. \A x \in Nat, d \in Nat \ {0} : (x * d) \div d = x /\ (x * d) % d = 0
  OBVIOUS
<1>4. LOW_MEMORY \div PAGE_SIZE = a /\ LOW_MEMORY % PAGE_SIZE = 0
  BY <1>2, <1>3, PmmAssumption
<1>5. (0 + LOW_MEMORY) % U64 = LOW_MEMORY
  BY PmmAssumption
<1>6. 0 \div PAGE_SIZE = 0
  BY PmmAssumption
<1>7. LowPages = 0 .. a - 1
  BY <1>2, <1>4, <1>5, <1>6 DEF LowPages, PageRange
<1> QED
  BY <1>1, <1>7 DEF a

(* The low pages are pages of the window, and share no word with others.   *)
LEMMA LowPagesApart ==
    /\ LowPages \subseteq Pages
    /\ \A p \in LowPages, q \in Pages \ LowPages : Block(p) # Block(q)
<1>1. PICK k \in 1 .. WINDOW : LowPages = 0 .. k * BITS_PER_BLOCK - 1
  BY LowWords
<1>2. \A x, y \in Nat, c \in Nat \ {0} : x <= y => x * c <= y * c
  OBVIOUS
<1>3. k \in Nat /\ k * BITS_PER_BLOCK <= WINDOW * BITS_PER_BLOCK
  BY <1>2, WordSizes, PmmAssumption
<1>4. k * BITS_PER_BLOCK \in Nat /\ WINDOW * BITS_PER_BLOCK \in Nat
  BY <1>3, WordSizes, PmmAssumption
<1>5. LowPages \subseteq Pages
  BY <1>1, <1>3, <1>4 DEF Pages
<1>6. ASSUME NEW p \in LowPages, NEW q \in Pages \ LowPages, Block(p) = Block(q)
      PROVE  FALSE
  <2>1. p \in Nat /\ q \in Nat /\ p < k * BITS_PER_BLOCK /\ k * BITS_PER_BLOCK <= q
    BY <1>1, <1>4, <1>5, BlockOfPage
  <2>2. Block(p) \in Nat /\ Block(p) * BITS_PER_BLOCK <= p
    BY <2>1, BlockBounds
  <2>3. q <= Block(p) * BITS_PER_BLOCK + BITS_PER_BLOCK - 1
    BY <1>6, <2>1, BlockBounds
  <2>4. \A x, y \in Nat, c \in Nat \ {0} : x * c < y * c => x + 1 <= y
    OBVIOUS
  <2>5. Block(p) * BITS_PER_BLOCK < k * BITS_PER_BLOCK
    BY <1>4, <2>1, <2>2, WordSizes
  <2>6. Block(p) + 1 <= k
    BY <1>3, <2>2, <2>4, <2>5, WordSizes
  <2>7. (Block(p) + 1) * BITS_PER_BLOCK <= k * BITS_PER_BLOCK
    BY <1>2, <1>3, <2>2, <2>6, WordSizes
  <2>8. (Block(p) + 1) * BITS_PER_BLOCK = Block(p) * BITS_PER_BLOCK + BITS_PER_BLOCK
    BY <2>2, WordSizes
  <2> QED
    BY <1>4, <2>1, <2>2, <2>3, <2>7, <2>8, WordSizes
<1> QED
  BY <1>5, <1>6

(* The loops of pmm_free and pmm_reserve visit natural numbers. *)
LEMMA PageRangeType ==
    ASSUME NEW addr \in Nat, NEW len \in Nat
    PROVE  PageRange(addr, len) \subseteq Nat
<1>1. addr \div PAGE_SIZE \in Nat
  BY PmmAssumption
<1>2. (addr + len) % U64 \in Nat
  BY PmmAssumption
<1> DEFINE bound == ((addr + len) % U64) \div PAGE_SIZE
<1>3. bound \in Nat
  BY <1>2, PmmAssumption
<1> HIDE DEF bound
<1> QED
  BY <1>1, <1>3 DEF PageRange, bound

(* pmm_init leaves a well-typed bitmap with the low memory marked. *)
LEMMA InitialMapMarked ==
    ASSUME NEW mm \in MemMaps, NEW ram \in [Words -> SUBSET Bits]
    PROVE  /\ InitialMap(mm, ram) \in [Words -> SUBSET Bits]
           /\ \A p \in LowPages : Mask(p) \subseteq InitialMap(mm, ram)[Block(p)]
<1> DEFINE size   == SizeFor(TotalMemory(mm) \div PAGE_SIZE)
           filled == [w \in Words |-> IF w < size THEN Bits ELSE ram[w]]
           freed  == ClearBits(filled, UsablePages(mm))
           bytes  == size * (BITS_PER_BLOCK \div 8)
           itself == SetBits(freed, PageRange(WordValue(freed[0]), bytes))
<1>1. size \in Nat
  <2>1. TotalMemory(mm) \in Nat
    BY MemMapsAssumption, PmmAssumption
  <2>2. TotalMemory(mm) \div PAGE_SIZE \in Nat
    BY <2>1, PmmAssumption
  <2> QED
    BY <2>2, WordSizes DEF SizeFor
<1>2. bytes \in Nat
  <2>1. BITS_PER_BLOCK \div 8 \in Nat
    BY WordSizes
  <2> HIDE DEF size
  <2> QED
    BY <1>1, <2>1
<1>3. filled \in [Words -> SUBSET Bits]
  OBVIOUS
<1>4. UsablePages(mm) \subseteq Nat
  BY PageRangeType, MemMapsAssumption DEF UsablePages, Usable
<1>5. freed \in [Words -> SUBSET Bits]
  <2> HIDE DEF filled
  <2> QED
    BY <1>3, <1>4, SetClearType
<1>6. itself \in [Words -> SUBSET Bits]
  <2> HIDE DEF freed, bytes
  <2>1. 0 \in Words
    BY PmmAssumption DEF Words
  <2>2. WordValue(freed[0]) \in Nat
    BY <1>5, <2>1, PmmAssumption
  <2>3. PageRange(WordValue(freed[0]), bytes) \subseteq Nat
    BY <1>2, <2>2, PageRangeType
  <2> QED
    BY <1>5, <2>3, SetClearType
<1>7. InitialMap(mm, ram) = SetBits(itself, LowPages)
  BY DEF InitialMap, LowPages
<1> HIDE DEF itself
<1>8. LowPages \subseteq Nat
  BY LowPagesApart, BlockOfPage
<1>9. InitialMap(mm, ram) \in [Words -> SUBSET Bits]
  BY <1>6, <1>7, <1>8, SetClearType
<1>10. ASSUME NEW p \in LowPages
       PROVE  Mask(p) \subseteq InitialMap(mm, ram)[Block(p)]
  <2>1. Block(p) \in DOMAIN itself
    BY <1>6, LowPagesApart, BlockOfPage
  <2> QED
    BY <1>7, <2>1, SetBitsMarks
<1> QED
  BY <1>9, <1>10

(* One iteration of the search loop: from "nothing below page_frame will   *)
(* do" to "nothing below the next candidate will do".                      *)
LEMMA SearchStep ==
    ASSUME IInv, ProbeUsed
    PROVE  IF page_frame' = ENOMEM
           THEN \A s \in TrackedPages : ~ FreeRun(s)
           ELSE /\ ~ bitmap_test_bit(map, page_frame')
                /\ \A s \in 0 .. page_frame' - 1 : ~ FreeRun(s)
<1> DEFINE u == is_free_region_big_enough(map, page_frame, num_pages)
<1>1. /\ page_frame \in Pages /\ num_pages \in Nat
      /\ BitmapSize \in Nat /\ BitmapSize <= WINDOW
      /\ \A s \in 0 .. page_frame - 1 : ~ FreeRun(s)
  BY DEF IInv, TypeOK, BitmapInWindow, Searched, ProbeUsed
<1>2. page_frame \in Nat
  BY <1>1, BlockOfPage
<1>3. u # 0 /\ page_frame' = find_first_free(map, u, BitmapSize) /\ ~ Overrun
  BY DEF ProbeUsed
<1>4. u \in page_frame .. page_frame + num_pages - 1 /\ bitmap_test_bit(map, u)
  BY <1>1, <1>2, <1>3, RegionCheck
<1> HIDE DEF u
<1>5. u \in Pages /\ u \in Nat
  BY <1>1, <1>2, <1>3, <1>4, WordSizes, PmmAssumption DEF Overrun, Pages
<1>6. \A s \in 0 .. u : ~ FreeRun(s)
  <2> SUFFICES ASSUME NEW s \in 0 .. u, ~ (s < page_frame) PROVE ~ FreeRun(s)
    BY <1>1, <1>2
  <2>1. u \in s .. s + num_pages - 1
    BY <1>1, <1>2, <1>4, <1>5
  <2> QED
    BY <1>4, <1>5, <2>1 DEF FreeRun
<1>7. \A s \in Pages : bitmap_test_bit(map, s) => ~ FreeRun(s)
  BY DEF FreeRun
<1>8. ScanRange(u, BitmapSize) \subseteq Pages
  BY <1>1, <1>5, ScanInPages
<1>9. CASE page_frame' = ENOMEM
  <2>1. \A i \in ScanRange(u, BitmapSize) : bitmap_test_bit(map, i)
    <3>1. ENOMEM \notin ScanRange(u, BitmapSize)
      BY <1>8, BlockOfPage DEF ENOMEM
    <3> QED
      BY <1>1, <1>3, <1>5, <1>9, <3>1, FindFirstFree
  <2>2. ASSUME NEW s \in TrackedPages PROVE ~ FreeRun(s)
    <3>1. s \in Nat /\ s <= BitmapSize * BITS_PER_BLOCK - 1
      BY <1>1, WordSizes DEF TrackedPages
    <3>2. CASE s <= u
      BY <1>5, <1>6, <3>1, <3>2
    <3>3. CASE s > u
      <4>1. Block(u) \in Nat /\ Block(u) * BITS_PER_BLOCK <= u
        BY <1>5, BlockBounds
      <4>2. \A a, b \in Nat, c \in Nat \ {0} : a <= b => a * c <= b * c
        OBVIOUS
      <4>3. ~ (Block(u) >= BitmapSize)
        <5> SUFFICES ASSUME BitmapSize <= Block(u) PROVE FALSE
          BY <1>1, <4>1
        <5>1. BitmapSize * BITS_PER_BLOCK <= Block(u) * BITS_PER_BLOCK
          BY <1>1, <4>1, <4>2, WordSizes
        <5>2. /\ BitmapSize * BITS_PER_BLOCK \in Int
              /\ Block(u) * BITS_PER_BLOCK \in Int
          BY <1>1, <4>1, WordSizes
        <5> QED
          BY <1>5, <3>1, <3>3, <4>1, <5>1, <5>2
      <4>4. s \in ScanRange(u, BitmapSize)
        BY <1>1, <1>5, <3>1, <3>3, <4>3, WordSizes DEF ScanRange
      <4> QED
        BY <1>7, <1>8, <2>1, <4>4
    <3> QED
      BY <1>5, <3>1, <3>2, <3>3
  <2> QED
    BY <1>9, <2>2
<1>10. CASE page_frame' # ENOMEM
  <2>0. PICK f : f = page_frame'
    OBVIOUS
  <2>1. /\ f \in ScanRange(u, BitmapSize)
        /\ ~ bitmap_test_bit(map, f)
        /\ \A i \in ScanRange(u, BitmapSize) : i < f => bitmap_test_bit(map, i)
    BY <1>1, <1>3, <1>5, <1>10, <2>0, FindFirstFree
  <2>2. f \in Nat
    BY <1>8, <2>1, BlockOfPage
  <2>3. ASSUME NEW s \in 0 .. f - 1 PROVE ~ FreeRun(s)
    <3>1. CASE s <= u
      BY <1>5, <1>6, <2>2, <3>1
    <3>2. CASE s > u
      <4>1. s \in ScanRange(u, BitmapSize)
        <5>1. \A top \in Int : f \in u .. top => s \in u .. top
          BY <1>5, <2>2, <3>2
        <5>2. (Block(u) + 1) * BITS_PER_BLOCK - 1 \in Int /\ BitmapSize * BITS_PER_BLOCK - 1 \in Int
          BY <1>1, <1>5, BlockBounds, WordSizes
        <5> QED
          BY <2>1, <5>1, <5>2 DEF ScanRange
      <4> QED
        BY <1>7, <1>8, <2>1, <2>2, <4>1
    <3> QED
      BY <1>5, <2>2, <3>1, <3>2
  <2> QED
    BY <1>10, <2>0, <2>1, <2>3
<1> QED
  BY <1>9, <1>10

-----------------------------------------------------------------------------
(* The invariant holds before pmm_init. *)
LEMMA InitIInv == Init => IInv
<1> SUFFICES ASSUME Init PROVE IInv
  OBVIOUS
<1>1. 0 \in Pages
  <2>1. WINDOW * BITS_PER_BLOCK \in Nat \ {0}
    BY WordSizes, PmmAssumption
  <2> QED
    BY <2>1 DEF Pages
<1>2. TypeOK
  <2>1. map \in [Words -> SUBSET Bits]
    BY PmmAssumption DEF Init
  <2>2. 0 \in 0 .. U64 - 1
    BY PmmAssumption
  <2> QED
    BY <1>1, <2>1, <2>2 DEF Init, TypeOK
<1>3. BitmapInWindow
  <2>1. total_pages = 0 /\ 0 \div BITS_PER_BLOCK = 0
    BY WordSizes DEF Init
  <2> QED
    BY <2>1, PmmAssumption DEF BitmapInWindow, BitmapSize, SizeFor
<1> QED
  BY <1>2, <1>3 DEF Init, IInv, NothingHeldAtBoot, NoDoubleAllocation, HeldMarked, LowMarked,
     LowMemoryReserved, Searched

(* pmm_init keeps the invariant. *)
LEMMA PmmInitIInv == IInv /\ pmm_init => IInv'
<1> SUFFICES ASSUME IInv, pmm_init PROVE IInv'
  OBVIOUS
<1>1. /\ memmap \in MemMaps /\ map \in [Words -> SUBSET Bits]
      /\ memmap' = memmap /\ UNCHANGED <<locals, ghosts>>
  BY DEF IInv, TypeOK, pmm_init
<1>2. /\ TotalMemory(memmap) \in 0 .. U64 - 1
      /\ get_total_memory(memmap, 0) \in 0 .. U64 - 1
      /\ get_total_memory(memmap, 1) \in 0 .. U64 - 1
  BY <1>1, MemMapsAssumption
<1>3. \A x \in 0 .. U64 - 1 : x \div PAGE_SIZE \in 0 .. U64 - 1
  <2>1. \A x \in Nat, d \in Nat \ {0} : x \div d \in Nat /\ x \div d <= x
    OBVIOUS
  <2> QED
    BY <2>1, PmmAssumption
<1>4. /\ total_pages' \in 0 .. U64 - 1
      /\ used_pages' \in 0 .. U64 - 1
      /\ available_pages' \in 0 .. U64 - 1
  BY <1>2, <1>3 DEF pmm_init
<1>5. \/ pc' = "idle" /\ map' = InitialMap(memmap, map)
      \/ pc' = "fault" /\ map' = map
  BY DEF pmm_init
<1>6. TypeOK'
  BY <1>1, <1>4, <1>5, InitialMapMarked DEF IInv, TypeOK, locals, ghosts
<1>7. BitmapInWindow'
  <2>1. total_pages' = TotalMemory(memmap) \div PAGE_SIZE /\ total_pages' \in Nat
    BY <1>4, PmmAssumption DEF pmm_init
  <2>2. BitmapSize' = SizeFor(total_pages') /\ SizeFor(total_pages') \in Nat
    BY <2>1, WordSizes DEF BitmapSize, SizeFor
  <2> QED
    BY <1>1, <2>1, <2>2, MemMapsAssumption DEF BitmapInWindow
<1>8. NothingHeldAtBoot' /\ NoDoubleAllocation' /\ LowMemoryReserved' /\ HeldMarked'
  BY <1>1, <1>5 DEF IInv, NothingHeldAtBoot, NoDoubleAllocation, LowMemoryReserved, HeldMarked,
     ghosts, pmm_init
<1>9. LowMarked'
  BY <1>1, <1>5, InitialMapMarked DEF LowMarked
<1>10. Searched'
  BY <1>5 DEF Searched
<1> QED
  BY <1>6, <1>7, <1>8, <1>9, <1>10 DEF IInv

(* Entering pmm_alloc keeps the invariant. *)
LEMMA PmmAllocIInv ==
    ASSUME IInv, NEW size \in Sizes, pmm_alloc(size)
    PROVE  IInv'
<1>1. UNCHANGED <<memmap, map, info, ghosts>> /\ pc = "idle"
  BY DEF pmm_alloc
<1>2. /\ total_pages' = total_pages /\ map' = map /\ held' = held
      /\ doubled' = doubled /\ aliased_free' = aliased_free
  BY <1>1 DEF info, ghosts
<1>3. 0 \in Pages
  <2>1. WINDOW * BITS_PER_BLOCK \in Nat \ {0}
    BY WordSizes, PmmAssumption
  <2> QED
    BY <2>1 DEF Pages
<1>4. BitmapSize \in Nat /\ BitmapSize <= WINDOW /\ BitmapSize' = BitmapSize
  BY <1>2 DEF IInv, BitmapInWindow, BitmapSize
<1>5. CASE available_pages = 0
  <2>1. page_frame' = ENOMEM /\ pc' = "idle" /\ num_pages' = num_pages
    BY <1>1, <1>5 DEF pmm_alloc
  <2>2. TypeOK'
    BY <1>1, <2>1 DEF IInv, TypeOK, info, ghosts
  <2> QED
    BY <1>1, <1>2, <1>4, <2>1, <2>2 DEF IInv, BitmapInWindow, NothingHeldAtBoot,
       NoDoubleAllocation, HeldMarked, LowMarked, LowMemoryReserved, Searched
<1>6. CASE available_pages # 0
  <2>1. /\ page_frame' = find_first_free(map, 0, BitmapSize) /\ pc' = "probe"
        /\ num_pages' = align_up(size) \div PAGE_SIZE
    BY <1>6 DEF pmm_alloc
  <2>2. num_pages' \in Nat
    <3>1. size \in Nat
      BY PmmAssumption
    <3>2. size % PAGE_SIZE \in 0 .. PAGE_SIZE - 1
      BY <3>1, PmmAssumption
    <3>3. align_up(size) \in Nat
      BY <3>1, <3>2, PmmAssumption DEF align_up
    <3> QED
      BY <2>1, <3>3, PmmAssumption
  <2>3. page_frame' \in Pages \cup {ENOMEM}
    BY <1>3, <1>4, <2>1, FirstFreeType
  <2>4. TypeOK'
    BY <1>1, <2>1, <2>2, <2>3 DEF IInv, TypeOK, info, ghosts
  <2>5. ScanRange(0, BitmapSize) = TrackedPages
    <3>1. 0 % BITS_PER_BLOCK = 0
      BY WordSizes
    <3> QED
      BY <3>1 DEF ScanRange, TrackedPages
  <2>6. TrackedPages \subseteq Pages
    BY <1>3, <1>4, <2>5, ScanInPages
  <2>7. \A s \in Pages : bitmap_test_bit(map, s) => ~ FreeRun(s)'
    BY <1>2 DEF FreeRun
  <2>8. ENOMEM \notin Pages
    BY BlockOfPage DEF ENOMEM
  <2>9. Searched'
    <3>1. CASE page_frame' = ENOMEM
      <4>1. \A i \in TrackedPages : bitmap_test_bit(map, i)
        BY <1>4, <2>1, <2>5, <2>6, <2>8, <3>1, FindFirstFree
      <4>2. TrackedPages' = TrackedPages
        BY <1>4 DEF TrackedPages
      <4> QED
        BY <2>6, <2>7, <3>1, <4>1, <4>2 DEF Searched
    <3>2. CASE page_frame' # ENOMEM
      <4>1. PICK f : f = page_frame'
        OBVIOUS
      <4>2. /\ f \in TrackedPages /\ ~ bitmap_test_bit(map, f)
            /\ \A i \in TrackedPages : i < f => bitmap_test_bit(map, i)
        BY <1>4, <2>1, <2>5, <3>2, <4>1, FindFirstFree
      <4>3. \A s \in 0 .. f - 1 : s \in TrackedPages /\ s < f
        BY <1>4, <4>2, WordSizes DEF TrackedPages
      <4> QED
        BY <1>2, <2>6, <2>7, <3>2, <4>1, <4>2, <4>3 DEF Searched
    <3> QED
      BY <3>1, <3>2
  <2> QED
    BY <1>1, <1>2, <1>4, <2>1, <2>4, <2>9 DEF IInv, BitmapInWindow, NothingHeldAtBoot,
       NoDoubleAllocation, HeldMarked, LowMarked, LowMemoryReserved
<1> QED
  BY <1>5, <1>6

(* An iteration that searches on keeps the invariant. *)
LEMMA ProbeUsedIInv == IInv /\ ProbeUsed => IInv'
<1> SUFFICES ASSUME IInv, ProbeUsed PROVE IInv'
  OBVIOUS
<1>1. /\ UNCHANGED <<memmap, map, info, ghosts>> /\ pc = "probe" /\ page_frame # ENOMEM
      /\ \/ page_frame' = ENOMEM /\ pc' = "idle" /\ num_pages' = 0
         \/ page_frame' # ENOMEM /\ pc' = pc /\ num_pages' = num_pages
  BY DEF ProbeUsed
<1>2. /\ total_pages' = total_pages /\ map' = map /\ held' = held
      /\ doubled' = doubled /\ aliased_free' = aliased_free
  BY <1>1 DEF info, ghosts
<1>3. BitmapSize \in Nat /\ BitmapSize <= WINDOW /\ BitmapSize' = BitmapSize
  BY <1>2 DEF IInv, BitmapInWindow, BitmapSize
<1>4. page_frame' \in Pages \cup {ENOMEM}
  <2> DEFINE u == is_free_region_big_enough(map, page_frame, num_pages)
  <2>1. page_frame \in Pages /\ page_frame \in Nat /\ num_pages \in Nat
    BY <1>1, BlockOfPage DEF IInv, TypeOK
  <2>2. u \in page_frame .. page_frame + num_pages - 1
    BY <2>1, RegionCheck DEF ProbeUsed
  <2>3. page_frame' = find_first_free(map, u, BitmapSize)
    BY DEF ProbeUsed
  <2> HIDE DEF u
  <2>4. u \in Pages
    BY <2>1, <2>2, WordSizes, PmmAssumption DEF ProbeUsed, Overrun, Pages
  <2> QED
    BY <1>3, <2>3, <2>4, FirstFreeType
<1>5. TypeOK'
  BY <1>1, <1>4 DEF IInv, TypeOK, info, ghosts
<1>6. Searched'
  <2> SUFFICES ASSUME page_frame' # ENOMEM, num_pages' = num_pages PROVE Searched'
    BY <1>1 DEF Searched
  <2>1. \A s : FreeRun(s)' <=> FreeRun(s)
    BY <1>2 DEF FreeRun
  <2> QED
    BY <1>2, <2>1, SearchStep DEF Searched
<1> QED
  BY <1>1, <1>2, <1>3, <1>5, <1>6 DEF IInv, BitmapInWindow, NothingHeldAtBoot,
     NoDoubleAllocation, HeldMarked, LowMarked, LowMemoryReserved

(* The iteration that hands out a run keeps the invariant. *)
LEMMA ProbeFreeIInv == IInv /\ ProbeFree => IInv'
<1> SUFFICES ASSUME IInv, ProbeFree PROVE IInv'
  OBVIOUS
<1>1. /\ page_frame \in Pages /\ page_frame \in Nat /\ num_pages \in Nat
      /\ map \in [Words -> SUBSET Bits] /\ held \subseteq Pages
  BY BlockOfPage DEF IInv, TypeOK, ProbeFree
<1>2. Region \subseteq Pages /\ Region \subseteq Nat
  BY <1>1, WordSizes, PmmAssumption DEF ProbeFree, Overrun, Pages, Region
<1>3. /\ map' = SetBits(map, Region) /\ held' = held \cup Region
      /\ doubled' = (doubled \/ held \cap Region # {}) /\ aliased_free' = aliased_free
      /\ pc = "probe" /\ pc' = "idle" /\ total_pages' = total_pages
      /\ num_pages' = 0 /\ page_frame' = page_frame /\ memmap' = memmap
  BY DEF ProbeFree
<1>4. \A p \in Region : ~ bitmap_test_bit(map, p)
  <2>1. is_free_region_big_enough(map, page_frame, num_pages) = 0
    BY DEF ProbeFree
  <2>2. ~ bitmap_test_bit(map, page_frame)
    BY <1>3 DEF IInv, Searched, ProbeFree
  <2> QED
    BY <1>1, <2>1, <2>2, RegionCheck DEF Region
<1>5. \A p \in Region : ~ (Mask(p) \subseteq map[Block(p)])
  <2> SUFFICES ASSUME NEW p \in Region, Mask(p) \subseteq map[Block(p)] PROVE FALSE
    OBVIOUS
  <2>1. Mask(p) # {}
    BY <1>2, MaskType
  <2> QED
    BY <1>4, <2>1 DEF bitmap_test_bit
<1>6. TypeOK'
  <2>1. map' \in [Words -> SUBSET Bits]
    BY <1>1, <1>2, <1>3, SetClearType
  <2>2. \A x \in Int : x % U64 \in 0 .. U64 - 1
    BY PmmAssumption
  <2>3. available_pages - num_pages \in Int /\ used_pages + num_pages \in Int
    BY <1>1 DEF IInv, TypeOK
  <2>4. available_pages' \in 0 .. U64 - 1 /\ used_pages' \in 0 .. U64 - 1
    BY <2>2, <2>3 DEF ProbeFree
  <2>5. doubled' \in BOOLEAN
    BY <1>3
  <2> QED
    BY <1>1, <1>2, <1>3, <2>1, <2>4, <2>5 DEF IInv, TypeOK
<1>7. BitmapInWindow'
  BY <1>3 DEF IInv, BitmapInWindow, BitmapSize
<1>8. \A w \in Words : map[w] \subseteq map'[w]
  BY <1>1, <1>3, SetBitsMarks
<1>9. HeldMarked'
  <2> SUFFICES ASSUME ~ aliased_free, NEW p \in held \cup Region
               PROVE  Mask(p) \subseteq map'[Block(p)]
    BY <1>3 DEF HeldMarked
  <2>1. Block(p) \in Words
    BY <1>1, <1>2, BlockOfPage
  <2>2. CASE p \in held
    BY <1>8, <2>1, <2>2 DEF IInv, HeldMarked
  <2>3. CASE p \in Region
    BY <1>1, <1>3, <2>1, <2>3, SetBitsMarks
  <2> QED
    BY <2>2, <2>3
<1>10. NoDoubleAllocation'
  BY <1>3, <1>5 DEF IInv, NoDoubleAllocation, HeldMarked
<1>11. LowMarked' /\ LowMemoryReserved'
  <2>1. \A p \in LowPages : Mask(p) \subseteq map[Block(p)]
    BY <1>3 DEF IInv, LowMarked
  <2>2. \A p \in LowPages : Block(p) \in Words
    BY LowPagesApart, BlockOfPage
  <2>3. Region \cap LowPages = {}
    BY <1>5, <2>1
  <2> QED
    BY <1>3, <1>8, <2>1, <2>2, <2>3 DEF IInv, LowMarked, LowMemoryReserved, LowPages
<1>12. NothingHeldAtBoot' /\ Searched'
  BY <1>3 DEF NothingHeldAtBoot, Searched
<1> QED
  BY <1>6, <1>7, <1>9, <1>10, <1>11, <1>12 DEF IInv

(* pmm_free_page keeps the invariant. *)
LEMMA FreePageIInv ==
    ASSUME IInv, NEW page \in Pages, pmm_free_page(page)
    PROVE  IInv'
<1>1. /\ page \in held /\ held \subseteq Pages /\ map \in [Words -> SUBSET Bits]
      /\ map' = ClearBits(map, {page}) /\ held' = held \ {page}
      /\ aliased_free' = (aliased_free \/ \E p \in held \ {page} : Alias(p, page))
      /\ pc = "idle" /\ pc' = "idle" /\ total_pages' = total_pages
      /\ num_pages' = num_pages /\ page_frame' = page_frame /\ memmap' = memmap
      /\ doubled' = doubled
  BY DEF pmm_free_page, IInv, TypeOK, locals
<1>2. page \in Nat /\ Block(page) \in Words
  BY BlockOfPage
<1>3. TypeOK'
  <2>1. map' \in [Words -> SUBSET Bits]
    BY <1>1, <1>2, SetClearType
  <2>2. \A x \in Int : x % U64 \in 0 .. U64 - 1
    BY PmmAssumption
  <2>3. available_pages + 1 \in Int /\ used_pages - 1 \in Int
    BY DEF IInv, TypeOK
  <2>4. available_pages' \in 0 .. U64 - 1 /\ used_pages' \in 0 .. U64 - 1
    BY <2>2, <2>3 DEF pmm_free_page
  <2>5. aliased_free' \in BOOLEAN
    BY <1>1
  <2> QED
    BY <1>1, <2>1, <2>4, <2>5 DEF IInv, TypeOK
<1>4. BitmapInWindow'
  BY <1>1 DEF IInv, BitmapInWindow, BitmapSize
\* A page that does not alias the freed one keeps its marks.
<1>5. ASSUME NEW p \in Pages, ~ Alias(p, page), Mask(p) \subseteq map[Block(p)]
      PROVE  Mask(p) \subseteq map'[Block(p)]
  <2>1. p \in Nat /\ Block(p) \in Words
    BY BlockOfPage
  <2>2. Block(p) = Block(page) => Mask(p) \cap Mask(page) = {}
    BY <1>2, <1>5, <2>1, MaskOverlap DEF Alias
  <2> QED
    BY <1>1, <1>5, <2>1, <2>2, ClearBitsKeeps
<1>6. HeldMarked'
  <2> SUFFICES ASSUME ~ aliased_free', NEW p \in held \ {page}
               PROVE  Mask(p) \subseteq map'[Block(p)]
    BY <1>1 DEF HeldMarked
  <2>1. ~ aliased_free /\ ~ Alias(p, page)
    BY <1>1
  <2> QED
    BY <1>1, <1>5, <2>1 DEF IInv, HeldMarked
<1>7. LowMarked'
  <2>1. page \notin LowPages
    BY <1>1 DEF IInv, LowMemoryReserved, LowPages
  <2>2. \A p \in LowPages : p \in Pages /\ ~ Alias(p, page)
    BY <2>1, LowPagesApart DEF Alias
  <2> QED
    BY <1>1, <1>5, <2>2 DEF IInv, LowMarked
<1>8. NothingHeldAtBoot' /\ NoDoubleAllocation' /\ LowMemoryReserved' /\ Searched'
  BY <1>1 DEF IInv, NothingHeldAtBoot, NoDoubleAllocation, LowMemoryReserved, Searched
<1> QED
  BY <1>3, <1>4, <1>6, <1>7, <1>8 DEF IInv

(* The invariant is inductive. *)
LEMMA NextIInv == IInv /\ [Next]_vars => IInv'
<1> SUFFICES ASSUME IInv, [Next]_vars PROVE IInv'
  OBVIOUS
<1>1. CASE pmm_init
  BY <1>1, PmmInitIInv
<1>2. CASE \E size \in Sizes : pmm_alloc(size)
  BY <1>2, PmmAllocIInv
<1>3. CASE ProbeNothing
  BY <1>3 DEF ProbeNothing, info, ghosts, IInv, TypeOK, BitmapInWindow, BitmapSize,
     NothingHeldAtBoot, NoDoubleAllocation, HeldMarked, LowMarked, LowMemoryReserved, Searched
<1>4. CASE ProbeUsed
  BY <1>4, ProbeUsedIInv
<1>5. CASE ProbeFree
  BY <1>5, ProbeFreeIInv
<1>6. CASE ProbeOverrun
  BY <1>6 DEF ProbeOverrun, info, locals, ghosts, IInv, TypeOK, BitmapInWindow, BitmapSize,
     NothingHeldAtBoot, NoDoubleAllocation, HeldMarked, LowMarked, LowMemoryReserved, Searched
<1>7. CASE \E page \in Pages : pmm_free_page(page)
  BY <1>7, FreePageIInv
<1>8. CASE Halted \/ UNCHANGED vars
  BY <1>8 DEF Halted, vars, info, locals, ghosts, IInv, TypeOK, BitmapInWindow, BitmapSize,
     NothingHeldAtBoot, NoDoubleAllocation, HeldMarked, LowMarked, LowMemoryReserved, Searched,
     TrackedPages, FreeRun
<1> QED
  BY <1>1, <1>2, <1>3, <1>4, <1>5, <1>6, <1>7, <1>8 DEF Next, Probe

(* The invariant holds in every state of the physical memory manager. *)
THEOREM Invariance == Spec => []IInv
<1>1. Init => IInv
  BY InitIInv
<1>2. IInv /\ [Next]_vars => IInv'
  BY NextIInv
<1> QED
  BY <1>1, <1>2, PTL DEF Spec

(* pmm_init, pmm_alloc and pmm_free_page keep every variable in its type,  *)
(* the counters within a machine word.                                     *)
THEOREM TypeCorrect == Spec => []TypeOK
<1>1. IInv => TypeOK
  BY DEF IInv
<1> QED
  BY <1>1, Invariance, PTL

(* pmm_alloc hands out a page twice only after an alias of a held page was *)
(* freed.                                                                  *)
THEOREM PagesHaveOneOwner == Spec => []NoDoubleAllocation
<1>1. IInv => NoDoubleAllocation
  BY DEF IInv
<1> QED
  BY <1>1, Invariance, PTL

(* The memory below 0x100000 is never handed out. *)
THEOREM LowMemoryIsReserved == Spec => []LowMemoryReserved
<1>1. IInv => LowMemoryReserved
  BY DEF IInv
<1> QED
  BY <1>1, Invariance, PTL

(* The search loop of pmm_alloc is first fit and complete. *)
THEOREM AllocIsFirstFit == Spec => FirstFit
<1> DEFINE Answer ==
        pc = "probe" /\ pc' = "idle" =>
            IF page_frame' = ENOMEM
            THEN \A s \in TrackedPages : ~ FreeRun(s)
            ELSE FreeRun(page_frame') /\ \A s \in 0 .. page_frame' - 1 : ~ FreeRun(s)
<1>1. IInv /\ [Next]_vars => [Answer]_vars
  <2> SUFFICES ASSUME IInv, Next, pc = "probe", pc' = "idle" PROVE Answer
    OBVIOUS
  <2>1. CASE ProbeNothing
    BY <2>1 DEF ProbeNothing, IInv, Searched
  <2>2. CASE ProbeUsed
    BY <2>2, SearchStep DEF ProbeUsed
  <2>3. CASE ProbeFree
    <3>1. /\ page_frame \in Pages /\ page_frame \in Nat /\ num_pages \in Nat
          /\ page_frame' = page_frame /\ page_frame # ENOMEM
      BY <2>3, BlockOfPage DEF IInv, TypeOK, ProbeFree
    <3>2. ~ bitmap_test_bit(map, page_frame) /\ \A s \in 0 .. page_frame - 1 : ~ FreeRun(s)
      BY <3>1 DEF IInv, Searched
    <3>3. \A p \in page_frame .. page_frame + num_pages - 1 : ~ bitmap_test_bit(map, p)
      <4>1. is_free_region_big_enough(map, page_frame, num_pages) = 0
        BY <2>3 DEF ProbeFree
      <4> QED
        BY <3>1, <3>2, <4>1, RegionCheck
    <3>4. FreeRun(page_frame)
      BY <3>2, <3>3 DEF FreeRun
    <3> QED
      BY <3>1, <3>2, <3>4
  <2>4. CASE Halted
    BY <2>4 DEF Halted, vars
  <2> QED
    BY <2>1, <2>2, <2>3, <2>4 DEF Next, Probe, pmm_init, pmm_alloc, ProbeOverrun, pmm_free_page
<1> QED
  BY <1>1, Invariance, PTL DEF Spec, FirstFit

-----------------------------------------------------------------------------
(* The pages held are finitely many. *)
LEMMA HeldFinite ==
    ASSUME IInv
    PROVE  IsFiniteSet(held) /\ Cardinality(held) \in Nat
<1>1. WINDOW * BITS_PER_BLOCK - 1 \in Int
  BY WordSizes, PmmAssumption
<1>2. IsFiniteSet(Pages)
  BY <1>1, FS_Interval DEF Pages
<1>3. held \in SUBSET Pages
  BY DEF IInv, TypeOK
<1> QED
  BY <1>2, <1>3, FS_Subset, FS_CardinalityType

(* What pmm_init reads from the memory map fits a counter. *)
LEMMA StartCounts ==
    ASSUME IInv
    PROVE  /\ get_total_memory(memmap, 0) \div PAGE_SIZE \in 0 .. U64 - 1
           /\ get_total_memory(memmap, 1) \div PAGE_SIZE \in 0 .. U64 - 1
<1>1. get_total_memory(memmap, 0) \in 0 .. U64 - 1 /\ get_total_memory(memmap, 1) \in 0 .. U64 - 1
  BY MemMapsAssumption DEF IInv, TypeOK
<1>2. \A x \in Nat, d \in Nat \ {0} : x \div d \in Nat /\ x \div d <= x
  OBVIOUS
<1> QED
  BY <1>1, <1>2, PmmAssumption

(* Every step moves the counters by the pages it hands out or takes back.  *)
LEMMA NextCounters == IInv /\ CountersExact /\ [Next]_vars => CountersExact'
<1> SUFFICES ASSUME IInv, CountersExact, [Next]_vars PROVE CountersExact'
  OBVIOUS
<1> DEFINE a0 == get_total_memory(memmap, 0) \div PAGE_SIZE
           u0 == get_total_memory(memmap, 1) \div PAGE_SIZE
           h == Cardinality(held)
<1>1. a0 \in 0 .. U64 - 1 /\ u0 \in 0 .. U64 - 1 /\ U64 \in Nat \ {0}
  BY StartCounts, PmmAssumption
<1>2. h \in Nat /\ IsFiniteSet(held)
  BY HeldFinite
<1>3. CASE pmm_init
  <2>1. /\ available_pages' = a0 /\ used_pages' = u0 /\ memmap' = memmap /\ held' = held
        /\ held = {}
    BY <1>3 DEF pmm_init, ghosts, IInv, NothingHeldAtBoot
  <2>2. h = 0
    BY <2>1, FS_EmptySet
  <2>3. a0 - 0 = a0 /\ u0 + 0 = u0 /\ a0 % U64 = a0 /\ u0 % U64 = u0
    <3> HIDE DEF a0, u0
    <3> QED
      BY <1>1
  <2> QED
    BY <2>1, <2>2, <2>3 DEF CountersExact
<1>4. CASE ProbeFree
  <2> SUFFICES ASSUME ~ doubled'
               PROVE  /\ available_pages' = (a0 - Cardinality(held')) % U64
                      /\ used_pages' = (u0 + Cardinality(held')) % U64
    BY <1>4 DEF ProbeFree, CountersExact
  <2>1. /\ available_pages' = (available_pages - num_pages) % U64
        /\ used_pages' = (used_pages + num_pages) % U64
        /\ held' = held \cup Region /\ held \cap Region = {} /\ ~ doubled /\ pc # "boot"
    BY <1>4 DEF ProbeFree
  <2>2. page_frame \in Nat /\ num_pages \in Nat
    BY <1>4, BlockOfPage DEF ProbeFree, IInv, TypeOK
  <2>3. IsFiniteSet(Region) /\ Cardinality(Region) = num_pages
    <3>1. /\ page_frame \in Int /\ page_frame + num_pages - 1 \in Int
          /\ (IF page_frame > page_frame + num_pages - 1 THEN 0
              ELSE (page_frame + num_pages - 1) - page_frame + 1) = num_pages
      BY <2>2
    <3> QED
      BY <3>1, FS_Interval DEF Region
  <2>4. Cardinality(held') = h + num_pages
    <3>1. Cardinality(held \cap Region) = 0
      BY <2>1, FS_EmptySet
    <3>2. Cardinality(held \cup Region) = h + num_pages - 0
      BY <1>2, <2>3, <3>1, FS_Union
    <3> QED
      BY <1>2, <2>1, <2>2, <3>2
  <2>5. available_pages = (a0 - h) % U64 /\ used_pages = (u0 + h) % U64
    BY <2>1 DEF CountersExact
  <2> HIDE DEF a0, u0, h
  <2>6. ((a0 - h) + (-num_pages)) % U64 = (a0 - (h + num_pages)) % U64
    BY <1>1, <1>2, <2>2
  <2>7. ((u0 + h) + num_pages) % U64 = (u0 + (h + num_pages)) % U64
    BY <1>1, <1>2, <2>2
  <2>8. a0 - h \in Int /\ u0 + h \in Int /\ -num_pages \in Int /\ num_pages \in Int
    BY <1>1, <1>2, <2>2
  <2>9. (((a0 - h) % U64) + (-num_pages)) % U64 = ((a0 - h) + (-num_pages)) % U64
    BY <1>1, <2>8, ModOfReduced
  <2>10. (((u0 + h) % U64) + num_pages) % U64 = ((u0 + h) + num_pages) % U64
    BY <1>1, <2>8, ModOfReduced
  <2>11. available_pages - num_pages = available_pages + (-num_pages)
    BY <2>2 DEF IInv, TypeOK
  <2> QED
    BY <2>1, <2>4, <2>5, <2>6, <2>7, <2>9, <2>10, <2>11
<1>5. ASSUME NEW page \in Pages, pmm_free_page(page) PROVE CountersExact'
  <2>1. /\ available_pages' = (available_pages + 1) % U64
        /\ used_pages' = (used_pages - 1) % U64
        /\ held' = held \ {page} /\ page \in held /\ ~ doubled /\ pc = "idle"
        /\ memmap' = memmap
    BY <1>5 DEF pmm_free_page
  <2>2. Cardinality(held') = h - 1
    BY <1>2, <2>1, FS_RemoveElement
  <2>3. available_pages = (a0 - h) % U64 /\ used_pages = (u0 + h) % U64
    BY <2>1 DEF CountersExact
  <2>4. a0' = a0 /\ u0' = u0
    BY <2>1
  <2> HIDE DEF a0, u0, h
  <2>5. ((a0 - h) + 1) % U64 = (a0 - (h - 1)) % U64
    BY <1>1, <1>2
  <2>6. ((u0 + h) + (-1)) % U64 = (u0 + (h - 1)) % U64
    BY <1>1, <1>2
  <2>7. a0 - h \in Int /\ u0 + h \in Int
    BY <1>1, <1>2
  <2>8. (((a0 - h) % U64) + 1) % U64 = ((a0 - h) + 1) % U64
    BY <1>1, <2>7, ModOfReduced
  <2>9. (((u0 + h) % U64) + (-1)) % U64 = ((u0 + h) + (-1)) % U64
    BY <1>1, <2>7, ModOfReduced
  <2>10. used_pages - 1 = used_pages + (-1)
    BY DEF IInv, TypeOK
  <2>11. /\ available_pages' = (a0 - Cardinality(held')) % U64
         /\ used_pages' = (u0 + Cardinality(held')) % U64
    BY <2>1, <2>2, <2>3, <2>5, <2>6, <2>8, <2>9, <2>10
  <2> QED
    BY <2>4, <2>11 DEF CountersExact, a0, u0
<1>6. CASE \/ \E size \in Sizes : pmm_alloc(size)
           \/ ProbeNothing \/ ProbeUsed \/ ProbeOverrun \/ Halted \/ UNCHANGED vars
  <2>1. UNCHANGED <<memmap, available_pages, used_pages, held, doubled>>
        /\ (pc' # "boot" => pc # "boot")
    BY <1>6 DEF pmm_alloc, ProbeNothing, ProbeUsed, ProbeOverrun, Halted, vars, info, ghosts
  <2> QED
    BY <2>1 DEF CountersExact
<1> QED
  BY <1>3, <1>4, <1>5, <1>6 DEF Next, Probe

(* pmm_info counts every page handed out and taken back, in the arithmetic *)
(* of a machine word, as long as no page has two owners.                   *)
THEOREM CountersAreExact == Spec => []CountersExact
<1>1. Init => CountersExact
  BY DEF Init, CountersExact
<1>2. IInv /\ CountersExact /\ [Next]_vars => CountersExact'
  BY NextCounters
<1> QED
  BY <1>1, <1>2, Invariance, PTL DEF Spec

-----------------------------------------------------------------------------
(* The bitmap is as long as the memory map asks for. *)
SizeOf(mm) == SizeFor(TotalMemory(mm) \div PAGE_SIZE)

SizeKept == pc # "boot" => BitmapSize = SizeOf(memmap)

(* A bit of the bitmap is clear only under the mask of a usable page. *)
ClearedUsable ==
    pc \in {"idle", "probe"} =>
        \A w \in Words : w < BitmapSize =>
            \A b \in Bits \ map[w] : \E q \in UsablePages(memmap) : Block(q) = w /\ b \in Mask(q)

(* A page that the bitmap covers and that is held has a usable alias. *)
HeldUsable ==
    \A p \in held \cap TrackedPages : \E q \in UsablePages(memmap) : Alias(p, q)

(* With an unusable last page, the search and what it hands out stay       *)
(* within the bitmap.                                                      *)
HeldTracked ==
    Sentinel(memmap) =>
        /\ held \subseteq TrackedPages
        /\ pc = "probe" /\ page_frame # ENOMEM => page_frame \in TrackedPages

UInv == SizeKept /\ ClearedUsable /\ HeldUsable /\ HeldTracked

(* The pages that the bitmap covers are those of its words. *)
LEMMA TrackedBlocks ==
    ASSUME IInv
    PROVE  /\ TrackedPages \subseteq Pages
           /\ \A p \in Pages : p \in TrackedPages <=> Block(p) < BitmapSize
<1>1. BitmapSize \in Nat /\ BitmapSize <= WINDOW
  BY DEF IInv, BitmapInWindow
<1>2. \A x, y, c \in Nat : x <= y => x * c <= y * c
  OBVIOUS
<1>3. /\ BitmapSize * BITS_PER_BLOCK \in Nat /\ WINDOW * BITS_PER_BLOCK \in Nat
      /\ BitmapSize * BITS_PER_BLOCK <= WINDOW * BITS_PER_BLOCK
  BY <1>1, <1>2, WordSizes, PmmAssumption
<1>4. TrackedPages \subseteq Pages
  BY <1>3 DEF TrackedPages, Pages
<1>5. \A p \in TrackedPages : Block(p) < BitmapSize
  BY <1>1, BlockInWindow DEF TrackedPages
<1>6. ASSUME NEW p \in Pages, Block(p) < BitmapSize PROVE p \in TrackedPages
  <2>1. /\ p \in Nat /\ Block(p) \in Nat
        /\ p <= Block(p) * BITS_PER_BLOCK + BITS_PER_BLOCK - 1
    BY BlockOfPage, BlockBounds
  <2>2. (Block(p) + 1) * BITS_PER_BLOCK <= BitmapSize * BITS_PER_BLOCK
    BY <1>1, <1>2, <1>6, <2>1, WordSizes
  <2>3. (Block(p) + 1) * BITS_PER_BLOCK = Block(p) * BITS_PER_BLOCK + BITS_PER_BLOCK
    BY <2>1, WordSizes
  <2>4. Block(p) * BITS_PER_BLOCK \in Nat
    BY <2>1, WordSizes
  <2> QED
    BY <1>3, <2>1, <2>2, <2>3, <2>4, WordSizes DEF TrackedPages
<1> QED
  BY <1>4, <1>5, <1>6

(* A bit that pmm_init leaves clear lies under the mask of a usable page. *)
LEMMA InitialMapClears ==
    ASSUME NEW mm \in MemMaps, NEW ram, NEW w \in Words, w < SizeOf(mm),
           NEW b \in Bits, b \notin InitialMap(mm, ram)[w]
    PROVE  \E q \in UsablePages(mm) : Block(q) = w /\ b \in Mask(q)
<1> DEFINE size   == SizeFor(TotalMemory(mm) \div PAGE_SIZE)
           filled == [x \in Words |-> IF x < size THEN Bits ELSE ram[x]]
           freed  == ClearBits(filled, UsablePages(mm))
           bytes  == size * (BITS_PER_BLOCK \div 8)
           itself == SetBits(freed, PageRange(WordValue(freed[0]), bytes))
<1>1. InitialMap(mm, ram) = SetBits(itself, PageRange(0, LOW_MEMORY))
  BY DEF InitialMap
<1>2. DOMAIN filled = Words /\ filled[w] = Bits
  BY DEF SizeOf
<1>3. DOMAIN freed = Words /\ freed[w] = filled[w] \ MaskIn(w, UsablePages(mm))
  <2> HIDE DEF filled
  <2> QED
    BY <1>2 DEF ClearBits
<1>4. DOMAIN itself = Words /\ freed[w] \subseteq itself[w]
  <2> HIDE DEF freed
  <2> QED
    BY <1>3, SetBitsMarks DEF SetBits
<1>5. itself[w] \subseteq InitialMap(mm, ram)[w]
  <2> HIDE DEF itself
  <2> QED
    BY <1>1, <1>4, SetBitsMarks
<1>6. b \in MaskIn(w, UsablePages(mm))
  <2> HIDE DEF filled, freed, itself
  <2> QED
    BY <1>2, <1>3, <1>4, <1>5
<1> QED
  BY <1>6 DEF MaskIn

(* The pages of a memory map are natural numbers. *)
LEMMA UsableType ==
    ASSUME NEW mm \in MemMaps
    PROVE  UsablePages(mm) \subseteq Nat
  BY PageRangeType, MemMapsAssumption DEF UsablePages, Usable

(* A free page that the bitmap covers has a usable alias. *)
LEMMA FreeIsUsable ==
    ASSUME IInv, UInv, pc \in {"idle", "probe"}, NEW p \in TrackedPages,
           ~ bitmap_test_bit(map, p)
    PROVE  \E q \in UsablePages(memmap) : Alias(p, q)
<1>1. p \in Nat /\ Block(p) \in Words /\ Block(p) < BitmapSize
  BY TrackedBlocks, BlockOfPage
<1>2. PICK b : b \in Mask(p) /\ b \in Bits
  BY <1>1, MaskType
<1>3. b \notin map[Block(p)]
  BY <1>2 DEF bitmap_test_bit
<1>4. PICK q \in UsablePages(memmap) : Block(q) = Block(p) /\ b \in Mask(q)
  BY <1>1, <1>2, <1>3 DEF UInv, ClearedUsable
<1>5. q \in Nat
  BY UsableType DEF IInv, TypeOK
<1> QED
  BY <1>1, <1>2, <1>4, <1>5, MaskAlias

(* An unusable last page is in use for ever. *)
LEMMA SentinelMarked ==
    ASSUME IInv, UInv, pc \in {"idle", "probe"}, Sentinel(memmap)
    PROVE  /\ BitmapSize * BITS_PER_BLOCK - 1 \in TrackedPages
           /\ bitmap_test_bit(map, BitmapSize * BITS_PER_BLOCK - 1)
<1> DEFINE last == BitmapSize * BITS_PER_BLOCK - 1
<1>1. BitmapSize = SizeOf(memmap) /\ BitmapSize \in Nat /\ memmap \in MemMaps
  BY DEF UInv, SizeKept, IInv, BitmapInWindow, TypeOK
<1>2. BitmapSize # 0
  <2>1. LOW_MEMORY <= SizeOf(memmap) * BITS_PER_BLOCK * PAGE_SIZE
    BY <1>1, MemMapsAssumption DEF SizeOf
  <2>2. LOW_MEMORY \in Nat /\ LOW_MEMORY >= 1
    BY PmmAssumption
  <2>3. BitmapSize = 0 => SizeOf(memmap) * BITS_PER_BLOCK * PAGE_SIZE = 0
    BY <1>1, WordSizes, PmmAssumption
  <2> QED
    BY <2>1, <2>2, <2>3
<1>3. last \in TrackedPages
  <2>1. BitmapSize * BITS_PER_BLOCK \in Nat \ {0}
    BY <1>1, <1>2, WordSizes
  <2> QED
    BY <2>1 DEF TrackedPages
<1>4. last \in Nat
  BY <1>3, TrackedBlocks, BlockOfPage
<1>5. \A q \in UsablePages(memmap) : ~ Alias(q, last)
  BY <1>1 DEF Sentinel, SizeOf
<1> HIDE DEF last
<1>6. bitmap_test_bit(map, last)
  <2> SUFFICES ASSUME ~ bitmap_test_bit(map, last) PROVE FALSE
    OBVIOUS
  <2>1. PICK q \in UsablePages(memmap) : Alias(last, q)
    BY <1>3, FreeIsUsable
  <2> QED
    BY <1>5, <2>1 DEF Alias
<1> QED
  BY <1>3, <1>6 DEF last

(* A search that starts in the bitmap goes on in it, and finds its run in  *)
(* it, when the last page is in use.                                       *)
LEMMA SearchTracked ==
    ASSUME IInv, pc = "probe", page_frame \in TrackedPages, page_frame # ENOMEM,
           BitmapSize * BITS_PER_BLOCK - 1 \in TrackedPages,
           bitmap_test_bit(map, BitmapSize * BITS_PER_BLOCK - 1),
           NEW u, u = is_free_region_big_enough(map, page_frame, num_pages)
    PROVE  /\ u # 0 => find_first_free(map, u, BitmapSize) \in TrackedPages \cup {ENOMEM}
           /\ u = 0 => Region \subseteq TrackedPages
<1> DEFINE last == BitmapSize * BITS_PER_BLOCK - 1
<1>1. /\ page_frame \in Nat /\ num_pages \in Nat /\ last \in Nat
      /\ TrackedPages = 0 .. last /\ BitmapSize \in Nat
  BY TrackedBlocks, BlockOfPage DEF IInv, TypeOK, TrackedPages, BitmapInWindow
<1>2. bitmap_test_bit(map, last)
  OBVIOUS
<1>3. ~ bitmap_test_bit(map, page_frame)
  BY DEF IInv, Searched
<1>4. \/ /\ u = 0
         /\ \A i \in Region : ~ bitmap_test_bit(map, i)
      \/ /\ u \in Region
         /\ bitmap_test_bit(map, u)
         /\ \A i \in Region : bitmap_test_bit(map, i) => u <= i
  BY <1>1, RegionCheck DEF Region
<1>5. CASE u # 0
  <2>1. u \in TrackedPages
    <3> HIDE DEF last
    <3>1. u \in Region /\ \A i \in Region : bitmap_test_bit(map, i) => u <= i
      BY <1>4, <1>5
    <3>2. u \in Nat /\ page_frame <= u
      BY <1>1, <3>1 DEF Region
    <3>3. u > last => last \in Region
      BY <1>1, <3>1, <3>2 DEF Region
    <3>4. u <= last
      BY <1>1, <1>2, <3>1, <3>2, <3>3
    <3> QED
      BY <1>1, <3>2, <3>4
  <2>2. u \in Nat /\ Block(u) \in Nat /\ Block(u) < BitmapSize
    BY <2>1, TrackedBlocks, BlockOfPage, BlockBounds
  <2>3. ScanRange(u, BitmapSize) = u .. last
    BY <1>1, <2>2 DEF ScanRange
  <2>4. ScanRange(u, BitmapSize) \subseteq TrackedPages
    <3> HIDE DEF last
    <3> QED
      BY <1>1, <2>2, <2>3
  <2> QED
    BY <1>1, <2>2, <2>4, <1>5, FindFirstFree
<1>6. CASE u = 0
  <2>1. \A i \in Region : ~ bitmap_test_bit(map, i)
    <3>1. u \in Region => page_frame = 0
      BY <1>1, <1>6 DEF Region
    <3> QED
      BY <1>3, <1>4, <1>6, <3>1
  <2>2. last \notin Region
    BY <1>2, <2>1
  <2> HIDE DEF last
  <2> QED
    BY <1>1, <1>6, <2>2 DEF Region
<1> QED
  BY <1>5, <1>6

(* pmm_init keeps it: it clears the bits of usable pages only. *)
LEMMA PmmInitUInv == IInv /\ UInv /\ pmm_init => UInv'
<1> SUFFICES ASSUME IInv, UInv, pmm_init PROVE UInv'
  OBVIOUS
<1>1. /\ memmap \in MemMaps /\ memmap' = memmap /\ held' = {}
      /\ total_pages' = TotalMemory(memmap) \div PAGE_SIZE
      /\ \/ pc' = "fault"
         \/ pc' = "idle" /\ map' = InitialMap(memmap, map)
  BY DEF pmm_init, IInv, TypeOK, NothingHeldAtBoot, ghosts
<1>2. BitmapSize' = SizeOf(memmap)
  BY <1>1 DEF BitmapSize, SizeOf
<1>3. SizeKept'
  BY <1>1, <1>2 DEF SizeKept, SizeOf
<1>4. ClearedUsable'
  <2> SUFFICES ASSUME pc' = "idle", NEW w \in Words, w < SizeOf(memmap), NEW b \in Bits \ map'[w]
               PROVE  \E q \in UsablePages(memmap) : Block(q) = w /\ b \in Mask(q)
    BY <1>1, <1>2 DEF ClearedUsable
  <2> QED
    BY <1>1, InitialMapClears
<1>5. HeldUsable' /\ HeldTracked'
  BY <1>1 DEF HeldUsable, HeldTracked
<1> QED
  BY <1>3, <1>4, <1>5 DEF UInv

(* The first search of pmm_alloc keeps it: it looks at the bitmap only. *)
LEMMA PmmAllocUInv ==
    ASSUME IInv, UInv, NEW size \in Sizes, pmm_alloc(size)
    PROVE  UInv'
<1>1. /\ pc = "idle" /\ map' = map /\ memmap' = memmap /\ held' = held
      /\ total_pages' = total_pages
      /\ \/ pc' = "idle"
         \/ pc' = "probe" /\ page_frame' = find_first_free(map, 0, BitmapSize)
  BY DEF pmm_alloc, info, ghosts
<1>2. BitmapSize' = BitmapSize /\ TrackedPages' = TrackedPages /\ BitmapSize \in Nat
  BY <1>1 DEF BitmapSize, TrackedPages, IInv, BitmapInWindow
<1>3. SizeKept' /\ ClearedUsable' /\ HeldUsable'
  BY <1>1, <1>2 DEF UInv, SizeKept, ClearedUsable, HeldUsable
<1>4. ScanRange(0, BitmapSize) = TrackedPages
  <2>1. 0 % BITS_PER_BLOCK = 0
    BY WordSizes
  <2> QED
    BY <2>1 DEF ScanRange, TrackedPages
<1>5. find_first_free(map, 0, BitmapSize) \in TrackedPages \cup {ENOMEM}
  BY <1>2, <1>4, FindFirstFree
<1>6. HeldTracked'
  BY <1>1, <1>2, <1>5 DEF UInv, HeldTracked
<1> QED
  BY <1>3, <1>6 DEF UInv

(* The iteration that searches on keeps it: an unusable last page stops    *)
(* the region before the end of the bitmap.                                *)
LEMMA ProbeUsedUInv == IInv /\ UInv /\ ProbeUsed => UInv'
<1> SUFFICES ASSUME IInv, UInv, ProbeUsed PROVE UInv'
  OBVIOUS
<1> DEFINE u == is_free_region_big_enough(map, page_frame, num_pages)
<1>1. /\ pc = "probe" /\ pc' \in {"idle", "probe"} /\ map' = map /\ memmap' = memmap
      /\ held' = held /\ total_pages' = total_pages /\ page_frame # ENOMEM
      /\ u # 0 /\ page_frame' = find_first_free(map, u, BitmapSize)
  BY DEF ProbeUsed, info, ghosts
<1> HIDE DEF u
<1>2. BitmapSize' = BitmapSize /\ TrackedPages' = TrackedPages
  BY <1>1 DEF BitmapSize, TrackedPages
<1>3. SizeKept' /\ ClearedUsable' /\ HeldUsable'
  BY <1>1, <1>2 DEF UInv, SizeKept, ClearedUsable, HeldUsable
<1>4. HeldTracked'
  <2> SUFFICES ASSUME Sentinel(memmap) PROVE page_frame' \in TrackedPages \cup {ENOMEM}
    BY <1>1, <1>2 DEF UInv, HeldTracked
  <2>1. page_frame \in TrackedPages
    BY <1>1 DEF UInv, HeldTracked
  <2> QED
    BY <1>1, <2>1, SentinelMarked, SearchTracked DEF u
<1> QED
  BY <1>3, <1>4 DEF UInv

(* The iteration that hands out a run keeps it: the run was free. *)
LEMMA ProbeFreeUInv == IInv /\ UInv /\ ProbeFree => UInv'
<1> SUFFICES ASSUME IInv, UInv, ProbeFree PROVE UInv'
  OBVIOUS
<1>1. /\ pc = "probe" /\ pc' = "idle" /\ map' = SetBits(map, Region) /\ memmap' = memmap
      /\ held' = held \cup Region /\ total_pages' = total_pages /\ page_frame # ENOMEM
      /\ is_free_region_big_enough(map, page_frame, num_pages) = 0
      /\ map \in [Words -> SUBSET Bits] /\ num_pages \in Nat
  BY DEF ProbeFree, IInv, TypeOK
<1>2. BitmapSize' = BitmapSize /\ TrackedPages' = TrackedPages
  BY <1>1 DEF BitmapSize, TrackedPages
<1>3. SizeKept'
  BY <1>1, <1>2 DEF UInv, SizeKept
<1>4. ClearedUsable'
  <2>1. \A w \in Words : Bits \ map'[w] \subseteq Bits \ map[w]
    BY <1>1, SetBitsMarks
  <2> QED
    BY <1>1, <1>2, <2>1 DEF UInv, ClearedUsable
<1>5. \A p \in Region : ~ bitmap_test_bit(map, p)
  <2>1. ~ bitmap_test_bit(map, page_frame) /\ page_frame \in Nat
    BY <1>1, BlockOfPage DEF IInv, Searched, TypeOK
  <2>2. 0 \in Region => page_frame = 0
    BY <1>1, <2>1 DEF Region
  <2> QED
    BY <1>1, <2>1, <2>2, RegionCheck DEF Region
<1>6. HeldUsable'
  BY <1>1, <1>2, <1>5, FreeIsUsable DEF UInv, HeldUsable
<1>7. HeldTracked'
  <2> SUFFICES ASSUME Sentinel(memmap) PROVE held \cup Region \subseteq TrackedPages
    BY <1>1, <1>2 DEF HeldTracked
  <2>1. held \subseteq TrackedPages /\ page_frame \in TrackedPages
    BY <1>1 DEF UInv, HeldTracked
  <2>2. Region \subseteq TrackedPages
    BY <1>1, <2>1, SentinelMarked, SearchTracked
  <2> QED
    BY <2>1, <2>2
<1> QED
  BY <1>3, <1>4, <1>6, <1>7 DEF UInv

(* pmm_free_page keeps it: the page it frees has a usable alias, and the   *)
(* bits it clears are that alias's.                                        *)
LEMMA FreePageUInv ==
    ASSUME IInv, UInv, NEW page \in Pages, pmm_free_page(page)
    PROVE  UInv'
<1>1. /\ pc = "idle" /\ pc' = "idle" /\ map' = ClearBits(map, {page}) /\ memmap' = memmap
      /\ held' = held \ {page} /\ total_pages' = total_pages /\ page \in held
      /\ map \in [Words -> SUBSET Bits]
  BY DEF pmm_free_page, IInv, TypeOK
<1>2. BitmapSize' = BitmapSize /\ TrackedPages' = TrackedPages
  BY <1>1 DEF BitmapSize, TrackedPages
<1>3. SizeKept' /\ HeldUsable' /\ HeldTracked'
  BY <1>1, <1>2 DEF UInv, SizeKept, HeldUsable, HeldTracked
<1>4. ClearedUsable'
  <2> SUFFICES ASSUME NEW w \in Words, w < BitmapSize, NEW b \in Bits, b \notin map'[w]
               PROVE  \E q \in UsablePages(memmap) : Block(q) = w /\ b \in Mask(q)
    BY <1>1, <1>2 DEF ClearedUsable
  <2>1. CASE b \notin map[w]
    BY <1>1, <2>1 DEF UInv, ClearedUsable
  <2>2. CASE b \in map[w]
    <3>1. Block(page) = w /\ b \in Mask(page)
      BY <1>1, <2>2, ClearBitsKeeps
    <3>2. page \in TrackedPages
      BY <3>1, TrackedBlocks
    <3>3. PICK q \in UsablePages(memmap) : Alias(page, q)
      BY <1>1, <3>2 DEF UInv, HeldUsable
    <3> QED
      BY <3>1, <3>3 DEF Alias
  <2> QED
    BY <2>1, <2>2
<1> QED
  BY <1>3, <1>4 DEF UInv

(* Every step keeps it. *)
LEMMA NextUInv == IInv /\ UInv /\ [Next]_vars => UInv'
<1> SUFFICES ASSUME IInv, UInv, [Next]_vars PROVE UInv'
  OBVIOUS
<1>1. CASE ProbeNothing \/ ProbeOverrun \/ Halted \/ UNCHANGED vars
  <2>1. UNCHANGED <<memmap, map, total_pages, page_frame, held>>
        /\ (pc' # pc => pc = "probe" /\ pc' \in {"fault", "idle", "overrun"})
    BY <1>1 DEF ProbeNothing, ProbeOverrun, Halted, vars, info, locals, ghosts
  <2>2. BitmapSize' = BitmapSize /\ TrackedPages' = TrackedPages
    BY <2>1 DEF BitmapSize, TrackedPages
  <2> QED
    BY <2>1, <2>2 DEF UInv, SizeKept, ClearedUsable, HeldUsable, HeldTracked
<1> QED
  BY <1>1, PmmInitUInv, PmmAllocUInv, ProbeUsedUInv, ProbeFreeUInv, FreePageUInv DEF Next, Probe

(* Why only usable pages are handed out. *)
LEMMA UsableInvariance == Spec => [](IInv /\ UInv)
<1>1. Init => UInv
  BY DEF Init, UInv, SizeKept, ClearedUsable, HeldUsable, HeldTracked
<1>2. IInv /\ UInv /\ [Next]_vars => UInv'
  BY NextUInv
<1> QED
  BY <1>1, <1>2, Invariance, PTL DEF Spec

(* A page that the bitmap covers is handed out only if it shares its mask  *)
(* with a usable one; when the usable pages are whole alias classes and    *)
(* the last page is not one of them, only usable pages are handed out.     *)
THEOREM OnlyUsableHandedOut == Spec => []OnlyUsableAllocated
<1>1. IInv /\ UInv => OnlyUsableAllocated
  <2> SUFFICES ASSUME IInv, UInv PROVE OnlyUsableAllocated
    OBVIOUS
  <2>1. held \subseteq Pages
    BY DEF IInv, TypeOK
  <2>2. ASSUME AliasClosed(memmap), Sentinel(memmap), NEW p \in held
        PROVE  p \in UsablePages(memmap)
    <3>1. p \in held \cap TrackedPages
      BY <2>2 DEF UInv, HeldTracked
    <3>2. PICK q \in UsablePages(memmap) : Alias(p, q)
      BY <3>1 DEF UInv, HeldUsable
    <3> QED
      BY <2>1, <2>2, <3>2 DEF AliasClosed, Alias
  <2> QED
    BY <2>2 DEF OnlyUsableAllocated, UInv, HeldUsable
<1> QED
  BY <1>1, UsableInvariance, PTL

-----------------------------------------------------------------------------
(* A word with no bit set is worth nothing. *)
LEMMA EmptyWord == WordValue({}) = 0
<1> DEFINE step(g) == [s \in SUBSET {} |->
                         IF s = {} THEN 0
                         ELSE LET x == CHOOSE x \in s : TRUE IN 2 ^ x + g[s \ {x}]]
           iter == CHOOSE g : g = step(g)
<1>1. WordValue({}) = iter[{}]
  BY DEF WordValue, MapThenSumSet, MapThenFoldSet
<1>2. \A g : step(g) = [s \in SUBSET {} |-> 0]
  OBVIOUS
<1> HIDE DEF step
<1>3. \E g : g = step(g)
  BY <1>2
<1>4. iter = step(iter)
  BY <1>3
<1>5. iter = [s \in SUBSET {} |-> 0]
  BY <1>2, <1>4
<1> HIDE DEF iter
<1> QED
  BY <1>1, <1>5

(* The pages S are pages of the first size words. *)
InWords(S, size) == S \subseteq 0 .. size * BITS_PER_BLOCK - 1

(* Marking and clearing pages of the first size words leaves the others. *)
LEMMA WordsApart ==
    ASSUME NEW size \in Nat, NEW S, InWords(S, size), NEW m,
           NEW w \in DOMAIN m, w \in Nat, w >= size
    PROVE  SetBits(m, S)[w] = m[w] /\ ClearBits(m, S)[w] = m[w]
<1>1. \A p \in S : Block(p) # w
  <2> SUFFICES ASSUME NEW p \in S PROVE Block(p) # w
    OBVIOUS
  <2>1. Block(p) \in 0 .. size - 1
    BY BlockInWindow DEF InWords
  <2> QED
    BY <2>1
<1>2. MaskIn(w, S) = {}
  BY <1>1 DEF MaskIn
<1> QED
  BY <1>2 DEF SetBits, ClearBits

(* The masks of the first word's pages cover the word. *)
LEMMA MasksCoverWord == MaskIn(0, 0 .. BITS_PER_BLOCK - 1) = Bits
<1> DEFINE P == 0 .. BITS_PER_BLOCK - 1
<1>1. \A p \in P : p \in Nat /\ Block(p) = 0
  BY WordSizes DEF Block
<1>2. MaskIn(0, P) \subseteq Bits
  BY <1>1, MaskType DEF MaskIn
<1>3. ASSUME NEW b \in Bits PROVE \E p \in P : b \in Mask(p)
  <2>1. INT_BITS \in Nat \ {0} /\ BITS_PER_BLOCK = 2 * INT_BITS /\ b \in 0 .. BITS_PER_BLOCK - 1
    BY BitmapAssumption DEF Bits
  <2>2. \A x \in 0 .. INT_BITS - 1 : x % INT_BITS = x
    BY <2>1
  <2>3. CASE b < INT_BITS - 1
    <3>1. b \in P /\ b % INT_BITS = b
      BY <2>1, <2>2, <2>3
    <3> QED
      BY <2>1, <2>3, <3>1 DEF Mask
  <2>4. CASE b >= INT_BITS - 1
    <3>1. INT_BITS - 1 \in P /\ (INT_BITS - 1) % INT_BITS = INT_BITS - 1
      BY <2>1, <2>2
    <3>2. b \in Mask(INT_BITS - 1)
      BY <2>1, <2>4, <3>1 DEF Mask
    <3> QED
      BY <3>1, <3>2
  <2> QED
    BY <2>1, <2>3, <2>4
<1> QED
  BY <1>1, <1>2, <1>3 DEF MaskIn

(* The pages that pmm_init reserves for a bitmap at address 0, and the low *)
(* memory, are pages that the bitmap covers.                               *)
LEMMA ReservedTracked ==
    ASSUME NEW mm \in MemMaps, NEW size, size = SizeOf(mm)
    PROVE  /\ size \in Nat \ {0}
           /\ InWords(PageRange(0, size * (BITS_PER_BLOCK \div 8)), size)
           /\ InWords(LowPages, size)
<1>1. size \in Nat
  <2>1. TotalMemory(mm) \in Nat
    BY MemMapsAssumption, PmmAssumption
  <2>2. TotalMemory(mm) \div PAGE_SIZE \in Nat
    BY <2>1, PmmAssumption
  <2> QED
    BY <2>2, WordSizes DEF SizeFor, SizeOf
<1>2. LOW_MEMORY <= size * BITS_PER_BLOCK * PAGE_SIZE
  BY MemMapsAssumption DEF SizeOf
<1>3. PICK k \in 1 .. WINDOW : /\ LOW_MEMORY = k * BITS_PER_BLOCK * PAGE_SIZE
                               /\ LowPages = 0 .. k * BITS_PER_BLOCK - 1
  BY LowWords
<1>4. LowPages \subseteq 0 .. size * BITS_PER_BLOCK - 1
  <2> DEFINE a == k * BITS_PER_BLOCK
             c == size * BITS_PER_BLOCK
  <2>1. a \in Nat /\ c \in Nat
    BY <1>1, <1>3, WordSizes, PmmAssumption
  <2>2. a * PAGE_SIZE <= c * PAGE_SIZE
    BY <1>2, <1>3
  <2>3. \A x, y \in Nat, d \in Nat \ {0} : x * d <= y * d => x <= y
    OBVIOUS
  <2> HIDE DEF a, c
  <2>4. a <= c
    BY <2>1, <2>2, <2>3, PmmAssumption
  <2>5. LowPages = 0 .. a - 1
    BY <1>3 DEF a
  <2>6. LowPages \subseteq 0 .. c - 1
    BY <2>1, <2>4, <2>5
  <2> QED
    BY <2>6 DEF c
<1>5. size # 0
  <2>1. 0 \in LowPages
    <3>1. k * BITS_PER_BLOCK \in Nat \ {0}
      BY <1>3, WordSizes, PmmAssumption
    <3> QED
      BY <1>3, <3>1
  <2>2. 0 * BITS_PER_BLOCK = 0
    BY WordSizes
  <2> QED
    BY <1>4, <2>1, <2>2
<1>6. PageRange(0, size * (BITS_PER_BLOCK \div 8)) \subseteq 0 .. size * BITS_PER_BLOCK - 1
  <2> DEFINE eighth == BITS_PER_BLOCK \div 8
             bytes == size * eighth
             end == bytes % U64
             pages == end \div PAGE_SIZE
  <2>1. eighth \in Nat /\ eighth <= BITS_PER_BLOCK - 1
    BY BitmapAssumption
  <2>2. \A x, y, z \in Nat : x <= y => z * x <= z * y
    OBVIOUS
  <2> HIDE DEF eighth
  <2>3. bytes \in Nat /\ bytes <= size * (BITS_PER_BLOCK - 1)
    BY <1>1, <2>1, <2>2, WordSizes
  <2>4. size * (BITS_PER_BLOCK - 1) = size * BITS_PER_BLOCK - size
    BY <1>1, WordSizes
  <2>5. size * BITS_PER_BLOCK \in Nat
    BY <1>1, WordSizes
  <2> HIDE DEF bytes
  <2>6. end \in Nat /\ end <= bytes
    <3>1. \A x \in Nat, d \in Nat \ {0} : x % d \in Nat /\ x % d <= x
      OBVIOUS
    <3> QED
      BY <2>3, <3>1, PmmAssumption
  <2> HIDE DEF end
  <2>7. pages \in Nat /\ pages <= end
    <3>1. \A x \in Nat, d \in Nat \ {0} : x \div d \in Nat /\ x \div d <= x
      OBVIOUS
    <3> QED
      BY <2>6, <3>1, PmmAssumption
  <2> HIDE DEF pages
  <2>8. PageRange(0, bytes) \subseteq 0 .. pages
    <3>1. 0 + bytes = bytes /\ 0 \div PAGE_SIZE = 0
      BY <2>3, PmmAssumption
    <3>2. PageRange(0, bytes) = 0 .. pages + (IF bytes % PAGE_SIZE # 0 THEN 1 ELSE 0) - 1
      BY <3>1 DEF PageRange, pages, end
    <3> QED
      BY <2>7, <3>2
  <2>9. pages <= size * BITS_PER_BLOCK - 1
    BY <1>1, <1>5, <2>3, <2>4, <2>5, <2>6, <2>7
  <2>10. PageRange(0, bytes) \subseteq 0 .. size * BITS_PER_BLOCK - 1
    BY <2>5, <2>7, <2>8, <2>9
  <2> QED
    BY <2>10 DEF bytes, eighth
<1> QED
  BY <1>1, <1>4, <1>5, <1>6 DEF InWords

(* On a well-formed memory map pmm_init writes the bitmap only. *)
LEMMA InitialMapStays ==
    ASSUME NEW mm \in MemMaps, WellFormed(mm), NEW ram,
           NEW w \in Words, w >= SizeOf(mm)
    PROVE  InitialMap(mm, ram)[w] = ram[w]
<1> DEFINE size   == SizeFor(TotalMemory(mm) \div PAGE_SIZE)
           filled == [x \in Words |-> IF x < size THEN Bits ELSE ram[x]]
           freed  == ClearBits(filled, UsablePages(mm))
           bytes  == size * (BITS_PER_BLOCK \div 8)
           itself == SetBits(freed, PageRange(WordValue(freed[0]), bytes))
<1>1. InitialMap(mm, ram) = SetBits(itself, LowPages)
  BY DEF InitialMap, LowPages
<1>2. /\ size = SizeOf(mm) /\ size \in Nat /\ size > 0 /\ w \in Nat
      /\ InWords(PageRange(0, bytes), size) /\ InWords(LowPages, size)
  BY ReservedTracked DEF SizeOf, Words
<1>3. /\ InWords(UsablePages(mm), size)
      /\ 0 .. BITS_PER_BLOCK - 1 \subseteq UsablePages(mm)
  BY DEF WellFormed, InWords
<1> HIDE DEF size
<1>4. DOMAIN filled = Words /\ filled[w] = ram[w] /\ filled[0] = Bits /\ 0 \in Words
  BY <1>2, PmmAssumption DEF Words
<1> HIDE DEF filled
<1>5. DOMAIN freed = Words /\ freed[w] = ram[w]
  <2>1. DOMAIN freed = Words
    BY <1>4 DEF ClearBits
  <2> QED
    BY <1>2, <1>3, <1>4, <2>1, WordsApart
<1>6. freed[0] = {}
  <2>1. MaskIn(0, 0 .. BITS_PER_BLOCK - 1) \subseteq MaskIn(0, UsablePages(mm))
    BY <1>3 DEF MaskIn
  <2>2. freed[0] = Bits \ MaskIn(0, UsablePages(mm))
    BY <1>4 DEF ClearBits
  <2> QED
    BY <2>1, <2>2, MasksCoverWord
<1> HIDE DEF freed
<1>7. DOMAIN itself = Words /\ itself[w] = ram[w]
  <2>1. InWords(PageRange(WordValue(freed[0]), bytes), size)
    BY <1>2, <1>6, EmptyWord
  <2>2. DOMAIN itself = Words
    BY <1>5 DEF SetBits
  <2> QED
    BY <1>2, <1>5, <2>1, <2>2, WordsApart
<1> HIDE DEF itself, bytes
<1>8. SetBits(itself, LowPages)[w] = itself[w]
  BY <1>2, <1>7, WordsApart
<1> QED
  BY <1>1, <1>7, <1>8

(* On a memory map whose usable pages the bitmap covers, whose first word  *)
(* is usable and whose last page is not, no call ever writes a word behind *)
(* the bitmap.                                                             *)
THEOREM WritesStayInBitmap == Spec => StaysInBitmap
<1>1. ASSUME IInv, UInv, [Next]_vars, WellFormed(memmap),
             NEW w \in Words, w >= SizeOf(memmap)
      PROVE  map'[w] = map[w]
  <2>1. /\ memmap \in MemMaps /\ map \in [Words -> SUBSET Bits] /\ w \in Nat
        /\ held \subseteq Pages /\ Sentinel(memmap)
    BY <1>1 DEF IInv, TypeOK, Words, WellFormed
  <2>2. pc # "boot" => BitmapSize = SizeOf(memmap) /\ BitmapSize \in Nat
    BY <1>1 DEF UInv, SizeKept, IInv, BitmapInWindow
  <2>3. CASE pmm_init
    <3>1. map' = map \/ map' = InitialMap(memmap, map)
      BY <2>3 DEF pmm_init
    <3> QED
      BY <1>1, <2>1, <3>1, InitialMapStays
  <2>4. CASE ProbeFree
    <3>1. /\ pc = "probe" /\ page_frame # ENOMEM /\ map' = SetBits(map, Region)
          /\ is_free_region_big_enough(map, page_frame, num_pages) = 0
      BY <2>4 DEF ProbeFree
    <3>2. page_frame \in TrackedPages
      BY <1>1, <2>1, <3>1 DEF UInv, HeldTracked
    <3>3. Region \subseteq TrackedPages
      BY <1>1, <2>1, <3>1, <3>2, SentinelMarked, SearchTracked
    <3>4. w \in DOMAIN map /\ BitmapSize \in Nat /\ w >= BitmapSize
      BY <1>1, <2>1, <2>2, <3>1
    <3>5. InWords(Region, BitmapSize)
      BY <3>3 DEF TrackedPages, InWords
    <3>6. SetBits(map, Region)[w] = map[w]
      BY <2>1, <3>4, <3>5, WordsApart
    <3> QED
      BY <3>1, <3>6
  <2>5. ASSUME NEW page \in Pages, pmm_free_page(page) PROVE map'[w] = map[w]
    <3>1. pc = "idle" /\ page \in held /\ map' = ClearBits(map, {page})
      BY <2>5 DEF pmm_free_page
    <3>2. InWords({page}, BitmapSize)
      BY <1>1, <2>1, <3>1 DEF UInv, HeldTracked, TrackedPages, InWords
    <3> QED
      BY <1>1, <2>1, <2>2, <3>1, <3>2, WordsApart
  <2>6. CASE \/ \E size \in Sizes : pmm_alloc(size)
             \/ ProbeNothing \/ ProbeUsed \/ ProbeOverrun \/ Halted \/ UNCHANGED vars
    BY <2>6 DEF pmm_alloc, ProbeNothing, ProbeUsed, ProbeOverrun, Halted, vars
  <2> QED
    BY <1>1, <2>3, <2>4, <2>5, <2>6 DEF Next, Probe
<1>2. IInv /\ UInv /\ [Next]_vars =>
        [WellFormed(memmap) =>
           \A w \in Words : w >= SizeFor(TotalMemory(memmap) \div PAGE_SIZE) => map'[w] = map[w]]_vars
  BY <1>1 DEF SizeOf
<1> QED
  BY <1>2, UsableInvariance, PTL DEF Spec, StaysInBitmap
=============================================================================
