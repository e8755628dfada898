-------------------------------- MODULE Pmm --------------------------------
(***************************************************************************)
(* The physical memory manager, kernel/src/mm/pmm.c.                       *)
(*                                                                         *)
(* pmm_init builds one bit per page from the boot loader's memory map;     *)
(* pmm_alloc hands out a run of pages, first fit; pmm_free_page gives one  *)
(* page back.  The bitmap has BitmapSize words; the words after it, up to  *)
(* WINDOW, are whatever RAM follows it, which the code reads and writes    *)
(* when an index runs past the bitmap.  The search loop of pmm_alloc takes *)
(* one step per iteration.                                                 *)
(***************************************************************************)
EXTENDS Bitmap, Sequences

CONSTANTS
    PAGE_SIZE,      \* bytes in a page
    LOW_MEMORY,     \* bytes reserved from address 0 (0x100000)
    MemMaps,        \* the memory maps the boot loader may hand over
    WINDOW,         \* words of RAM modelled from the start of the bitmap
    RamWords,       \* what a word of RAM may hold before pmm_init
    Sizes           \* the sizes pmm_alloc is called with

VARIABLES
    memmap,             \* memmap_request.response->entries
    map,                \* the words from bitmap.map on
    total_pages,        \* pmm_info.total_pages
    used_pages,         \* pmm_info.used_pages
    available_pages,    \* pmm_info.available_pages
    pc,                 \* where the caller of this module stands
    num_pages,          \* pmm_alloc's local, 0 outside a call
    page_frame,         \* pmm_alloc's local; outside a call, what it returned
    held,               \* ghost: the pages handed out and not freed
    doubled,            \* ghost: a page was handed out while it was held
    aliased_free        \* ghost: a page was freed while an alias of it was held

info == <<total_pages, used_pages, available_pages>>
locals == <<num_pages, page_frame>>
ghosts == <<held, doubled, aliased_free>>
vars == <<memmap, map, info, pc, locals, ghosts>>

U64 == 2 ^ BITS_PER_BLOCK       \* the counters are as wide as a word
Words == 0 .. WINDOW - 1
Pages == 0 .. WINDOW * BITS_PER_BLOCK - 1

Usable(mm) == {i \in DOMAIN mm : mm[i].type = "usable"}

(* get_total_memory: type 0 sums the usable entries, any other the rest. *)
get_total_memory(mm, type) ==
    LET counted == IF type = 0 THEN Usable(mm) ELSE DOMAIN mm \ Usable(mm)
        length(i) == mm[i].length
    IN  MapThenSumSet(length, counted)

(* The pages that the loops of pmm_free and pmm_reserve visit. *)
PageRange(addr, len) ==
    addr \div PAGE_SIZE ..
        ((addr + len) % U64) \div PAGE_SIZE + (IF len % PAGE_SIZE # 0 THEN 1 ELSE 0) - 1

align_up(addr) ==
    IF addr % PAGE_SIZE = 0 THEN addr ELSE addr + (PAGE_SIZE - (addr % PAGE_SIZE))

(* The numeric value of a word, which pmm_init takes for an address. *)
WordValue(word) ==
    LET weight(b) == 2 ^ b IN MapThenSumSet(weight, word)

(* The words of a bitmap for that many pages. *)
SizeFor(pages) == pages \div BITS_PER_BLOCK

BitmapSize == SizeFor(total_pages)

UsablePages(mm) == UNION {PageRange(mm[i].base, mm[i].length) : i \in Usable(mm)}

TotalMemory(mm) == get_total_memory(mm, 0) + get_total_memory(mm, 1)

ASSUME PmmAssumption ==
    /\ PAGE_SIZE \in Nat \ {0}
    /\ WINDOW \in Nat \ {0}
    /\ U64 \in Nat \ {0}
    /\ RamWords \subseteq SUBSET Bits
    /\ Sizes \subseteq Nat
    /\ \A word \in SUBSET Bits : WordValue(word) \in 0 .. U64 - 1
    \* The reserved low memory is a whole number of bitmap words.
    /\ LOW_MEMORY \in 1 .. U64 - 1
    /\ \E k \in 1 .. WINDOW : LOW_MEMORY = k * BITS_PER_BLOCK * PAGE_SIZE

ASSUME MemMapsAssumption ==
    \A mm \in MemMaps :
        /\ \A i \in DOMAIN mm : mm[i].base \in Nat /\ mm[i].length \in Nat
        /\ get_total_memory(mm, 0) \in 0 .. U64 - 1
        /\ get_total_memory(mm, 1) \in 0 .. U64 - 1
        /\ TotalMemory(mm) \in 0 .. U64 - 1
        \* The machine has the low memory, and WINDOW shows the whole bitmap.
        /\ LOW_MEMORY <= SizeFor(TotalMemory(mm) \div PAGE_SIZE) * BITS_PER_BLOCK * PAGE_SIZE
        /\ SizeFor(TotalMemory(mm) \div PAGE_SIZE) <= WINDOW

-----------------------------------------------------------------------------
(* pmm_init without its last pmm_reserve, ... *)
InitialMapNoLow(mm, ram) ==
    LET size   == SizeFor(TotalMemory(mm) \div PAGE_SIZE)
        filled == [w \in Words |-> IF w < size THEN Bits ELSE ram[w]]
    IN  ClearBits(filled, UsablePages(mm))

(* ... with a memset of one word too many, ... *)
InitialMapOverfill(mm, ram) ==
    LET size   == SizeFor(TotalMemory(mm) \div PAGE_SIZE)
        filled == [w \in Words |-> IF w <= size THEN Bits ELSE ram[w]]
    IN  SetBits(ClearBits(filled, UsablePages(mm)), PageRange(0, LOW_MEMORY))

(* ... and without its memset. *)
InitialMapNoFill(mm, ram) ==
    SetBits(ClearBits(ram, UsablePages(mm)), PageRange(0, LOW_MEMORY))

(* The bitmap that pmm_init builds over RAM contents ram. *)
InitialMap(mm, ram) ==
    LET size    == SizeFor(TotalMemory(mm) \div PAGE_SIZE)
        filled  == [w \in Words |-> IF w < size THEN Bits ELSE ram[w]]
        freed   == ClearBits(filled, UsablePages(mm))
        bytes   == size * (BITS_PER_BLOCK \div 8)
        \* *bitmap.map is the value of the first word, not the bitmap's address.
        itself  == SetBits(freed, PageRange(WordValue(freed[0]), bytes))
    IN  SetBits(itself, PageRange(0, LOW_MEMORY))

(* pmm_init.  The bitmap goes to the last usable entry that is as long as  *)
(* the bitmap has words; with no such entry bitmap.map stays NULL, and the *)
(* memset through it faults.                                               *)
pmm_init ==
    /\ pc = "boot"
    /\ total_pages' = TotalMemory(memmap) \div PAGE_SIZE
    /\ used_pages' = get_total_memory(memmap, 1) \div PAGE_SIZE
    /\ available_pages' = get_total_memory(memmap, 0) \div PAGE_SIZE
    /\ \/ /\ \E i \in Usable(memmap) : memmap[i].length >= SizeFor(total_pages')
          /\ map' = InitialMap(memmap, map)
          /\ pc' = "idle"
       \/ /\ \A i \in Usable(memmap) : memmap[i].length < SizeFor(total_pages')
          /\ pc' = "fault"
          /\ UNCHANGED map
    /\ UNCHANGED <<memmap, locals, ghosts>>

(* pmm_alloc(size), up to the loop. *)
pmm_alloc(size) ==
    /\ pc = "idle"
    /\ ~ doubled
    /\ IF available_pages = 0
       THEN /\ page_frame' = ENOMEM
            /\ UNCHANGED <<pc, num_pages>>
       ELSE /\ num_pages' = align_up(size) \div PAGE_SIZE
            /\ page_frame' = find_first_free(map, 0, BitmapSize)
            /\ pc' = "probe"
    /\ UNCHANGED <<memmap, map, info, ghosts>>

Region == page_frame .. page_frame + num_pages - 1

(* The region runs past the RAM that is modelled. *)
Overrun == page_frame + num_pages > WINDOW * BITS_PER_BLOCK

(* The loop body when pmm_first_free(0) found nothing: a test of bit -1,   *)
(* 2^64 - 1, dereferences a non-canonical address.  No page asked for, no  *)
(* bit tested.                                                             *)
ProbeNothing ==
    /\ pc = "probe"
    /\ page_frame = ENOMEM
    /\ pc' = IF num_pages > 0 THEN "fault" ELSE "idle"
    /\ num_pages' = 0
    /\ UNCHANGED <<memmap, map, info, page_frame, ghosts>>

(* The loop body when the region is not free: search on from the page in use. *)
ProbeUsed ==
    /\ pc = "probe"
    /\ page_frame # ENOMEM
    /\ ~ Overrun
    /\ LET start_idx == is_free_region_big_enough(map, page_frame, num_pages)
       IN  /\ start_idx # 0
           /\ page_frame' = find_first_free(map, start_idx, BitmapSize)
    /\ IF page_frame' = ENOMEM
       THEN pc' = "idle" /\ num_pages' = 0
       ELSE UNCHANGED <<pc, num_pages>>
    /\ UNCHANGED <<memmap, map, info, ghosts>>

(* The region is free: mark it, count it, return it. *)
ProbeFree ==
    /\ pc = "probe"
    /\ page_frame # ENOMEM
    /\ ~ Overrun
    /\ is_free_region_big_enough(map, page_frame, num_pages) = 0
    /\ map' = SetBits(map, Region)
    /\ available_pages' = (available_pages - num_pages) % U64
    /\ used_pages' = (used_pages + num_pages) % U64
    /\ num_pages' = 0
    /\ held' = held \cup Region
    /\ doubled' = (doubled \/ held \cap Region # {})
    /\ pc' = "idle"
    /\ UNCHANGED <<memmap, total_pages, page_frame, aliased_free>>

(* The loop tests, and may then set, bits of memory beyond the window. *)
ProbeOverrun ==
    /\ pc = "probe"
    /\ page_frame # ENOMEM
    /\ Overrun
    /\ pc' = "overrun"
    /\ UNCHANGED <<memmap, map, info, locals, ghosts>>

(* pmm_free_page that forgets one of the counters. *)
pmm_free_page_uncounted(page) ==
    /\ pc = "idle"
    /\ ~ doubled
    /\ page \in held
    /\ map' = ClearBits(map, {page})
    /\ available_pages' = (available_pages + 1) % U64
    /\ held' = held \ {page}
    /\ aliased_free' = (aliased_free \/ \E p \in held \ {page} : Alias(p, page))
    /\ UNCHANGED <<memmap, total_pages, used_pages, pc, locals, doubled>>

(* pmm_free_page, by the owner of the page. *)
pmm_free_page(page) ==
    /\ pc = "idle"
    /\ ~ doubled
    /\ page \in held
    /\ map' = ClearBits(map, {page})
    /\ available_pages' = (available_pages + 1) % U64
    /\ used_pages' = (used_pages - 1) % U64
    /\ held' = held \ {page}
    /\ aliased_free' = (aliased_free \/ \E p \in held \ {page} : Alias(p, page))
    /\ UNCHANGED <<memmap, total_pages, pc, locals, doubled>>

(* general_exception_handler: cli; hlt.  The model follows the clients no  *)
(* further once a page has two owners or memory beyond the window is hit.  *)
Halted ==
    /\ pc \in {"fault", "overrun"} \/ doubled
    /\ UNCHANGED vars

-----------------------------------------------------------------------------
Init ==
    /\ memmap \in MemMaps
    /\ map \in [Words -> RamWords]
    /\ total_pages = 0 /\ used_pages = 0 /\ available_pages = 0
    /\ pc = "boot"
    /\ num_pages = 0 /\ page_frame = 0
    /\ held = {} /\ doubled = FALSE /\ aliased_free = FALSE

Probe == ProbeNothing \/ ProbeUsed \/ ProbeFree \/ ProbeOverrun

Next ==
    \/ pmm_init
    \/ \E size \in Sizes : pmm_alloc(size)
    \/ Probe
    \/ \E page \in Pages : pmm_free_page(page)
    \/ Halted

(* The loop of pmm_alloc runs with nothing else to do: it is not preempted *)
(* for ever.                                                               *)
Spec == Init /\ [][Next]_vars /\ WF_vars(Probe)

-----------------------------------------------------------------------------
(* Every variable keeps its type. *)
TypeOK ==
    /\ memmap \in MemMaps
    /\ map \in [Words -> SUBSET Bits]
    /\ total_pages \in 0 .. U64 - 1
    /\ used_pages \in 0 .. U64 - 1
    /\ available_pages \in 0 .. U64 - 1
    /\ pc \in {"boot", "idle", "probe", "fault", "overrun"}
    /\ num_pages \in Nat
    /\ page_frame \in Pages \cup {ENOMEM}
    /\ held \subseteq Pages
    /\ doubled \in BOOLEAN
    /\ aliased_free \in BOOLEAN

-----------------------------------------------------------------------------
(* No page is handed out while it is held, as long as no page was freed    *)
(* under the feet of the holder of its alias (pmm_alloc, pmm_free_page).   *)
NoDoubleAllocation == doubled => aliased_free

(* The reserved low memory is never handed out, in whatever way pages are  *)
(* allocated and freed (pmm_init's last pmm_reserve).                      *)
LowMemoryReserved == held \cap PageRange(0, LOW_MEMORY) = {}

TrackedPages == 0 .. BitmapSize * BITS_PER_BLOCK - 1

(* The pages that the boot loader reports usable are whole alias classes.  *)
AliasClosed(mm) ==
    \A p \in UsablePages(mm), q \in Pages : Alias(p, q) => q \in UsablePages(mm)

(* The last page that the bitmap covers stops a run of free pages. *)
Sentinel(mm) ==
    LET size == SizeFor(TotalMemory(mm) \div PAGE_SIZE)
    IN  \A p \in UsablePages(mm) : ~ Alias(p, size * BITS_PER_BLOCK - 1)

(* A page that the bitmap covers is handed out only if it, or a page that  *)
(* shares its mask, is usable; on a memory map of whole alias classes with *)
(* an unusable last page, only usable pages are handed out at all.         *)
OnlyUsableAllocated ==
    /\ \A p \in held \cap TrackedPages : \E q \in UsablePages(memmap) : Alias(p, q)
    /\ AliasClosed(memmap) /\ Sentinel(memmap) => held \subseteq UsablePages(memmap)

(* pmm_info's counters are the boot loader's, moved by the pages held, in  *)
(* the arithmetic of a machine word.                                       *)
CountersExact ==
    pc # "boot" /\ ~ doubled =>
        /\ available_pages = (get_total_memory(memmap, 0) \div PAGE_SIZE - Cardinality(held)) % U64
        /\ used_pages = (get_total_memory(memmap, 1) \div PAGE_SIZE + Cardinality(held)) % U64

(* Page s is free, and so is the run of num_pages pages from s on as far   *)
(* as it is modelled (a request for 0 pages still looks for a free one).   *)
FreeRun(s) ==
    \A p \in ({s} \cup (s .. s + num_pages - 1)) \cap Pages : ~ bitmap_test_bit(map, p)

(* The search loop of pmm_alloc is first fit: the run it returns is the    *)
(* lowest free one, and it answers ENOMEM only when the bitmap holds none. *)
FirstFit ==
    [][pc = "probe" /\ pc' = "idle" =>
        IF page_frame' = ENOMEM
        THEN \A s \in TrackedPages : ~ FreeRun(s)
        ELSE FreeRun(page_frame') /\ \A s \in 0 .. page_frame' - 1 : ~ FreeRun(s)]_vars

(* A memory map whose usable pages the bitmap covers, whose first word is  *)
(* usable (so that *bitmap.map reads 0) and whose last page is not.        *)
WellFormed(mm) ==
    /\ UsablePages(mm) \subseteq 0 .. SizeFor(TotalMemory(mm) \div PAGE_SIZE) * BITS_PER_BLOCK - 1
    /\ 0 .. BITS_PER_BLOCK - 1 \subseteq UsablePages(mm)
    /\ Sentinel(mm)

(* On a well-formed memory map the manager writes no word past the bitmap. *)
StaysInBitmap ==
    [][WellFormed(memmap) =>
        \A w \in Words : w >= SizeFor(TotalMemory(memmap) \div PAGE_SIZE) => map'[w] = map[w]]_vars

(* The search loop of pmm_alloc ends. *)
SearchEnds == pc = "probe" ~> pc # "probe"
=============================================================================
