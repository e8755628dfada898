-------------------------------- MODULE Vmm --------------------------------
(***************************************************************************)
(* The virtual memory manager, kernel/src/mm/vmm.c, and mmap of            *)
(* klibc/alloc.c.                                                          *)
(*                                                                         *)
(* Addresses are page numbers.  A virtual page is numbered by the index    *)
(* bits of its canonical address, so that the last one is followed by page *)
(* 0, as 2^64 - 1 is by address 0.  A table is a page of FAN entries.      *)
(* vmm_init runs three loops of vmm_map_page, one iteration per step, and  *)
(* loads CR3.  The code reaches the root table at its higher-half address  *)
(* and every other table at its physical address, taken for a virtual one: *)
(* until CR3 is loaded the boot loader's tables make both right, and after *)
(* that the tables under construction themselves.                          *)
(***************************************************************************)
EXTENDS Integers, FiniteSets, FiniteSetsExt

CONSTANTS
    FAN,            \* entries in a table (512)
    GIGABYTES_4,    \* pages in 4 GB, the length of each loop of vmm_init
    HH,             \* KERNEL_VIRT_BASE_ADDR
    TOP,            \* KERNEL_VIRT_TOP_ADDR
    physical_base,  \* where the boot loader put the kernel
    Frames,         \* the pages of RAM
    Pools,          \* the sets of frames that may be free at vmm_init
    Rams,           \* what RAM may hold then, a table of entries per frame
    Requests,       \* the pages that later calls map and unmap
    Targets,        \* the physical pages that they map them to
    Watched,        \* the virtual pages that AddressSpace is about
    None            \* no translation

VARIABLES
    mem,            \* the entries in each frame
    free,           \* the frames that pmm_alloc has left
    root,           \* root_page_dir
    pc, i,          \* the place in vmm_init, and its loop counter
    active,         \* CR3 holds root
    tlb,            \* the translations that the CPU has cached
    tables,         \* ghost: the frames that became tables
    lost,           \* a table was not where the code looked for it
    dirty           \* ghost: a frame that became a table held present entries

store == <<mem, free, tables, lost, dirty>>
vars == <<store, root, pc, i, active, tlb>>

ASSUME VmmAssumption ==
    /\ FAN \in Nat \ {0, 1}
    /\ GIGABYTES_4 \in Nat \ {0}
    /\ HH \in Nat /\ TOP \in Nat /\ physical_base \in Nat
    /\ Frames \subseteq Nat
    /\ \A pool \in Pools : pool \subseteq Frames

V_PAGES == FAN * FAN * FAN * FAN
Indices == 0 .. FAN - 1
ENOMEM == -1

Entry(page, present) == [page |-> page, present |-> present]

ASSUME MemoryAssumption ==
    /\ IsFiniteSet(Frames) /\ None \notin Frames
    /\ Targets \subseteq Nat
    /\ Rams \subseteq [Frames -> [Indices -> [page : Int, present : BOOLEAN]]]

(* vmm_init's ranges: 4 GB from 0, 4 GB of the higher half, and the        *)
(* kernel's from an address in it on.                                      *)
ASSUME RangesAssumption ==
    /\ GIGABYTES_4 <= HH
    /\ HH + GIGABYTES_4 <= V_PAGES
    /\ TOP < V_PAGES
    /\ (Requests \cup Watched) \subseteq 0 .. V_PAGES - 1

(* The kernel's range follows the direct map.  Nobody asks for a page of   *)
(* the identity map, nor for the root's place in the direct map: acpi_init *)
(* maps firmware tables, which are no free frames, in the direct map.      *)
ASSUME RequestsAssumption ==
    /\ HH + GIGABYTES_4 <= TOP
    /\ \A v \in Requests : GIGABYTES_4 <= v
    /\ \A pool \in Pools : pool # {} => HH + Min(pool) \notin Requests

-----------------------------------------------------------------------------
(* The translation that the processor makes of virtual page v.             *)
Digit(v, level) ==
    (v \div (CASE level = 1 -> 1 [] level = 2 -> FAN [] level = 3 -> FAN * FAN
               [] level = 4 -> FAN * FAN * FAN)) % FAN

Translate(v) ==
    LET e4 == mem[root][Digit(v, 4)]
        e3 == mem[e4.page][Digit(v, 3)]
        e2 == mem[e3.page][Digit(v, 2)]
        e1 == mem[e2.page][Digit(v, 1)]
    IN  IF root # None /\ e4.present /\ e3.present /\ e2.present /\ e1.present
        THEN e1.page ELSE None

(* Table page p is where the code looks for it: at the virtual address p,  *)
(* or in the higher half for the root.                                     *)
InPlace(p) ==
    active => Translate(IF p = root THEN (HH + p) % V_PAGES ELSE p) = p

-----------------------------------------------------------------------------
(* idx_4 .. idx_1 of vmm_map_page and vmm_unmap_page: the bits of a level, *)
(* masked and shifted.                                                     *)
idx(v, level) == Digit(v, level)

State == [mem |-> mem, free |-> free, tables |-> tables, lost |-> lost, dirty |-> dirty]

(* Index of dir leads to a table; a test that never finds one. *)
LinkedNever(s, dir, index) == FALSE

Linked(s, dir, index) == s.mem[dir][index].present

(* A new page in the store s, linked without its flags, ... *)
NewTableUnlinked(s, dir, index, flags, page) ==
    [s EXCEPT !.mem[dir][index] = Entry(page, FALSE), !.free = @ \ {page}, !.tables = @ \cup {page}]

(* ... and with them.  Nobody clears its contents. *)
NewTable(s, dir, index, flags, page) ==
    [s EXCEPT !.mem[dir][index] = Entry(page, flags),
              !.free = @ \ {page},
              !.tables = @ \cup {page},
              !.dirty = \E x \in Indices : s.mem[page][x].present]

(* vmm_get_next_map_level: follow a present entry, or put a new page       *)
(* there.  Of pmm_alloc it needs the lowest free page; ENOMEM is not       *)
(* checked, and the table pointer made of it leads nowhere.  The walk goes *)
(* no further once a table is not in place or not one.                     *)
vmm_get_next_map_level(s, dir, index, flags) ==
    IF s.lost \/ s.dirty THEN [store |-> s, level |-> dir]
    ELSE IF ~ InPlace(dir) THEN [store |-> [s EXCEPT !.lost = TRUE], level |-> dir]
    ELSE IF Linked(s, dir, index) THEN [store |-> s, level |-> s.mem[dir][index].page]
    ELSE IF s.free = {}
    THEN [store |-> [s EXCEPT !.mem[dir][index] = Entry(ENOMEM, TRUE), !.lost = TRUE], level |-> dir]
    ELSE [store |-> NewTable(s, dir, index, flags, Min(s.free)), level |-> Min(s.free)]

(* The common part of vmm_map_page and vmm_unmap_page: walk to the last    *)
(* table of v, making the missing ones with flags, and store entry there.  *)
StoreEntry(s, v, entry, flags) ==
    LET level_3 == vmm_get_next_map_level(s, root, idx(v, 4), flags)
        level_2 == vmm_get_next_map_level(level_3.store, level_3.level, idx(v, 3), flags)
        level_1 == vmm_get_next_map_level(level_2.store, level_2.level, idx(v, 2), flags)
        walked  == level_1.store
    IN  IF walked.lost \/ walked.dirty THEN walked
        ELSE IF ~ InPlace(level_1.level) THEN [walked EXCEPT !.lost = TRUE]
        ELSE [walked EXCEPT !.mem[level_1.level][idx(v, 1)] = entry]

Becomes(s) ==
    /\ mem' = s.mem /\ free' = s.free /\ tables' = s.tables
    /\ lost' = s.lost /\ dirty' = s.dirty

(* A call without the invlpg. *)
vmm_flush_tlb_missing(v) == UNCHANGED tlb

(* invlpg *)
vmm_flush_tlb(v) == tlb' = [u \in DOMAIN tlb \ {v} |-> tlb[u]]

vmm_map_page(s, p, v) ==
    /\ Becomes(StoreEntry(s, v, Entry(p, TRUE), TRUE))
    /\ vmm_flush_tlb(v)

vmm_unmap_page(v) ==
    /\ Becomes(StoreEntry(State, v, Entry(0, FALSE), FALSE))
    /\ vmm_flush_tlb(v)

-----------------------------------------------------------------------------
Running(at) == pc = at /\ ~ lost /\ ~ dirty

(* vmm_new_page_dir: an empty root.  The page for it is not checked for.   *)
vmm_new_page_dir ==
    /\ Running("boot")
    /\ IF free = {}
       THEN lost' = TRUE /\ UNCHANGED <<mem, free, tables, root, pc>>
       ELSE /\ root' = Min(free)
            /\ free' = free \ {root'}
            /\ tables' = {root'}
            /\ mem' = [mem EXCEPT ![root'] = [x \in Indices |-> Entry(0, FALSE)]]
            /\ pc' = "identity"
            /\ UNCHANGED lost
    /\ UNCHANGED <<i, active, tlb, dirty>>

(* A loop that does not advance. *)
LoopStuck(at, then, p, v) ==
    /\ Running(at)
    /\ vmm_map_page(State, p, v % V_PAGES)
    /\ UNCHANGED <<pc, i, root, active>>

(* One iteration of a loop of vmm_init, or its end. *)
Loop(at, then, p, v) ==
    /\ Running(at)
    /\ IF i < GIGABYTES_4
       THEN /\ vmm_map_page(State, p, v % V_PAGES)
            /\ i' = i + 1
            /\ UNCHANGED pc
       ELSE /\ pc' = then
            /\ i' = 0
            /\ UNCHANGED <<store, tlb>>
    /\ UNCHANGED <<root, active>>

(* The kernel's map without its base. *)
MapKernelFromZero == Loop("kernel", "activate", i, TOP + i)

IdentityMap == Loop("identity", "direct", i, i)
DirectMap == Loop("direct", "kernel", i, HH + i)
MapKernel == Loop("kernel", "activate", physical_base + i, TOP + i)

(* mov cr3 drops the cached translations. *)
vmm_activate_page_directory ==
    /\ Running("activate")
    /\ active' = TRUE
    /\ tlb' = <<>>
    /\ pc' = "up"
    /\ UNCHANGED <<store, root, i>>

-----------------------------------------------------------------------------
(* After vmm_init: a page of a firmware table, as acpi_init maps it, ... *)
MapRequest(v, p) ==
    /\ Running("up")
    /\ vmm_map_page(State, p, v)
    /\ UNCHANGED <<root, pc, i, active>>

UnmapRequest(v) ==
    /\ Running("up")
    /\ vmm_unmap_page(v)
    /\ UNCHANGED <<root, pc, i, active>>

(* ... and mmap of n pages, of which it maps the first: its counter steps  *)
(* by PAGE_SIZE over a number of pages.  ENOMEM is mapped like a page.     *)
mmap(v, n) ==
    /\ Running("up")
    /\ LET runs == {f \in free : f .. f + n - 1 \subseteq free}
           ptr  == IF runs = {} THEN ENOMEM ELSE Min(runs)
           rest == IF runs = {} THEN free ELSE free \ (ptr .. ptr + n - 1)
       IN  vmm_map_page([State EXCEPT !.free = rest], ptr, v)
    /\ UNCHANGED <<root, pc, i, active>>

(* The processor caches a translation it makes. *)
TlbFill(v) ==
    /\ Running("up")
    /\ Translate(v) # None
    /\ tlb' = [u \in DOMAIN tlb \cup {v} |-> IF u = v THEN Translate(v) ELSE tlb[u]]
    /\ UNCHANGED <<store, root, pc, i, active>>

(* A fault, or work on memory that is not a table. *)
Halted == (lost \/ dirty) /\ UNCHANGED vars

-----------------------------------------------------------------------------
Init ==
    /\ mem \in Rams
    /\ free \in Pools
    /\ root = None
    /\ pc = "boot" /\ i = 0
    /\ active = FALSE
    /\ tlb = <<>>
    /\ tables = {} /\ lost = FALSE /\ dirty = FALSE

vmm_init == vmm_new_page_dir \/ IdentityMap \/ DirectMap \/ MapKernel \/ vmm_activate_page_directory

Next ==
    \/ vmm_init
    \/ \E v \in Requests : \/ \E p \in Targets : MapRequest(v, p)
                           \/ UnmapRequest(v)
                           \/ \E n \in 1 .. 2 : mmap(v, n)
                           \/ TlbFill(v)
    \/ Halted

(* vmm_init runs alone and with nothing to wait for. *)
Spec == Init /\ [][Next]_vars /\ WF_vars(vmm_init)

-----------------------------------------------------------------------------
Trusted == ~ lost /\ ~ dirty

(* Every variable keeps its type. *)
TypeOK ==
    /\ \A f \in Frames : \A x \in Indices :
          mem[f][x].page \in Int /\ mem[f][x].present \in BOOLEAN
    /\ free \subseteq Frames /\ tables \subseteq Frames
    /\ root \in Frames \cup {None}
    /\ pc \in {"boot", "identity", "direct", "kernel", "activate", "up"}
    /\ i \in 0 .. GIGABYTES_4
    /\ {active, lost, dirty} \subseteq BOOLEAN
    /\ DOMAIN tlb \subseteq 0 .. V_PAGES - 1

Space == INSTANCE AddressSpace WITH
    Virtual <- Watched,
    Physical <- {ENOMEM} \cup Targets \cup Frames \cup 0 .. GIGABYTES_4 + physical_base,
    space <- [v \in Watched |-> IF Trusted THEN Translate(v) ELSE None],
    trusted <- Trusted

(* Each call of vmm_map_page or vmm_unmap_page changes the translation of  *)
(* at most one page, whatever tables it allocates on the way.              *)
ImplementsAddressSpace == Space!Spec

(* The pages that the three loops of vmm_init map, by the last one that    *)
(* reaches each: the loop over the kernel runs past the last page and      *)
(* comes round to page 0.                                                  *)
Expected(v) ==
    LET k == (v - TOP) % V_PAGES
    IN  IF k < GIGABYTES_4 THEN physical_base + k
        ELSE IF v < GIGABYTES_4 THEN v
        ELSE IF v - HH \in 0 .. GIGABYTES_4 - 1 THEN v - HH
        ELSE None

(* vmm_init leaves every page mapped as the loops say, and no other. *)
InitMapsExact ==
    pc = "activate" /\ Trusted => \A v \in Watched : Translate(v) = Expected(v)

(* The present entries of the tables T. *)
Pointers(T) == {e \in T \X Indices : mem[e[1]][e[2]].present}

(* While vmm_init builds them the tables form a tree: every page it took   *)
(* is the root or hangs in one present entry of a table, and none is lost  *)
(* or shared.                                                              *)
TablesFormTree ==
    pc \in {"identity", "direct", "kernel", "activate"} /\ Trusted =>
        LET down(ptrs) == {mem[e[1]][e[2]].page : e \in ptrs}
            p4 == Pointers({root})
            p3 == Pointers(down(p4))
            p2 == Pointers(down(p3))
        IN  /\ tables = {root} \cup down(p4) \cup down(p3) \cup down(p2)
            /\ Cardinality(tables) = 1 + Cardinality(p4) + Cardinality(p3) + Cardinality(p2)

(* No cached translation outlives a change of the tables. *)
TlbCoherent ==
    active /\ Trusted => \A v \in DOMAIN tlb : tlb[v] = Translate(v)

(* The tables are lost only for want of a frame, or because one lies in    *)
(* memory whose identity map the loop over the kernel has replaced.        *)
LostOnlyIf ==
    lost => free = {} \/ \E f \in tables : f < (TOP + GIGABYTES_4) - V_PAGES \/ f >= GIGABYTES_4

(* vmm.c's tables: each of its types, a tree while vmm_init builds it with *)
(* no page lost or shared, and lost afterwards only for want of memory or  *)
(* to the loop over the kernel.                                            *)
TablesSound == TypeOK /\ TablesFormTree /\ LostOnlyIf

(* "Identity map first 4 GB": in the finished address space. *)
IdentityMapped ==
    pc = "up" /\ Trusted => \A v \in Watched : v < GIGABYTES_4 => Translate(v) = v

(* vmm_init ends, or stops for want of memory. *)
InitEnds == <>(pc = "up" \/ ~ Trusted)
=============================================================================
