------------------------------- MODULE FbInit -------------------------------
(***************************************************************************)
(* Making and unmaking a frame buffer terminal: flanterm_fb_init,          *)
(* flanterm_fb_deinit and bump_alloc of kernel/src/backends/fb.c.          *)
(*                                                                         *)
(* A terminal takes its blocks from the client's allocator, which may fail *)
(* at any of them, or from a pool that only grows.  A client that gives an *)
(* allocator may give no function that frees.  Every block is filled when  *)
(* it has been got.                                                        *)
(***************************************************************************)
EXTENDS Integers, Sequences, FiniteSets

CONSTANTS
    Sizes,          \* what the blocks of a terminal may have to hold, each in bytes
    POOL_SIZE,      \* FLANTERM_FB_BUMP_ALLOC_POOL_SIZE
    SIZE_MAX,       \* one more than the greatest size_t
    Widths, Margins, GlyphSizes, \* sizes in pixels that a client asks for
    MAX_INITS       \* bound on the terminals made

(* The blocks in the order in which they are allocated. *)
Blocks == <<"ctx", "font_bits", "font_bool", "grid", "queue", "map", "canvas">>
Kinds == {Blocks[k] : k \in 1 .. Len(Blocks)}
Clients == {"pool", "malloc", "malloc_free"}

ASSUME FbInitNumbers ==
    /\ Sizes \subseteq [Kinds -> Nat] /\ MAX_INITS \in Nat
    /\ SIZE_MAX \in Nat /\ POOL_SIZE \in 0 .. SIZE_MAX - 1
    /\ Widths \cup Margins \cup GlyphSizes \subseteq 0 .. SIZE_MAX - 1 /\ 0 \notin GlyphSizes

VARIABLES
    bump_alloc_ptr, orig_bump_alloc_ptr,
    client,         \* whose flanterm_fb_init runs; "none" between calls
    taken,          \* the blocks it has got: the pointers of ctx that are not NULL
    live,           \* how many blocks of each kind the clients with _free hold
    terminals,      \* how many terminals of each client there are
    made,           \* calls of flanterm_fb_init, and bytes of the terminals made in the pool
    sizes,          \* what the blocks of the last call have to hold
    layout,         \* the last terminal's cells across, and where the first one begins
    lost            \* a call has read ctx through "null", or "overrun" its memory, or "no"

fbinit == <<bump_alloc_ptr, orig_bump_alloc_ptr, client, taken, live, terminals, made, sizes,
            layout, lost>>

-----------------------------------------------------------------------------
FbInitInit ==
    /\ bump_alloc_ptr = 0 /\ orig_bump_alloc_ptr = 0 /\ client = "none" /\ taken = {}
    /\ live = [k \in Kinds |-> 0] /\ lost = "no"
    /\ terminals = [c \in Clients |-> 0] /\ made = [inits |-> 0, pool |-> 0] /\ sizes = [k \in Kinds |-> 0]
    /\ layout = [n |-> 0, offset |-> 0, width |-> 0, margin |-> 0, glyph |-> 1]

(* Across and down alike. *)
Layout(width, margin, glyph) ==
    LET room == (width - 2 * margin) % SIZE_MAX
    IN  [n |-> room \div glyph, offset |-> margin + (room % glyph) \div 2,
         width |-> width, margin |-> margin, glyph |-> glyph]

(* The sizes follow from the font and the screen, but they are size_t and  *)
(* the loops that fill a block count its items: what is asked for wraps    *)
(* around where what is filled does not.                                   *)
flanterm_fb_init(c, width, margin, glyph, size) ==
    /\ client = "none" /\ lost = "no" /\ made.inits < MAX_INITS
    /\ client' = c /\ taken' = {} /\ orig_bump_alloc_ptr' = bump_alloc_ptr
    /\ made' = [made EXCEPT !.inits = @ + 1]
    /\ sizes' = size
    /\ layout' = Layout(width, margin, glyph)
    /\ UNCHANGED <<bump_alloc_ptr, live, terminals, lost>>

Wanted == Blocks[Cardinality(taken) + 1]
Asks == client # "none" /\ lost = "no" /\ taken # Kinds

(* bump_alloc hands out what seems to fit. *)
next_ptr == (bump_alloc_ptr + sizes[Wanted]) % SIZE_MAX
PoolHolds == next_ptr <= POOL_SIZE

(* More is filled than the pool or the client's block holds. *)
Overrun ==
    IF client = "pool" THEN bump_alloc_ptr + sizes[Wanted] > POOL_SIZE ELSE sizes[Wanted] >= SIZE_MAX

(* The allocation that comes next, and the filling. *)
Allocate ==
    /\ Asks
    /\ taken' = taken \cup {Wanted}
    /\ IF client = "pool"
       THEN /\ PoolHolds
            /\ bump_alloc_ptr' = next_ptr /\ UNCHANGED live
       ELSE /\ live' = [live EXCEPT ![Wanted] = @ + (IF client = "malloc_free" THEN 1 ELSE 0)]
            /\ UNCHANGED bump_alloc_ptr
    /\ lost' = IF Overrun THEN "overrun" ELSE "no"
    /\ UNCHANGED <<orig_bump_alloc_ptr, client, terminals, made, sizes, layout>>

(* The fields that the failed call frees: every one but the map. *)
Freed_but_map == taken \ {"map"}

Freed == taken

PoolAfter == orig_bump_alloc_ptr

(* An allocation fails, and the call goes to fail. *)
Fail ==
    /\ Asks
    /\ client = "pool" => ~PoolHolds
    /\ client' = "none" /\ taken' = {}
    /\ bump_alloc_ptr' = IF client = "pool" THEN PoolAfter ELSE bump_alloc_ptr
    /\ live' = IF client = "malloc_free"
               THEN [k \in Kinds |-> live[k] - (IF k \in Freed THEN 1 ELSE 0)] ELSE live
    /\ UNCHANGED <<orig_bump_alloc_ptr, terminals, made, sizes, layout, lost>>

(* The first one fails: the fields to free are read through NULL.  If the  *)
(* page at 0 is mapped and holds zeros there, the call returns as above;   *)
(* else the machine faults, or frees what was never allocated.             *)
FailNull ==
    /\ Asks
    /\ client = "malloc_free" /\ taken = {}
    /\ lost' = "null"
    /\ UNCHANGED <<bump_alloc_ptr, orig_bump_alloc_ptr, client, taken, live, terminals, made,
                   sizes, layout>>

(* All blocks are there: the terminal is set up and returned. *)
Need == sizes["ctx"] + sizes["font_bits"] + sizes["font_bool"] + sizes["grid"] + sizes["queue"]
        + sizes["map"] + sizes["canvas"]

Ready ==
    /\ client # "none" /\ lost = "no" /\ taken = Kinds
    /\ client' = "none" /\ taken' = {}
    /\ terminals' = [terminals EXCEPT ![client] = @ + 1]
    /\ made' = [made EXCEPT !.pool = @ + (IF client = "pool" THEN Need ELSE 0)]
    /\ UNCHANGED <<bump_alloc_ptr, orig_bump_alloc_ptr, live, sizes, layout, lost>>

(* With the _free of the same client; without one it returns at once. *)
flanterm_fb_deinit(c) ==
    /\ client = "none" /\ terminals[c] > 0
    /\ terminals' = [terminals EXCEPT ![c] = @ - 1]
    /\ live' = IF c = "malloc_free" THEN [k \in Kinds |-> live[k] - 1] ELSE live
    /\ UNCHANGED <<bump_alloc_ptr, orig_bump_alloc_ptr, client, taken, made, sizes, layout, lost>>

FbInitNext ==
    \/ \E c \in Clients, w \in Widths, m \in Margins, g \in GlyphSizes, s \in Sizes :
          flanterm_fb_init(c, w, m, g, s)
    \/ Allocate \/ Fail \/ FailNull \/ Ready
    \/ \E c \in Clients : flanterm_fb_deinit(c)

FbInitSpec == FbInitInit /\ [][FbInitNext]_fbinit

-----------------------------------------------------------------------------
(* Types; the pool does not outgrow its size, and moves back below where a *)
(* call found it only in one that overruns it.                             *)
FbInitTypeOK ==
    /\ bump_alloc_ptr \in 0 .. POOL_SIZE /\ orig_bump_alloc_ptr \in 0 .. POOL_SIZE
    /\ client \in Clients \cup {"none"} /\ taken \subseteq Kinds
    /\ live \in [Kinds -> Nat] /\ terminals \in [Clients -> Nat]
    /\ sizes \in [Kinds -> Nat] /\ lost \in {"no", "null", "overrun"}
    /\ lost # "overrun" => orig_bump_alloc_ptr <= bump_alloc_ptr

(* Whatever allocations failed before, a client that can free holds        *)
(* exactly the blocks of the terminals it still has, each once.            *)
NothingLeaked == client = "none" => \A k \in Kinds : live[k] = terminals["malloc_free"]

(* The pool holds exactly the terminals that were ever made from it: a     *)
(* call that fails gives back what it took, and unmaking one gives back    *)
(* nothing.                                                                *)
PoolExact == client = "none" => bump_alloc_ptr = made.pool

(* Memory is lost only where a client that can free has no block at all,   *)
(* or where a terminal needs more than the pool still has, or a block of   *)
(* it more than a size_t counts: the check of bump_alloc cannot see that.  *)
LostOnlyIf ==
    /\ lost = "null" => client = "malloc_free" /\ taken = {}
    /\ lost = "overrun" =>
          IF client = "pool" THEN orig_bump_alloc_ptr + Need > POOL_SIZE
          ELSE \E k \in taken : sizes[k] >= SIZE_MAX

(* The cells lie inside the frame buffer and its margins as long as the    *)
(* margins leave room; the subtraction wraps around otherwise.             *)
CellsInside ==
    2 * layout.margin <= layout.width =>
        /\ layout.offset >= layout.margin
        /\ layout.offset + layout.n * layout.glyph <= layout.width - layout.margin

(* fb.c: whatever sizes are asked for and whatever allocations fail, a     *)
(* client holds exactly the blocks of its terminals, the pool exactly      *)
(* those made from it, and the cells of a terminal lie inside the frame    *)
(* buffer's margins; a call goes wrong only where the first allocation of  *)
(* a client with _free fails, or a size wraps around.                      *)
MemoryExact == FbInitTypeOK /\ NothingLeaked /\ PoolExact /\ CellsInside /\ LostOnlyIf
=============================================================================
