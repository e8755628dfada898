# FrazzOS in TLA+

FrazzOS is a small 64-bit x86 kernel started by the Limine boot loader. This
directory holds TLA+ modules that model its memory managers, its scheduler, the
start of the application processors, its boot under interrupts, its device drivers,
its console and the terminal that comes with it; TLC configurations that check them on
small instances; and TLAPS proofs of the main properties for every value of the
constants. Paths below are relative to `src/kernel/src/`.

To check a run: `tlc -config MCPmm.cfg MCPmm`. To check the proofs of a module:
`tlapm PmmProofs.tla`. `PROJECT.json` lists the runs, the source lines that each
definition stands for, the hazards and the theorems.

## 1. Inventory

### Boot order and interactions

`_start` (main.c) calls one initialiser after the other: console, GDT, disk, IDT,
`pmm_init`, `vmm_init`, `heap_init`, ACPI, local APIC, I/O APIC, keyboard, HPET, APIC
timer, `smp_init`, TSS, `init_multitasking`. Until the IDT and the APICs are up
nothing runs concurrently with it. From `ps2_init` on, keyboard interrupts arrive;
in `smp_init` the other processors start; from `init_multitasking` on, the timer
interrupt switches between tasks.

The calls between components:

- `pmm_alloc` feeds the page tables (`vmm_get_next_map_level`), the heap
  (`heap_init`, once) and `mmap`;
- `malloc` feeds task control blocks and kernel stacks (`create_process`), the seven
  arrays of `acpi_init` and the per-processor structure (`new_cpu_local`); there is no
  `free`;
- `vmm_map_page` is called by `vmm_init` and, later, by `acpi_init` for the pages of the
  firmware's root table and by `mmap`;
- `kprint` is called by everyone: `cli`, take a spin lock, print, release it, `sti`.
  The `sti` is unconditional, so that any code that prints leaves interrupts on;
- the timer interrupt calls `schedule`, and the keyboard interrupt prints.

### Components

| component | state | operations | what makes it correct |
|---|---|---|---|
| Bitmaps: klibc/bitmap.c, the static twins in mm/pmm.c | none of its own; words of 64 bits | set, clear, test, first free, region check | a bit that was set tests as set; searches miss nothing |
| Page allocator: mm/pmm.c, mm/mm.c | bitmap, three counters | `pmm_init`, `pmm_alloc`, `pmm_free_page` | one owner per page; only usable memory; low memory reserved; first fit; counters exact |
| Page tables: mm/vmm.c | tables in frames, root, CR3, the TLB | `vmm_init`, map, unmap, activate | one call changes one translation; tables are a tree; no stale TLB entry; the ranges of `vmm_init` mapped |
| Heap: mm/heap.c, klibc/alloc.c | bitmap, two counters, base address | `heap_init`, `malloc`, `mmap` | results disjoint; the heap stays in its memory; calls return |
| Tasks: proc/*, idt/isr.c, the stubs of idt/idt.asm | a ring of control blocks, `current_task`, the stack in use, IF | create, link, timer interrupt, walk, switch | the bookkeeping matches the CPU; no task dropped from the ring; no starvation; full quanta |
| Other processors: smp/smp.c, klibc/lock.c | `ap_done`, the lock, `goto_address` | `smp_init`, `ap_entry_point`, lock, unlock | no decrement lost; the boot processor waits for all, and not for ever |
| Keyboard: devices/ps2.c | modifiers, locks, the controller's buffer | `ps2_init`, `keyboard_handler` | prints what was typed; no modifier sticks; no byte is left waiting |
| I/O APIC: devices/ioapic.c | redirection entries, the timer's mask bit | init with overrides, mask, unmask, all lines | each line has its vector on its pin; open is what was last unmasked |
| Interrupt controllers and boot: main.c, devices/apic.c, pic.c, klibc/io.c, idt/ | interrupt flag, IDT, lines waiting and in service, kprint's lock | one step per initialiser that interrupts can tell, kprint, handlers | no interrupt without a handler; nesting only where it is harmless; no wait for one's own lock; the boot ends |
| Timers: devices/timer.c, hpet.c | HPET counter, local timer's counts and divider | calibration, `usleep`, `wait_10ms` | the count fits the interval; nobody wakes early; every wait ends |
| ACPI: firmware/acpi.c | seven arrays of pointers | checks, table search, the walk over the MADT | the tables read check; every entry once in its array; the walk ends |
| Disk: disk/disk.c | one descriptor; the drive's transfer | get, block read | the sectors asked for, in order; a read ends |
| Descriptor tables: gdt/, tss/, idt/idt.c | bytes of the GDT, gates of the IDT, task register | `gdt_init`, `idt_init`, `init_tss` | what a selector selects is what was written for it |
| Console: drivers/graphics/framebuffer.c, ssfn_putc | pixels, cursor | print a character or control | the screen shows the last lines of the text; no pixel outside |
| Terminal back end: backends/fb.c | grid, queue of changes, map into it, frame buffer, cursor | print, scroll, clear, move, flush, refresh | each call does to the screen what the front end expects; a flush leaves no stale pixel |
| Terminal memory: backends/fb.c | pool pointer, blocks held | init, deinit, `bump_alloc` | no block lost or freed twice; cells inside the frame buffer |
| Terminal front end: flanterm.c | cursor, margins, attributes, parser flags | control and escape sequences, SGR, parsing, widths | sequences touch what they name; colours match attributes; nothing of a broken sequence is left; widths exact |

The terminal is built with the kernel but not called: `terminal_init` is commented out
in main.c. The console is what `kprint` prints on.

### What is hard here

- **Interrupts inside unprotected updates.** No list or allocator takes a lock or
  turns interrupts off. `add_process` has two stores; `malloc` has a search and a
  marking; and the two interrupt stubs save no register (idt.asm:29-43; only a switch of
  tasks saves the callee-saved ones), so that the code they hit goes on with the handler's
  values in the others.
- **Interrupts off.** A new task is entered by `ret`, with interrupts off, and gets
  them back only from `kprint`'s `sti`.
- **Integer widths.** `1 << (idx % 64)` is a 32-bit shift; `available_pages` is
  unsigned; the loop over the kernel's 4 GB starts 2 GB below 2^64.
- **Sizes in the wrong unit.** `malloc` bounds its scan by bytes of bitmap where words
  are meant, and its address by words where bytes are meant.
- **Unchecked failures.** `ENOMEM` is used as a page, a pointer or an index.
- **Self-reference.** After CR3 is loaded the page tables are edited through the
  mapping that they define.
- **Several processors.** `ap_done--` is a load and a store on each of them.
- **Bytes and edges.** A keyboard interrupt is an edge per byte: one that comes while
  it is masked is gone.

- **Waits without a way out.** Loops poll for a bit that a device may never set, or for
  a counter that another task sets back, or step by a length that the firmware gives.
- **Two copies of one thing.** The terminal keeps cells in a grid and a queue, colours as
  attributes and as pens, and its parser state in ten flags that are cleared one by one.

`PROJECT.json` lists these, and the rest, at the lines where they bite, with the
properties that would catch them.

## 2. Modules

```
Bitmap ── Pmm ── MCPmm                Scheduler ── MCScheduler
   │       └──── PmmProofs                └─────── SchedulerProofs
   ├───── Heap ── MCHeap              AddressSpace <- Vmm ── MCVmm
   │       └───── HeapProofs              └───────── VmmProofs
   └───── BitmapProofs                Descriptors ── MCDescriptors

Boot, Acpi, IoApic, Timer, Disk, Smp ── MCDevices
 └── MachineProofs

Ps2 ── MCPs2
 └── ConsoleProofs (Ps2 and Console)

Page <- Console, FbTerm, FbInit, Sgr, Parser, Width ── MCScreens
Screen ── FbTerm
   └───── Term ── MCTerm
FbTerm, Term, FbInit, Sgr, Parser, Width ── TerminalProofs
```

`PmmProofs`, `HeapProofs`, `MachineProofs` and `TerminalProofs` extend `BitmapProofs`, which also
holds the facts about naturals that several proofs use. `MachineProofs` (Smp and the devices),
`ConsoleProofs` (Ps2 and Console, what a user types and sees) and `TerminalProofs` (the parts of
the terminal) prove about several components each, one section after the other; so the names
of these components' definitions are all different (`BootInit`, `TimerNext`, `DiskTypeOK`, ...).
`Vmm` instantiates `AddressSpace`, and `Console` instantiates `Page`, for a refinement. `FbTerm`
and `Term` extend `Screen`, the contract between the terminal's two halves: `FbTerm` is shown
to meet it, and `Term` relies on it.

`MCDevices` and `MCScreens` put components that share no variable side by side. The
variable `part` is chosen at the start and says which component moves; the others stay
in one initial state. The runs thus look at each component by itself, and each conjunct
of their properties is about one of them. `MCTerm` has a run of its own, as the cells of its
screen must all differ for a shift to show.

An operator that stands directly before a definition and whose
name says what is wrong with it (`..._short`, `...NoLow`, `...Sticks`) is a faulty
variant of that definition: it is used by no specification, and is substituted for
the definition to see that a property fails when the code is wrong in that way.

### Bitmap

A word is the set of its 1 bits. `Mask(idx)` is the value of `1 << (idx % 64)` as the
build computes it: the shift count is taken modulo 32, and the int is sign-extended.
Indices 32 apart in a word share a mask (`Alias`), and the index of the sign bit covers
the upper half of the word. `SetBits` and `ClearBits` are the loops over a range of
indices; `find_first_free` and `is_free_region_big_enough` are the two searches, which
are the same code in bitmap.c and in pmm.c. A search whose start is not on a word
boundary scans the rest of that word whatever its bound is (`ScanRange`).

### Pmm

`map` holds the bitmap and the RAM behind it, up to `WINDOW` words, with any contents
of `RamWords` at the start. `pmm_init` is one action: totals, the choice of a place for
the bitmap, the `memset`, the frees of usable entries, and the two reservations. The
first of these passes `*bitmap.map`, the value of the bitmap's first word, where the
bitmap's address is meant; `WordValue` models that. `pmm_alloc` enters the search, and
each iteration of its loop is one of `ProbeNothing`, `ProbeUsed`, `ProbeFree` and
`ProbeOverrun`. `pmm_free_page` is called for pages that are held. The ghost variables
say which pages are held, whether a page was handed out twice, and whether a page was
freed while another page of its alias class was held.

Assumed: the clients do not write to the frames of the bitmap itself. A first-fit
allocation may hand out the frames that the bitmap occupies (they are reserved only if
the first word happens to hold their address), and what its client then writes there
is not modelled. The behaviour is followed no further once a page has two owners.

### Heap

`map` holds `heap.bitmap` and the memory that follows it, because the scan is bounded by
`sizeof(bitmap)` where words are meant. A call of `malloc` takes four kinds of step:
entry (with the first search), an iteration of the loop, the marking, the counting.
`Interrupt(d)` may come between any two: the caller `d` has the CPU afterwards, and the index
and the size that the interrupted call held in registers are any numbers
(`Beyond` stands for every index outside the window). The search, the marking or the count
then goes on with them. `interrupts` counts the interrupts that hit a call, up to
`MAX_INTERRUPTS`; the properties say what holds while it is 0, and `NoDoubleAllocation` that
nothing else gives a block to two owners. Stray writes of such a call to other memory are not
followed. The marking is one step: two callers whose
regions overlap have both passed their checks, and the order of the bits they set does
not matter; and an interrupt in the middle of it is, for the properties, one before it with
another region, as they say nothing more of the bits after either. `AddressOf` keeps both the pointer's stride and the factor `BLOCK_SIZE`.

### Scheduler

The tasks of one processor. `next` is the ring, `saved[t]` the task whose execution the
stack pointer in t's control block resumes, `running` the task the CPU is really
executing, `intr` the interrupt flag. A task at `main` may call `kprint` or
`create_process` or do nothing. `create_process` is its two mallocs with what follows each;
`add_process` is three instructions (`add_process_load`, `_link`, `_close`),
because interrupts may hit between them. `Wild` is the value of a `next` that nobody
has written. `timer_irq_handler` counts the slice down or enters the walk;
`get_next_task` is one task of the walk per step and, at its end, `switch_to_task`,
which moves `current_task` to its own `next` whatever the walk found.

The stubs save no register, and all of these calls keep arguments or locals in
caller-saved ones, the mallocs inside `create_process` included. An interrupt inside any of
them (`Calls`) puts the task into `clobbered`. When it goes on it may be lucky and do what it
would have done, or take the step `stray`: the machine is `astray`, of which nothing is known
any more. So is `init_multitasking` after a keyboard interrupt. `clobbered` is never emptied:
`RingIntact` and `NoStarvation` say nothing after the first such interrupt, and `StuckOnlyIf`
says that nothing but one leads astray, the walk along an unwritten pointer included.

A first malloc of `create_process` that fails is not noticed: the store of `kernel_top`
through -1 runs over both ends of the address space. It faults, or, as `vmm_init` maps both
ends, writes there and goes on to the panic for want of a stack (`create_process_no_tcb`).
The control block that `create_process` fills in is not reachable before `add_process`. Of
`keyboard_irq_handler` only the clobbering is here; the handler's `sti` (in `kprint`) does not
let a timer interrupt nest, because the end of interrupt is sent after it and both vectors are
in one priority class.

### Smp

`smp_init` sets the counter, writes `goto_address` of `cpus[1]` to `cpus[cpu_count - 1]`
one per step, and spins. Each application processor enters when its `goto_address` is
written, takes the lock, loads, stores, releases, and spins for ever. The boot
processor may be at any index of the boot loader's list. `kprint`'s lock is left out:
the application processors never print.

### Vmm and AddressSpace

Pages are numbered, and a virtual page by the index bits of its canonical address, so that the
highest is followed by page 0. `mem[f]` is the table of entries in frame f; stale contents of a
frame that becomes a table stay, because nobody clears them. `vmm_get_next_map_level` is the C
function of that name on a record of the state; `StoreEntry` is the walk of `vmm_map_page` and
`vmm_unmap_page`. `vmm_init` is an action per iteration of each of its three loops. `lost`
becomes true when the code uses a page that is not the table it looks for, because memory ran
out or because `InPlace` fails, at the step of the walk where that happens: after the load of
CR3 the tables are reached at the virtual address that equals their physical one, and the root
in the higher half. `dirty` becomes true when a frame that held present-looking entries becomes
a table. The behaviour is followed no further after either.

External behaviour that the code relies on: before the load of CR3 the boot loader's
tables identity-map memory and map the higher half; the processor caches a translation
at any time (`TlbFill`), and drops all of them at `mov cr3`.

`AddressSpace` is what the module promises: a function from virtual to physical pages
of which a step changes at most one value, as long as the tables can be trusted.

Effects of the code that the model shows and no property forbids: `mmap` maps only the
first page, because its counter steps by `PAGE_SIZE` over a number of pages;
`vmm_unmap_page` of a page without tables allocates tables with flags 0, which the next
call does not find.

### Ps2

The keyboard and the driver. A key press or release puts bytes of scancode set 1 into
`fifo`, each with the character that it should print (a ghost); the first byte raises
an edge, which is lost while the interrupt is masked. `ps2_init` drains, then unmasks,
in two steps. `keyboard_handler` takes one byte: it looks the key up, updates modifiers
and locks, and prints. A scancode behind the end of the table, as every 0xE0 prefix is,
reads a key of `Stray`, whatever lies there. `ps2_send_command` writes its command only
while the controller's input buffer is full, which is never the case here; nothing is
sent, so the keyboard keeps the controller's translation to set 1.

### Boot

`Program` is `_start` as a list of the steps that an interrupt can tell apart. `kprint` is three
steps (`cli` and lock, text, unlock and `sti`), and the `sti` comes whatever the flag was
before. `pic_irr` and `pic_isr` are the old controllers, which `remap_pic` opens between its
initialisation words and the write of the old masks, two steps; `irr`, `isr` and `open` are the
local APIC and the lines. `stack` holds the handlers that run, the innermost last, each with its
place: `timer_irq_handler` ends the interrupt first, `keyboard_irq_handler` prints and then ends
it. An interrupt that finds no IDT, no handler or no `current_task` is recorded in `stray`, and
the behaviour is followed no further. So is one that returns to the boot (`Live`: to anything
but its last `hlt` loop) and has taken registers that it needs: at each `Return` that may or may
not be the case. A handler that is itself interrupted is behind its end of interrupt and only
returns. The priority classes of the local APIC, the edge of a line and the end of interrupt are
external. Assumed: the boot loader enters with interrupts off and every line masked.

### Acpi

One machine's firmware is a record: sums of the RSDP and RSDT, revision, the tables, the entries
of the MADT and how much of the last one is cut off. `acpi_init`, `madt_init` (the search and
seven mallocs) and one step per entry (`Walk`). The seven arrays lie in one memory, where
`Place` puts them according to `malloc`'s arithmetic, so that an array that grows too long
overwrites the next one. It turns out that the stride is eight times the room that was asked
for, which makes up for the missing check (`TablesExact`). The RSDT itself is always mapped: its
address has 32 bits, and the direct map of `vmm_init` (vmm.c:86-88) covers the first 4 GB, so
that the calls of `vmm_map_page` in `acpi_init` repeat what is there.

### IoApic

The redirection table as records of vector, mask and destination, from what the firmware
left in it. `ioapic_init` masks all, maps the overrides, then the lines that no override
has taken: what its loops leave in an entry is stated per entry, where the last override for
a pin stays. `mask_irq` and `unmask_irq` go through `GsiOf`, which takes the first override
of an IRQ; of IRQ 0 they change the local timer and fall through to entry 0.
Assumed (`IoApicNumbers`): an override is for a line of the ISA bus, at most one is for each
line, and no two lines are on one pin; and there are no more entries than
`calc_redtbl_offset` reaches in 8 bits. `mask_all_irq` and `unmask_all_irq` pass vectors where
IRQ numbers are expected (`AllMissesIsa`).

### Timer

Time is the bus clock of the local timer; the HPET ticks every `FEMTO` clocks, and up to
`DELAY` clocks pass between two instructions. `apic_timer_init` is an action per register
access. `usleep` resets the one counter of the HPET and polls it; several tasks do so at
once. Both the time that the counter shows and the time to wait for are 64-bit products
(`WORD`), and wrap. The divider is set after the measurement, so that the period is the
interval times the quotient of the two dividers: an error, of which `PeriodScaled` says how
large it is, and which no property forbids.

Sleepers change places through the timer interrupt, whose stub saves no register.
`SleepLost` takes from a call the time that it waits for, and it may then return at once or
never (`SleepLostEnd`, without fairness); before the counter runs it may also lose the
address of the HPET and write anywhere (`SleepAstray`). `BootAstray` is the same for a keyboard
interrupt during the calibration. `SleepNotShort` is about the sleepers that keep what they
need, and about times that fit a word.

### Disk

The drive has a sector count, an address and a status, may be late, may fail, and ignores
commands during a transfer. `disk_read_block` writes the registers; `ReadSector` is one
turn of the polling loop. `spoiled` says that a read of 0 sectors, or of a negative
number, has left the drive in the middle of a transfer.

### Descriptors

`gdt_init` and `init_tss` on bytes of memory, so that pointer arithmetic shows where a
descriptor lands, and `idt_init` on gates. Limits and bases of flat segments are left out.

### Page and Console

`Console` is `term_print_char` with `ssfn_putc` on an array of pixels, each bearing the name of
its glyph (`SpaceGlyph` is the blank one); x and y may be what the code lets them be, and
comparisons with unsigned numbers are as the build makes them (`Exceeds`). The loop of a tab is
a step per space. `Page` is a page of characters that wraps and scrolls when the next character
comes; `Console` implements it where there are no backspaces or wide glyphs, with the mapping
that reads each cell back from its pixels.

### Screen, FbTerm and FbInit

`Screen` defines what each function of the back end does to a screen of cells.
`FbTerm` has the grid of the last flush, the queue, the map from cells to the queue and
the frame buffer; `push_to_queue`, the calls built on it, `draw_cursor`, the flush with
`plot_char_fast` and the refresh. `Screen` keeps the code's comparison of the row with the
number of columns (`LastRow`), which both halves share. Pictures are sets of pixels with
colours; fonts, scaling and canvas images are left out.

`FbInit` allocates the seven blocks of a terminal one by one, for a client with a pool,
with an allocator, or with an allocator and a function that frees; each may fail, and the
error path gives back. Sizes are `size_t`: a block may have to hold more than one counts,
and `bump_alloc` compares a sum that wraps (`next_ptr`), so that it may hand out what the pool
does not have and move its pointer back. `lost` is then "overrun", as the loops that fill the
blocks count items and do not wrap. When the first allocation fails, `ctx` is NULL and the
error path reads the fields to free through it (fb.c:1099, before the test at fb.c:1118): if
page 0 is mapped and holds zeros there the call returns NULL (`Fail`), else `lost` is "null".
The behaviour is followed no further once something is lost. `Layout` is the arithmetic of
margins.

### Term, Sgr, Parser and Width

`Parser` is `flanterm_putchar` by bytes: cancellation, UTF-8, escape, control and system
command states, character sets. It tells in `done` what a byte completed. `Term` is what
the control and escape sequences and characters then do, as compositions of `Screen`'s
operators and of loops over them (`Blanks`, `Scrolls`, `Shifts`, `Opened`); ESC 7 and ESC 8
(`SaveScreen`, `RestoreScreen`) save and restore the back end's cursor and pens beside the
cursor of 's' and 'u', and a character is one byte (`PrintChar`), one that has no glyph but in
insert mode still makes room (`Unprintable`), or one of UTF-8, which makes none
(`PrintUnicode`). `Places` is where a cursor can be: right of the last column, too, and on a
screen wider than high below the last row, since `LastRow` compares a row with the number of
columns. The charsets of `Parser` only change which glyph a byte is. `Sgr` is what the
colour sequences do to attributes and pens, one value at a time, with saving and restoring.
`Width` is the search for a character's columns, a turn of the loop per step.

## 3. Runs

Deadlock is checked except in `devices`, `screens` and `sequences`, whose parts come to an end (the
boot hangs, the tables are read, every processor is in its empty loop, a bounded number of calls
is made), and in `descriptors_tss`, straight-line code.

| run | instance | checks |
|---|---|---|
| `pmm` | words of 8 bits, ints of 4, pages of 4 bytes, 3 words; six memory maps; sizes 0, 1, 2+, 5 pages | `NoDoubleAllocation`, `LowMemoryReserved`, `OnlyUsableAllocated`, `CountersExact`, `FirstFit`, `StaysInBitmap`, `SearchEnds` |
| `heap` | one caller, words of 4 bits, a heap of 2 words and 2 behind it, one interrupt in a call | `ResultsDisjoint`, `HeapBounded`, `MallocReturns` |
| `heap_race` | two callers, a heap of 2 words and 2 behind it, one interrupt in a call | `NoDoubleAllocation` |
| `scheduler` | four tasks, quantum 2, heaps that fail at each malloc | `CpuMatchesTaskList`, `RingIntact`, `StuckOnlyIf`, `FullQuantum`, `NoStarvation` |
| `vmm` | tables of 8 entries, 4096 virtual pages, 4 GB = 64 pages; four sets of free frames, RAM clean or used | `InitMapsExact`, `TablesSound`, `TlbCoherent`, `ImplementsAddressSpace`, `InitEnds` |
| `vmm_identity` | the same | `IdentityMapped`, violated |
| `ps2` | A, both Shifts, Caps Lock, right Ctrl; a buffer of 2 bytes | `PrintsWhatWasTyped`, `NoStuckModifier`, `BytesKept` |
| `ps2_table` | 1, left Ctrl, keypad 0, F12 | `TableAsCommented`, violated |
| `devices` | Boot with 3 keys; Acpi with about 1000 firmwares; IoApic of 2, 3 and 7 entries; Timer with two sleepers; Disk with 3 calls; Smp with four processors, the boot processor at every index | `InterruptsHandled`, `TablesRead`, `AllCheckedIn`, `CountExact`, `LinesRouted`, `TimeKept`, `SectorsExact`, `WaitsEnd` |
| `screens` | Console twice; FbTerm of 3 rows and 2 columns; FbInit with 3 calls; Sgr with 7 steps; Parser with 7 bytes; Width with every small table | `ShowsPage`, `CursorNear`, `FlushExact`, `MemoryExact`, `ColoursKept`, `InputExact`, `SearchExact` |
| `sequences` | Term of 3 rows and 4 columns of cells that all differ, numbers up to 4, two steps from every cursor, saved cursor and region | `SequencesExact` |
| `descriptors_tss` | the code's own numbers | `TssSelected`, violated |

What the conjunctions say:

- `HeapBounded`: types; free blocks never exceed the heap's; `malloc` leaves its bitmap only if
  no run inside it is long enough.
- `TablesSound`: types; the tables form a tree; they are lost only where the identity map is
  gone or memory has run out. `BytesKept`: types; no byte waits without an interrupt.
- `InterruptsHandled`: what goes wrong is an interrupt of the old controllers inside
  `remap_pic`, or one that takes registers from the code that it returns to; handlers nest only
  behind their end of interrupt; what is in service is what has not ended; no handler waits for
  a lock that the code under it holds.
- `TablesRead`: a finished walk has put every entry once, in order, into its array, and no array
  has overwritten another up to its stride; the MADT that is used is the first that checks; a
  fault only for ACPI 2, an entry of length 0, or more entries than there is memory behind the
  last array (4 strides).
- `LinesRouted`: each ISA line's vector is on its pin; an entry is open exactly if its IRQ was
  last unmasked; the calls for all lines change no ISA line.
- `TimeKept`: the count measured, the period that follows, and no early return of a `usleep`
  that keeps its registers and whose time fits a word.
- `SectorsExact`: the sectors asked for, in order, unless an earlier read of 0 sectors spoiled
  the drive.
- `WaitsEnd` says which waits end and which do not. The boot and every accepted interrupt come
  to an end unless an interrupt goes wrong; the calibration and every `usleep` do unless one
  takes their registers; `acpi_init` ends if and only if the walk meets no entry of length 0
  (`InitEnds`); a read ends, or waits, and then for ever, for a drive that has reported an
  error, has given all it was asked for, or is not there (`ReadEnds`); `smp_init` returns if the
  boot processor is the first of the list, and never if it is not (`SmpInitReturns`).
- `ShowsPage`: the refinement of `Page`. `CursorNear`: with backspaces and wide glyphs, only a
  few pixels just before the frame buffer are written, and backspaces stop at the last place of
  the line above.
- `FlushExact`: the queue fits; after a flush every cell and the cursor are shown and no pixel
  is stale; each call does to the screen what `Screen` says.
- `MemoryExact`: blocks held, pool and layout; and memory is lost only when the first allocation
  of a client that can free fails, or when a terminal needs more than the pool has left or a
  block more than a `size_t` counts (`LostOnlyIf`).
- `ColoursKept`: types, so that `sgr` reads no more values than there are; colours that are what
  the attributes ask for stay so under colour numbers, defaults and reverse video, and under
  intensities unless reverse video is on and the colour is a default; 0 brings them back from
  anywhere, and a saved state is restored.
- `SequencesExact`: 'J', 'K', 'X', '@' and 'P', and characters in insert mode, change exactly
  the cells they name and leave the cursor in its place; the region stays valid and holds the
  cursor and what scrolls; the cursor leaves the screen only below the region (`LastRow`) or by
  ESC 8, which takes it back to where ESC 7 saved it. Of 'K' with 1 the cursor's own cell is
  left open: the code's loop spares it, 'J' with 1 and the manual page that flanterm.c names
  take it.
- `InputExact`: no flag of a broken sequence is left (but one, after CAN); the values of a
  control sequence are those of its text; UTF-8 is decoded as spelt.
- `SearchExact`: columns as a reader of the table would give them, reads inside it, and a search
  that shrinks.

Why the bounds are enough:

- *pmm*. The ratio of 2 between word and int is the code's; 4-bit ints have an
  ordinary bit, a sign bit and an alias of each. The maps hold a well-formed one with
  and without RAM behind the bitmap, usable and reserved pages in one alias class, a
  hole that puts usable pages past the bitmap, a first word that is not 0, and no room
  for the bitmap. Three words give the low word, a word in use and a word past the end.
- *heap*. The words behind the bitmap are fewer than the code would scan, but more
  than one, so that a run may straddle the end or lie wholly past it. Sizes lie below,
  at and between multiples of the block. One interrupt in a call is enough for what the
  properties say of none; behind it the calls go on with every index and size, for
  `MallocReturns` too.
- *scheduler*. Four tasks make a ring in which the predecessor, the successor and a
  third task differ while a fourth is being linked. Quantum 2 separates the first, a
  middle and the last tick.
- *vmm*. Four levels as in the code, 8 entries each: 4 GB span several tables of the
  lower two levels, and the 2 GB that wrap are half of each range. The watched pages are
  the first, last and next-to-last of every range, and a table's boundary.
- *ps2*. A buffer of 2 holds one prefixed code, so that a byte arrives while another
  waits, and an overflow happens. Bytes lost to overflow blur the ghost, and the
  properties say nothing after that.

- *devices*. Boot: three keys let one arrive before, one while and one after the keyboard is
  opened. Acpi: arrays of one pointer's room and a stride of three, so that six entries of a
  type pass both. IoApic: pins below, at and above the number of lines, overrides onto pin 0,
  onto another line's pin and onto a free one. Timer: an HPET tick of 2 clocks against dividers
  of 2 and 16, which begin anywhere in each other's; a word of 15 clocks, so that the counter's
  product wraps between two ticks; naps of 2 ticks, and of 16 clocks, which wrap to 1 (on the
  machine: 10 ms, and more than five hours). Disk: counts below, at and above what the register
  holds, and an address whose drive is absent. Smp: three application processors contend for the
  lock: one holds it, one waits, one has not been called.
- *screens*. Console: three columns and two rows of glyphs, and a screen whose last line is cut.
  FbTerm: more rows than columns, so that the comparison of a row with the columns bites; three
  calls between flushes. FbInit: blocks that fit the pool, that do not, and whose size wraps,
  alone or in the pool's sum; three calls let a terminal be made, a call fail or wrap, and
  another follow. Sgr: one colour number (the code treats all alike) and 7 steps, enough to
  save, change under reverse video, restore and change again. Parser: 7 bytes hold a broken
  sequence and a complete one after it; room for two values. Width: every sorted table of up to
  three intervals over nine code points, up to four single ones, and any two intervals, sorted
  or not.
- *sequences*. Two steps from every cursor, including those right of the last column and below
  the screen, with one saved there or at home, and every margin. A screen wider than high,
  because a cursor can be below it only then (FbTerm has the opposite); numbers up to the
  columns and beyond the rows.

What the conditional properties mean. Several have the form "only if": a page has two owners
only after a page of a shared mask was freed; a block only after an interrupt hit a call of
`malloc`; the list of tasks breaks only after one hit a call of Scheduler; a sleeper returns
early only after one hit its call. The right-hand sides are behaviours the code does have: the
stubs lose the registers of whatever they interrupt. In the model they are reached, and the
properties say that nothing else leads there. They are what would hold of these components
without a condition if the stubs saved their registers and `malloc` and `add_process` were not
preempted.

### Fairness

- *Pmm*: weak fairness of the loop's iteration: it runs on the CPU and waits for
  nothing.
- *Heap*: weak fairness of each caller's steps inside `malloc` while it has the CPU, and strong
  fairness of the interrupt that gives it the CPU: the timer keeps switching, as `NoStarvation`
  shows of the scheduler.
- *Scheduler*: weak fairness of the timer interrupt, which is periodic, and of the walk,
  which runs with interrupts off. None of the tasks: a task may compute for ever, or
  spin with interrupts off. Hence `NoStarvation` has the premise `[]<>intr`.
- *Smp*: weak fairness per processor. The lock is not fair, but each processor takes it
  once, so that weak fairness is enough.
- *Vmm*: weak fairness of `vmm_init`, which runs alone.
- *Boot*: weak fairness of the code that runs, boot or handler; strong fairness of each
  vector's acceptance, which is enabled again and again while interrupts go off and on: a
  local APIC holds a request until it is taken.
- *Acpi*: weak fairness: it runs alone.
- *Timer*: weak fairness of the two clocks, of the boot processor and of each sleeper's
  start, which the scheduler runs again and again; strong fairness of a sleeper's return: the
  counter that has reached its time stays there until another call sets it back or its product
  wraps, which takes hours, and a sleeper that has the CPU polls every few hundred
  nanoseconds. There are finitely many sleeps: with endless resets by others a sleeper may wait
  for ever. Nothing is assumed of a sleeper that has lost its registers.
- *Disk*: weak fairness of the drive, which answers or fails, and of the polling.
- *Ps2* and all of `screens` and `sequences`: none; their properties are safety properties.

### Findings

- `vmm_identity`: vmm.c maps 4 GB from `KERNEL_VIRT_TOP_ADDR`, 2 GB below the end of the
  address space. The second half wraps to virtual address 0 and replaces the first
  2 GB of the identity map, of which vmm.c:78 says `// Identity map first 4 GB`, with
  `physical_base` + 2 GB on. Later calls of `vmm_map_page` reach the lower tables through
  the identity map: `LostOnlyIf` shows that this, or want of a frame, is the only way the
  tables are lost.
- `ps2_table`: the scancode table has no rows for 0x4a to 0x4f, so that the rows from
  ps2.c:91 on stand six below the scancode in their comments: 0x52, commented as
  `KEY_KP_0`, decodes as F12.

- `descriptors_tss`: tss.c adds `TSS_OFFSET` to a pointer to 16-byte descriptors, so that
  the descriptor lies 640 bytes behind the start of a table of 56 (config.h:6 says
  `// 1 extra for tss`); `ltr` loads an empty one. The base is also cast to 8 bits before
  it is shifted.

Also visible in the models, with no line of the repository that says otherwise:
`smp_init` spins for ever when the boot processor is not `cpus[0]` (`AllCheckedIn` and
`CountExact` hold even then); the period of the APIC timer is longer than the interval
that it was calibrated for, by the quotient of the dividers (`PeriodScaled`); a `malloc` of less
than `BLOCK_SIZE` bytes reserves nothing; a full heap is continued in the memory behind
its bitmap; a `usleep` is prolonged by every other one; a CAN inside a private sequence
makes the next sequence a private one; a change of intensity under reverse video with a
default colour leaves colours that the attributes do not ask for; a first allocation that
fails for a client that can free has its NULL pointer read (`FailNull`, fb.c:1099); 'K' with 1
spares the cursor's cell, against the manual page named at flanterm.c:33, which is not in the
repository; and an edge of the keyboard between the drain and the unmasking of `ps2_init` is
lost, and all bytes after it wait (`BytesKept` allows this one cause).

The lost registers (idt.asm:29-43) are the largest of these. No text in the repository
says that they are kept, so there is no finding; Scheduler, Heap, Boot and Timer have the loss
among their actions.

## 4. Proofs

TLAPS proves the following for every value of the constants. The assumptions are the
named `ASSUME`s of the modules.

| theorem | states |
|---|---|
| `PmmProofs!TypeCorrect` | types; the counters fit a machine word |
| `PmmProofs!PagesHaveOneOwner` | `[]NoDoubleAllocation` |
| `PmmProofs!LowMemoryIsReserved` | `[]LowMemoryReserved` |
| `PmmProofs!AllocIsFirstFit` | the action property `FirstFit` |
| `PmmProofs!CountersAreExact` | `[]CountersExact` |
| `PmmProofs!OnlyUsableHandedOut` | `[]OnlyUsableAllocated` |
| `PmmProofs!WritesStayInBitmap` | the action property `StaysInBitmap` |
| `HeapProofs!TypeCorrect`, `BlocksHaveOneOwner` | types, `[]NoDoubleAllocation` for any number of callers |
| `HeapProofs!ResultsShareNoByte`, `BookkeepingHolds` | `[]ResultsDisjoint`, `[]HeapBounded` |
| `SchedulerProofs!TypeCorrect` | types; slices in 0 .. QUANTUM |
| `SchedulerProofs!SwitchKeepsAgreement` | `[]CpuMatchesTaskList` for any number of tasks |
| `SchedulerProofs!OnlyTornCallsAreFatal` | `[]StuckOnlyIf` |
| `SchedulerProofs!TasksGetFullQuantum` | the action property `FullQuantum` |
| `SchedulerProofs!RingVisitsAll` | `[]RingIntact` for any number of tasks |
| `VmmProofs!TypeCorrect` | `[]TypeOK` for every size of table and memory |
| `VmmProofs!TablesAreSound` | `[]TablesSound`: types, the tree, and why tables are lost |
| `VmmProofs!InitMaps` | `[]InitMapsExact` |
| `VmmProofs!TlbIsCoherent` | `[]TlbCoherent` |
| `VmmProofs!Implementation` | the refinement `ImplementsAddressSpace` |
| `ConsoleProofs!NoByteIsForgotten`, `PrintsAsTyped`, `ModifiersRelease` | `[]BytesKept`, `[]PrintsWhatWasTyped`, `[]NoStuckModifier` for any keys and size of buffer |
| `MachineProofs!TypeCorrect`, `LockIsExclusive`, `CountIsExact`, `BspWaitsForAll` | of Smp: types, `[]MutualExclusion`, `[]CountExact`, `[]AllCheckedIn` for any number of processors |
| `MachineProofs!InterruptsAreHandled` | `[]InterruptsHandled`, however often interrupts come |
| `MachineProofs!TimeIsKept` | `TimeKept` for all rates of the clocks, delays and sets of sleepers |
| `MachineProofs!ReadsExact` | `[]SectorsExact` for every address and count |
| `MachineProofs!TablesAreRead` | `[]TablesRead` for every firmware, MADTs of any length included |
| `MachineProofs!LinesAreRouted` | `LinesRouted` for every redirection table and list of overrides |
| `ConsoleProofs!CursorStaysNear` | `[]CursorNear` for every screen and size of glyphs |
| `ConsoleProofs!ConsoleShowsPage` | the refinement of `Page` for every screen of whole lines, which `ShowsPage` checks on the instance `C` of MCScreens |
| `TerminalProofs!SearchCorrect` | `SearchExact`: exact columns in every sorted table, reads inside every table, and a search that shrinks |
| `TerminalProofs!MemoryIsExact` | `[]MemoryExact` for all sizes of blocks, pool and margins, whatever fails |
| `TerminalProofs!InputIsExact` | `[]InputExact` for input of any length |
| `TerminalProofs!FlushIsExact` | `FlushExact` for every size of screen and any font: queue, picture, and the steps of `Screen` |
| `TerminalProofs!ColoursAreKept` | `ColoursKept` for any colour numbers and number of values |
| `TerminalProofs!SequencesAreExact` | `SequencesExact` for every size of screen, tab stop and text, and any number of steps |

**Bitmap.** `BitmapProofs` has the lemmas that the allocators rest on: a mask is a non-empty set
of bits; two masks are equal or disjoint; setting and clearing keep a map's type; a set marks
the whole mask, and a clear spares the bits outside its masks; what `find_first_free` and the
region check return, as the minimum of a set; that no search leaves the window; and what the
remainder of a sum is, which the counters' arithmetic needs.

**Pmm.** Assumptions: a word is two ints wide, the low memory is a whole number of
bitmap words (0x100000 bytes are 256 pages, four words), the totals do not overflow, the
bitmap covers the low memory and lies in the window. `NoDoubleAllocation` is not
inductive: the invariant adds that a held page's mask is wholly set as long as no alias
was freed (`HeldMarked`), that the low memory's masks are (`LowMarked`), and that during a
search no free run starts below the candidate (`Searched`). The last is what one
iteration of the loop preserves, and what `FirstFit` follows from. That the low pages
fill whole words is needed because freeing a page clears its alias too.

`CountersExact` follows step by step: a page that is not held becomes held, or one that
is becomes free, and the numbers are equal modulo 2^64. `OnlyUsableAllocated` adds that a
clear bit of the bitmap belongs to the mask of a usable page (`ClearedUsable`), that every
held page's mask does (`HeldUsable`), and, on maps with an unusable last page, that held
pages lie in the bitmap (`HeldTracked`), for the run that the search found stops before
the last page. `StaysInBitmap` follows from the same facts about the pages that a step
sets or clears.

**Heap.** The invariant says of each caller past the search that its region lies in the
window, is free until it is marked and is nobody's until it is returned, and of each
result that its blocks are marked, all as long as no interrupt hit a call; until then only the
running caller is in one (`OneAtATime`). After one, little but the types is left. The block
that the search stands at is free: the region check answers "free" and "block 0 is in
use" alike with 0, and this conjunct is why the second never happens. The bytes of two
results are disjoint because an address is a block number times BLOCK_SIZE and LONG_BYTES,
while a result that starts at a block spans fewer bytes than its blocks and LONG_BYTES
make up. `HeapBounded` adds that no run inside the bitmap starts below a searching
caller's candidate (`SearchedBelow`), and that the free count covers what a call in
progress is about to subtract from it (`CountCovers`).

**Scheduler.** `switch_to_task` ignores the task that was chosen. That it agrees with it
needs `WalkAtNext`: every linked task but the running one is READY, so that the walk
never goes beyond its first candidate. `OnlyTornCallsAreFatal` needs `RingClosed`: unless
an interrupt hit a call, only the running task is in one (`OneAdder`), and the linked tasks are
closed under the successor. `FullQuantum` adds that the ticks of the running task and what
is left of its slice make QUANTUM, and that a waiting task has a whole slice
(`SliceCounts`). For `RingIntact` the list is given a numbering:
`RingOrdered` says that some bijection of the linked tasks with 0 .. n - 1 starts at the
current task and is followed by the successor. `add_process` inserts a number and a switch
rotates the numbering. That the recursive function `Ring` follows the numbering is an
induction over Nat, done as a search for the least counterexample.

**Vmm.** `Tree(m, F, r, dep)` says that `dep` gives a level to each table that the root
reaches: present entries of inner tables lead one level down, no two lead to one table,
and every table but the root hangs in one; the free frames are apart. The invariant is
that there is such a tree as long as the tables can be trusted, of exactly the frames
taken for tables until `vmm_init` is done, and of some of them later (`vmm_unmap_page`
makes tables that no present entry leads to). `WalkStep` follows a walk down one level:
it stays on the path of its page, or has linked a table that was empty and so changed no
translation (`LinkNew`), or went wrong. `StoreLeaf` says what the final write does: two
pages whose index digits agree are equal (`DigitsApart`), so only one translation
changes. From this `Changes(v, new)` summarises every call, and the four theorems follow:
the flush names the one page; the abstract step changes one value; each iteration of
`vmm_init` maps its page over the earlier ones (`Mapped`, with the wrap of the kernel's
range in `KernelPage`); and a table whose place in the identity map is still its own is in
place. The assumptions: frames and ranges of numbers with the higher half behind the first
4 GB, the kernel's range behind the direct map and below the end of the address space;
and that later calls ask for no page of the identity map, and not for the root's place
in the direct map (`acpi_init`, the only later caller, asks for firmware tables in the
direct map). TLC evaluates them on the instance of the run.

**Ps2.** The driver lags behind the keyboard, so the invariant `QueueReplays` says what the
bytes under way will do: handling them in order from the driver's present modifiers
prints what each should print and ends in the modifiers of the keys that are down. The
witness is the sequence of the modifiers before and after each byte, so that no recursion
is needed.
`QuietBeforeUp` and `EarlyByteMissed` tell when an edge can be missing, and `OneShift` that
at most one Shift is down while nothing is blurred.

**Smp.** The invariant says who holds the lock (`LockHeld`), that the register of the
processor about to store equals `ap_done` (`RegisterFresh`), and that no processor moves
before the counter is set (`Quiet`, `Called`). `CountExact` is an equation with the
cardinality of the processors still to come, and needs the finite-set theorems.

**Boot.** `Placed` says what the boot has done at each place of `Program`: which tables are
loaded and which lines are open. `Held` says who has the lock of `kprint`: the boot or the
innermost handler, and either of them with interrupts off. That is why no handler finds it
held, in spite of the `sti` at the end of every `kprint`. `Served` describes the stack of
handlers: before the local APIC is enabled there is at most what a PIC sends into its open
window; later, every handler but the innermost is the keyboard's behind its end of
interrupt, and the in-service bits are those of the innermost that has not sent one. What is
followed ends with an interrupt that takes registers, which `stray` tells apart.

**Timer.** `Elapsed` is the time since `reset_apic_timer` as the local timer counts it,
`Measure` that since the last reset of the HPET. `Calibrating` bounds their difference at each
instruction of `apic_timer_init`: by a tick that had begun, and by one `DELAY` for each
instruction since. `Sleeping` says that a sleeper has slept at least as long as the HPET shows,
whoever set it back; a product that wraps shows less, never more. A sleeper that lost its
registers is in a state of its own, of which `Sleeping` says nothing. The assumption
`TimerNumbers` has the count not run out within the interval: 0xffffffff counts at the divider
of the reset are far more than 10 ms.

**Disk.** `TransferExact`: the drive's next sector follows the last that the caller has stored,
and there are no more to come than the caller waits for, unless an earlier call has spoiled
the drive.

**Acpi.** The walk stands at an entry (`Reached`): its pointer is the offset of some entry k, and
unless an entry has length 0 the arrays are what the entries before k fill (`Filled`). That
offsets rise, with the recursive function `Offset`, is proved as a search for the least
counterexample (`UpTo` of BitmapProofs). The arrays do not overlap up to a stride
(`PlacesApart`), and entries of one type come one behind the other because the number of
them below k grows by 1 at each. `AcpiNumbers` assumes numbers, and that a cut of the MADT is
inside its last entry. With more entries than there is memory behind the last array the
walk may leave it, so `FaultOnlyIf` has that case as well.

**IoApic.** The two invariants of `LinesRouted` need only the types and that the last entry is
known once `ioapic_init` is done. `OneOverride` is where the assumption on overrides comes in:
first and last override are the same one. `InitEntry` says what `ioapic_init` leaves in an
entry; `MaskChanges` does both directions of masking, for one line or for all.

**Width.** The invariant says that the part of the table that is left holds every
interval with the character (for sorted tables), that it lies in the table (for all),
and how each place of the search was reached: "found" means inside, and "missing" means
not. `HalfDropped` is the step: an interval that holds the character lies on the side of
the middle that is kept. That each turn leaves less is an action property, from which
the end of the search follows without fairness.

**Console.** `Resting` bounds the cursor between two characters, `Placed` at the moment a glyph
is drawn: settling (wrap, then scroll) leads from the one to the other, and the loops of
`ssfn_putc` stay within `Placed`'s bounds. A cursor that backspaces have taken up a line stands
at one place only, too far right for a glyph, so that the next character wraps and no
backspace goes further. `ConsoleNumbers` assumes what makes it so: glyphs advance by more
than their width, and the screen holds two lines.

That the console implements `Page` is a theorem under `WholeLines`: no wide glyph, no backspace,
and a height of whole lines (a page has no wide cells, is never edited, and has no cut line;
`CursorNear` is about those too). `PageInv` says that there are cells, a row and a column of
which the pixels are the picture (`At`): each cell has all pixels of its glyph. The mapping reads
these cells back from the pixels (`ReadIsShown`); then drawing a glyph changes the pixels of one
cell, and scrolling, which copies memory line by line, moves each cell up a row and leaves the
last row blank. `MCScreens` assumes `WholeLines` of the instance that it checks, so that TLC
evaluates the hypothesis.

**FbInit.** The blocks that a call has got are a prefix of the seven (`FbInitInv`), the pool
stands at what the finished terminals and that prefix need (`PoolGrows`), and a client
that frees holds its terminals' blocks and that prefix (`HeapGrows`). As long as nothing is
lost no sum has wrapped; the step that loses something is where `LostOnlyIf` needs that a
prefix takes no more than the whole.

**Parser.** The flags exclude each other (`FlagsInv`); `dec_private` is set exactly inside a
private sequence or after a cancelled one (`PrivateInv`); and the values so far are those
of the text so far (`ValuesInv`). What a byte more does to them needs the recursive function
`Number` on a text and on the text with a byte appended: `ReadingGoesOn`, the comparison of
two recursive functions place by place, is again a search for the least counterexample.
The values are compared modulo a word (`WORD`).

**FbTerm.** A buffer is in order (`InOrder`) if the map and the queue are inverse to each other:
each item is the item of its cell. So the queue has at most one item per cell, and fits
(`BuffersFit`, by the cardinality of the cells). `push_to_queue` keeps this and changes what one
cell shows, so that a loop of pushes, scrolling in one direction, reads cells that it has
not written yet; the lemma `Loop` turns a loop into the sequence of the buffers it goes through
(`History`), about which a statement on its k-th one is proved by the search for a least
counterexample. `FbInv` adds the picture: except at the old cursor every cell is drawn as the
grid says, and outside of a write nothing waits in the queue and the cursor is drawn. The
shortcut of `plot_char_fast` is right because the colours are compared first (`FastIsRight`). The
hypothesis `FbTermNumbers`, which `MCScreens` assumes, has positive sizes, a `Trans` that is no
colour, and a font that gives each character its pixels.

**Sgr.** The types, with those of the saved state (`SavedType`: the memory is zeroed, so that a
restore before any save brings colour 0). The rest is a case per value: `Asked` says which
colours the attributes ask for, and each case shows that the call paints these, given that the
colours before were the ones asked for. No fact about order is needed, since the palette is
swapped exactly when `reverse_video` changes.

**Term.** `TermInv`: the screen has its types, its region is the whole screen or has two rows,
scrolling is on, and the cursor is at most right of the last column and on a row of the screen,
or below a region that does not reach the bottom, where `LastRow` may take it to any row less
than the number of columns. The same holds of the saved cursor, which ESC 8 goes back to. Below
that stand lemmas on the calls of `Screen`, in three layers: one `raw_putchar` writes its cell
and steps on, in the row, to the next row, or, on the last one of the region, by a scroll unless
a sequence runs; a loop of n of them (`Blanks`) fills the n cells from the cursor on, if they
are in its row, or if they are on the screen and the region reaches down to its end; and loops
of `scroll` and `revscroll` change no row outside the region, while those of `move_character`
change only cells of their row, and the direction of the loop decides what they end as. Each
loop again is a `History`. From these come `EraseIsExact`, `ShiftIsExact` and `RegionIsHeld`,
one step per sequence. The conditions in `EraseExact`, `ShiftExact` and `RegionHolds` are those
that these proofs need: the code does otherwise without them. `TermNumbers` assumes a tab stop
of at least one column, a screen of at least one cell, and text and typed characters among the
characters.

**Only model-checked.** Liveness (`SearchEnds`, `MallocReturns`, `NoStarvation`,
`InitEnds`, `WaitsEnd`), which is out of the prover's reach: it needs `ENABLED`
and fairness. Every safety property that a passing run checks is a theorem. Three things limit
how the theorems are proved: there is no induction with an operator as parameter, so that facts
about a recursive function come from a search for a least counterexample (`UpTo`, `Loop`); the
refinement of `Page` holds on whole lines, as said above; and the three properties of the
violating runs are refuted by TLC and not stated.

## 5. Not modelled

- `new_cpu_local` and the GS base: one processor's straight-line initialisation.
- klibc's string and memory helpers: sequential functions of their arguments, without
  state, which unit tests reach.
- In the terminal: the callbacks to the client and `linux_private_parse`, which only calls
  one; the contents of the character tables; the built-in font, scaling and the blending
  of a canvas image, which are pixel arithmetic.
- In ssfn.h: the larger renderer, which is not compiled (only
  `SSFN_CONSOLEBITMAP_TRUECOLOR` is defined), and the coding of a glyph's fragments.
- drivers/terminal.c: commented out as a whole. The fonts: data.
- The contents of segments' limits and bases that long mode ignores.

## 6. What could follow

The components are modelled as far as section 5 says, and every safety property of the passing
runs is proved. Left are: an abstract page allocator that Pmm implements on maps of whole alias
classes; a composition of Parser, Term and Sgr, which now meet only in the sequences that
Parser completes; and the blending of a canvas image.
