# complementOS in TLA+

complementOS is a small x86-64 kernel in C: a boot sector, memory management,
start-up of several cores and a few drivers.  This directory holds TLA+ modules
translated from its source, TLC configurations that check them on small
instances, and proofs, checked by TLAPS, of what must hold for every instance.

In a module, a definition whose comment calls it a *mutant of* another is that
definition with a plausible bug in it.  It is used by no specification; it shows
that the property named for it in PROJECT.json fails when the code has the bug.

## The system

| component | source | state | operations | interacts with |
|---|---|---|---|---|
| first-fit allocator | `core/src/ffAllocator.c` | an address-ordered list of free blocks | add, alloc (plain, aligned, at an address), force, free | headers from the kernel heap; used by memory area, page tables, address spaces |
| buddy allocator, kernel heap | `core/src/buddyAllocator.c`, `kernelHeap.c` | a list of free blocks per order, headers in memory, `total_used` | init, alloc, free, each with or without a header | every kmalloc in the kernel |
| kernel memory area | `core/src/memArea.c` | a first-fit pool | init, alloc in three forms; nothing is freed | boot (stacks, heap), page tables |
| ticket lock, barrier | `core/src/smp.c`, `arch/x86/src/atomics.c` | two counters; a bit set | init, lock, unlock; wait | boot sequence, fault handler |
| virtual address space | `core/src/addrSpace.c` | a first-fit pool and the page tables | mem_map, mem_map_virt_addr, forced mappings | first-fit allocator, page tables |
| page tables | `arch/x86/src/mmu.c` | four levels of tables, a pool of tables | init, map | first-fit allocator |
| boot sequence | `arch/x86/src/init.c`, `core/src/init.c`, `bootloader.s`, `lapic.c`, `pit.c`, `stack.c` | core counters, stacks, `boot_spinlock` | start-up of the boot core and of the others | all of the above |
| static hooks | `core/src/staticHooks.c`, `linker.ld` | tables made by the linker | call the hooks of a point | boot sequence, drivers |
| ELF loader | `core/src/elfLoader.c` | none | load size, load | virtual address space |
| AHCI driver | `drivers/sata/` | controller registers, command lists and tables | init, read, write | kernel heap, virtual address space, PCI |
| screen | `drivers/vga/` | the characters, the cursor in two registers behind an index | clear, print, print a format | every other part; the fault handler |
| PCI | `drivers/pci/` | none | configuration read | ports |
| keyboard, mouse | `drivers/ps2Keyboard/`, `ps2Mouse/` | none | a table of scancode names; the mouse's code is commented out | – |
| interrupts, timer | `idt.c`, `isr.c`, `interrupts.s`, `decrementer.c` | handler table | install, dispatch | drivers |
| library | `libc/`, `core/src/kString.c` | none | conversions, sort, memory functions | screen |

What is hard in it:

* **Long histories.** Both allocators keep their free memory in structures whose
  every local decision (which neighbours to join, whether a header found in
  memory is a free block) relies on what all earlier calls left behind.  Right
  for them: no address is ever free and held at once, none is lost, adjacent
  free ranges are merged, a request is refused only for cause, and headers and
  sizes add up.
* **Clients' data next to the allocator's.** Headers of the buddy allocator lie
  in memory that clients hold, free twice, or get without a header.
* **Concurrency.** Several cores run the boot code; the ticket lock is all that
  keeps them apart.  Right for it: mutual exclusion, service in order, and
  progress, with counters that wrap.
* **Partial failure.** A list operation that finds no header, a mapping that
  runs out of tables half way, a mapping that fails after its range was taken.
* **Hardware that works by itself**, late or never: start-up of other cores; a
  disk controller whose registers change between two reads of the driver.
* **Shared devices**: the timer, and the screen's cursor, which is read and
  written in halves through one index register.

PROJECT.json lists the hazards one by one with their lines, and for each one the
properties that address it.

## The modules

| module | models | how |
|---|---|---|
| `RangeAllocator` | – | what any allocator of address ranges promises: donate, allocate, release |
| `FirstFit` | `ffAllocator.c` but for forced ranges | one step per call; the list is a sequence of `[start, size]`; `heap` counts the headers kmalloc can still supply |
| `FirstFitForce` | `firstfit_force_alloc` | extends `FirstFit` by one operation |
| `BuddyOrders` | the sizes of the orders | constants and assumptions the two modules below share |
| `BuddyBlocks` | what the buddy allocator does to blocks | a set of free blocks and a set of held ones |
| `Buddy` | `buddyAllocator.c`, `kernelHeap.c` | headers and list pointers in memory, one step per iteration of the split and merge loops |
| `QueueLock` | – | what a fair lock promises: a queue whose head may hold the lock |
| `SpinLock` | the lock of `smp.c` | one step per atomic access of each core |
| `AddressMap` | – | what an address space promises: pages asked for are mapped one by one, no other page changes |
| `PageTables` | `mmu_map_memory` of `mmu.c` | tables by their frames, one step per level of the walk |
| `AddrSpace` | `addrSpace.c` | the pool of virtual ranges (`FirstFitForce`) and the page tables together; a call is a step on the pool, the steps of the walk, and a step on the pool again |
| `Boot` | boot code, `lapic_start_aps`, the hooks | one step per instruction that touches what cores share, per IPI, and per call under the lock |
| `BlockDevice` | – | what a disk promises: a request moves its sectors in order and nothing else, and succeeds only when all are moved |
| `Ahci` | `ahci.c`, and the controller | one step per wait or poll of the driver; the controller and the drive take steps of their own |
| `KernelLoad` | `load_entire_kernel` of `init.c`, `elfLoader.c` | the client of the disk at boot; one step per program header |
| `Conversions` | `conversions.c` | numbers to sequences of characters, as operators |
| `Console` | `d_screen.c`, `page_fault_handler` | one step per access to the cursor's registers and per character |
| `MC*` | – | the arguments and sizes TLC uses |
| `SpinLockProofs`, `BuddyBlocksProofs`, `BuddyProofs`, `BootProofs`, `ConsoleProofs` | – | theorems about the module of that name, and their proofs |
| `FirstFitProofs` | – | theorems about `FirstFit` and `FirstFitForce` |
| `KernelLoadProofs` | – | theorems about `KernelLoad` and `Ahci` |
| `AddrSpaceProofs` | – | theorems about `PageTables` and `AddrSpace` |

Refinements: `FirstFit` and `BuddyBlocks` implement `RangeAllocator`, `Buddy`
implements `BuddyBlocks`, `SpinLock` implements `QueueLock`, the tables of
`AddrSpace` implement `AddressMap`, and `KernelLoad` with `Ahci` implements
`BlockDevice`.  `Boot` and `Console` use `QueueLock` where the code takes a ticket
lock, which is sound because `SpinLock` implements it.

### First fit

`pool` is the list; `firstfit_add_block`, `alloc_common` and their callers are
the actions `AddBlock`, `Free`, `Alloc`, `AllocAt` and `AllocAligned`, each of
them one step because callers are serialised: boot runs on one core or under
`boot_spinlock`.  Loops over the list are "the lowest index such that".
Addresses and sizes are numbers below `AddrMod` and their arithmetic wraps.
`held`, `managed` and `reply` are an observer's record: the addresses clients
hold, those ever given to the pool, and the last call with its answer.
`FreeAddrs` is the set of addresses in the list, which is what the properties
speak of.

Assumed of callers: they add ranges that no client holds, free what they hold or
(by mistake) something that is in part free, and name ranges that end inside the
address space.  What a wrapping range does is not modelled: no caller passes one.

`FirstFitForce` keeps a pool whose blocks are transformed one by one: `Kept`
gives what stays of each block that the code's loop visits.  It is checked with
the ranges the function supports (no free block before the range, which starts in
a free block or meets none); `AddrSpace` has the one range of the boot sequence
that may not be supported.  (A range that lies behind a free block it does not meet
is another such: the loop ends at that block, and the range stays free.)  A core
that finds no header for a split spins for ever; that is the state `Hung`.

### Buddy

`mem[a]` is the `buddy_block` at address `a`.  The alignment of the pool, which
`buddy_init` checks, makes addresses relative to its start equivalent to real
ones, so that flipping a bit of an address is adding or subtracting the size.
Clients write over everything behind the header of what they hold (and over the
header of headerless blocks) with data that may look like free blocks
(`ClientData`).  One restriction: the first word of a headerless block never
reads as the size its block could be merged at.  In the code the block could
then be merged while it is held; the only clients of headerless blocks are the
AHCI driver's command list and tables, whose first words are not such sizes.
Requests are small enough for size plus header to fit 32 bits, as all the kernel's
are: `buddy_alloc` would truncate a larger sum (line 82).
A block without a header goes back with a size that the client names
(`kfree_without_header`), which becomes the header: `KfreeWithoutHeader` is the return
with the size of the block.  With any other size, that of the request among them when it
is not the size of a block, `total_used` is reduced by that figure (line 185), and
`merge_blocks` would look for the buddy at the wrong address (line 137).  `Misfree` is
the first such return, up to that point; there the model ends (`misfreed`), as what
happens next depends on client data inside the block.  No code in the repository
returns a block without a header, and the sizes that AHCI asks for (1024, 256 and 4096,
`ahci.h` lines 13–15) are sizes of blocks.
`mem[Null]` exists because the code does write through a NULL list head
(`add_into_list`, line 128); page 0 is mapped, so it goes unnoticed.

The abstract `BuddyBlocks` knows neither lists nor headers.  That the concrete
module implements it says that whatever a header found in memory made the code
do was what the set of blocks allows: no merge of a block that is held, no block
handed out twice.

### Ticket lock

Each core runs `TakeTicket` (the fetch-and-add), then loads `now_serving`; the
load that finds its ticket is `Enter`, the others are stuttering; `Unlock`
increments.  `Width` is the number of values of a counter; the only assumption
is that it exceeds the number of cores.

### Page tables

`entry[t][s]` is where slot `s` of the table in frame `t` leads, or `Null` when it
is not present; `pool` is the set of free tables.  The code repeats its statements
for each level; the model has one step that goes down a level (`Descend`), with its
two alternatives (`AllocTable`, `NoTable`), and the code's `pml4`, `pdpt`, `pd`, `pt`
and `allocated_` flags become `at` and `got`, functions of the level.  The frames of
tables are known to `virt_to_phys`, because the pool lies in the first 4 MB, which
boot maps one to one; so the BAD_MEMORY exits are not reached and not modelled.  A
table that was never cleared holds `Rubbish`.

The error path frees tables that it leaves linked (`Corrupted`).  There the model
stops: such a table would be handed out again, cleared, and entered somewhere else,
while walks still lead through it.  `CorruptedOnlyByFailure` says that nothing but
this error path does it.  The flags of an entry are left out, the one for no
execution among them, which the code loses (`1 << 63` in a 32-bit flag word).

### Virtual address space

`virt` is the pool `virt_addr_space`, with all the operations of `FirstFitForce`,
and `job` is the function at work: `mem_map` and `mem_map_virt_addr` reserve a range
and go on to the walk, a forced call walks first and reserves when it returns, and
`Fail` gives back what `Reserve` took.  `Hang` is a forced call that has entered its
pages and finds no header in the pool: it spins in the allocator and does not return.
`promised`, `lost` and `spoiled` are an
observer's record of what clients were told, of pages that are reserved and nobody's,
and of pages where a failed call may have left entries; `misforced` is set when a
range is forced that the pool does not support, which breaks the pool.

`make_kernel_mappings` expects that nobody maps before it (line 140).  The hooks of a
point are called from the last to the first, though, and in the linked image that puts
`ahci_init` (a `mem_map_virt_addr`, `ahci.c` line 259) and `load_entire_kernel` (forced
segments) first.  `HooksBefore` says which it is: with it, clients call before the two
mappings too, but not between them, as they are calls of one hook.

Addresses are counted in units, and a page has two of them, because the pool of the
code ends one byte below the end of memory: its last block is no whole number of
pages.  One consequence is kept out of the model by a guard (`NoWrap`): the sum of
an aligned start and a size wraps (`ffAllocator.c` line 177), so a `mem_map` that
needs more than what its last block holds is granted a range that leaves memory.

### Boot

Every core runs the same code: `ap_start` (not the boot core), `call_main`,
`boot_main`; `pc[c]` says where it is.  `TEMP_STACK_BASE` and `CPU_INDEX` are added
to without a lock, so an addition is a read and a write between which other cores
run.  `boot_spinlock` is the queue of `QueueLock`, which is sound because `SpinLock`
implements it.  The memory area is a function from units of 1 MB to what they were
allocated for; searching a free one and taking it are two steps, which only the lock
keeps together.  The hooks of MMU_INIT_END are in the order of the linked image:
linker.ld sorts by file, and the Makefile puts `core` before `drivers`.

Two facts of the hardware are assumed.  A processor that waits misses at most the
first of its two start-up IPIs.  And while the boot core waits for 10 ms, a processor
that was started gets through `ap_start`, about ten instructions (`Settled`); the 1 ms
waits are waits for no tick at all (`Ticks`), and nothing is assumed of them.

### Disk and kernel load

The driver of `Ahci` is sequential: `pc` is where it waits.  The controller runs
beside it: CR and FR of a port follow ST and FRE (`Follow`), a command whose bit is
set in PxCI is carried out one sector at a time and its bit cleared (`Serve`,
`Transfer`, `Complete`), and at any time during a command there may be an error, after
which bit 30 of PxIS is set, the bit in PxCI stays, and the port stands still
(`TaskFileError`).  This is what the AHCI specification says of ports without native
queueing, as far as the driver depends on it.  The driver's polls of PxCI and PxIS are
two steps.  The sector count of the command has 16 bits and the one region of its
table 22 bits for bytes; both cut off what is larger, and the model does as well
(`Command`), which is why `BlockDevice` promises nothing beyond `PrdSectors`.

`load_entire_kernel` reads what the boot sector has not read and `elf_load` maps and
clears the segments.  Memory and disk are functions to numbers: a unit of the disk
holds its own position, so `KernelInPlace` sees every unit that is misplaced.  When a
unit that has to be cleared is not mapped, the core faults for good.

Where the code has no answer, the model has none: a request without any drive reads
the port's registers through a NULL pointer (`pc = "wild"`, a final state).

### Console

A character is printed in nine accesses: the cursor's high and low byte are selected
and read, the character is written (with the scrolling it may cause), and both are
selected and written.  Every access is a step, and cores interleave.  What boot code
prints takes turns, on one core or under `boot_spinlock`; a page fault may come at any
time and on any core, and its handler prints under a lock that only it takes.
`mixed` says that a fault was reported while somebody printed, or cut its own core's
text short.  What is on the screen then is not followed (`PrintMixed`): two texts
share the cursor, and what is said of the screen is said for texts that do not mix.
A core that faults in the handler itself would wait for its own lock; this is not
modelled, as nothing the handler does touches memory that is not mapped.

`VgaPrintf` is what a format and its arguments make, from the operators of
`Conversions`, which follow the C code to its division and remainder towards zero.
Not modelled there: `INT_MAX_CHARS_10`, a buffer one character short for a
negative number of ten digits, and the rounding of floats.  `%p` prints 32 bits.

## The runs

| run | bounds | question | result |
|---|---|---|---|
| `firstfit` | 5 addresses, sizes to 3, 2 headers, alignments 0, 2, 4 | order, coalescing, conservation of addresses and headers, justified refusals, refinement of `RangeAllocator` | holds |
| `firstfit_start_addr` | 6 addresses | is a free range granted when asked for by its start? | **no**: not when it ends where its block ends |
| `force` | 5 addresses, 4 headers | the same as `firstfit` for supported forced ranges | holds |
| `buddy` | 3 orders, sizes at every boundary, client data that looks like a free block | linked lists, merging, accounting, justified refusals, double frees, refinement of `BuddyBlocks` | holds |
| `addr_space` | 96 pages under 4 levels of tables, 3 tables to make, 3 headers, calls that cross each kind of table | with a kernel area that fits: promises kept, ranges accounted for, ranges given back, nothing free is mapped, no range forced that the pool does not support, no table lost or linked twice, refinement of `AddressMap` | holds, until a call fails after it got a table |
| `addr_space_kernel_area` | as `addr_space`, a longer kernel area, 6 headers | does `make_kernel_mappings` reserve what it maps? | **no**: not when the kernel area ends beyond the identity-mapped pages |
| `kernel_load` | 3 machines with up to 3 ports, 2 slots, 11 sectors, 9 files, 2 requests after the load | the main port ready, the kernel in place and mapped, refinement of `BlockDevice`, every request comes to an end | holds |
| `console` | 2 cores, 3 rows of 4 columns, texts that fill the screen twice; 8-bit integers and two decimal places for the conversions | screen and cursor as printed, numbers read back, every fault reported | holds |
| `boot` | 4 cores, an area with room for 4 stacks | first stacks apart, one core boots, the timer used by one, a stack for each core, all cores reach `core_entry` | holds |
| `boot_hooks` | the same | are there no tables in use when `make_kernel_mappings` is called, as it requires? | **no**: `ahci_init` is called before it |
| `boot_stacks` | the same | does a core's stack lie in its own area? | **no**: below it |
| `spinlock` | 4 cores, counters modulo 5 | mutual exclusion, ticket order, progress, refinement of `QueueLock` | holds |

Why the bounds are enough.

* First fit: a call looks at the two blocks around a range, or at the one that holds
  it.  In `firstfit`, two headers make two separate blocks at most, with every way for a
  range to lie between, across and within them in five addresses, and they are few
  enough to run out of them in a split and in a free.  `force` has headers for the three
  separate blocks that five addresses have room for.
* Buddy: with three orders a split follows a split and a merge follows a merge, and
  a list has a head, a middle and an end.  Of the five sizes, those of blocks can come
  back without a header as they were asked for, and 7 cannot.
* Address space: the calls share tables and cross each kind of table, and three tables
  are what one page may need, so that calls run out of them on every level; headers
  run out in splits and in the call that gives a range back.  `MaxLost` = 0: `mem_map`
  is called until a call has lost pages, which it does once per failure in the same
  way.
* Disk: two slots are one more than the driver uses at once; the files have each
  relation of what is loaded, what is in the file and what is in memory, and one
  sector more than a region holds.  Two requests after the load show what an error
  leaves behind.
* Console: the cursor needs both registers, and each text wraps and scrolls.  The
  conversions are checked for every integer of eight bits; `ConversionsReadBack` is
  asked in the states before the first print, as it is about no state.
* Lock and boot: four cores are what the Makefile configures, and counters modulo five
  are the narrowest the assumption allows, so they wrap within every few steps.

The proofs remove the bounds where there are some.

The four violated runs are the findings of PROJECT.json.  In
`addr_space_kernel_area` the kernel area starts below the end of the identity-mapped
pages and ends behind it, as in the code: linker.ld makes it 10 MB long, and 4 MB are
identity-mapped.  The second mapping then breaks the pool of ranges at boot, and what
clients are promised of ranges is lost.  `addr_space` has an area that fits and hooks in
the order that `make_kernel_mappings` expects, and shows that the pool, the tables and
the promises then agree; `MisforcedByArea` says that the pool is never broken there.  What
is left of the kernel as it is linked, with a broken pool and hooks that map first, is
proved and not run: *MapRefines* below, of the page tables.

**Fairness.**  In `boot`, weak fairness of each core: a core runs, and stops only
when it hangs.  In `spinlock`, weak fairness of `Enter` (a core that spins goes on
loading) and of `Unlock` (what a core does with the lock ends).  The first is what a
running core does, as `smp_lock` runs with nothing that could preempt it for good.
The second is assumed: a start-up routine or hook that fails stops its core for ever
with the lock held, by design.  In `kernel_load`, weak fairness of the driver, of the
controller and of the drive: each works as long as it has something to do, and an
error counts as an end.  `Returns` promises nothing after an error: the driver does not restart
the port and has no timeout, so the next request waits for ever.  In `console`, weak
fairness of each core's steps; printing at boot and faulting are left to chance.

## The proofs

`FirstFitProofs`, the first part.  *Safety*: the list is well-typed, ordered and coalesced, no
address is free and held, held and free together are what was given to the pool,
and headers balance.  The conjunction is inductive as it stands, once strengthened
by the range of the observer's variables.  The argument: three lemmas say what
replacing, removing and inserting a block does to a well-formed list and to the set
of its addresses; `Gap` and `Neighbours` derive, from the order of the list, that a
range which the code accepts between two neighbours meets no block at all;
`AddPreserves` and `GrantTakes` put these together for each branch of the code.
*Coalescing* and *HeaderBalance* state two of the parts by themselves.
*Refinement*: every step is a step of `RangeAllocator` or changes neither the free
nor the held addresses.  *Refusals*: a run of free addresses lies in one block, as blocks that
touch are merged (`RunInBlock`), and `alloc_common` would have split that block for any
request the run has room for and one address more (`RunSplits`); so a request is refused
only for want of a run, or of a header for the split.  Assumed: `FirstFitAssumption` (the
arguments are addresses, and the pool ends below the end of the address space).

The second part of `FirstFitProofs` is about forced ranges among the other calls.  The loop of
`firstfit_force_alloc` becomes a statement about what stays of each block (`Kept`), and
the list is those pieces put together; an induction on the length of the list says
that they are the free addresses without the range, in order and coalesced.
*ForcedConservation* and *ForcedRange* follow, and *ForcedHeaders*: headers may be lost,
never gained.  They hold under `UpperHalf`: the pool lies in the upper half of the
address space.  The hypothesis is needed, as the code compares sizes after a
subtraction that wraps (a block that ends far behind the range would be taken for one
that ends before it), and it is justified, as the only pool that ranges are forced
from is `virt_addr_space`, which starts at 0xFFFFFF8000000000.

The last part says what is left of a pool that a forced range has broken: its blocks may
overlap and their sizes may have wrapped, but each still begins where calls for whole
pages let a block begin, and one still ends where memory does (`Rough`).  So what is
granted begins at a page, whatever is asked for or forced.  `AddrSpaceProofs` needs it.

`SpinLockProofs`.  *Safety* needs more than mutual exclusion: the tickets of the
cores inside lie between `now_serving` and `next_ticket` in the circular order,
their number is that distance (*TicketOrder*), no two are equal, and who holds the lock
has the ticket that is served.  *Refinement*: the cores inside, ordered by the distance
of their tickets, are the abstract queue.

`BuddyBlocksProofs`.  *Safety*: splitting and merging exchange a block for its
halves, which cover the same addresses (`Halves`, `Exchange`), and taking and
giving move a block between the two sets.  *Refinement* as above.  *Alignment*: each
block starts at a multiple of its size, as half of a multiple of twice the size does
(`HalvesAligned`).  Assumed: each size is twice the one before.

`BuddyProofs`, for any number of orders, any requests and anything that clients may
write (`ClientData`).  The invariant, `BuddyInv`, holds in the middle of the loops too,
and none of its parts is inductive alone, because the code trusts headers that lie
wherever a block once started:

* `Lists`: each list is linked both ways, within the pool, and the header of each node
  has the order of its list and is not in use.  A list is what its links lead to, in as
  many steps as the pool has units; that it is closed, and so ends within them, follows
  from the links back, as a list with a loop would have a node with two predecessors
  (`NodesNext`).  `NodesKept`, `NodesPushed` and `NodesRemoved` then say what the code's
  writes do to a list.
* `Tiling`: the blocks of the lists, the block being merged and the held blocks do not
  overlap, cover the pool, and start at multiples of their sizes.  It is kept because each step
  is one of `BuddyBlocks`, whose theorems are cited; and it is needed, as only blocks
  that do not overlap keep what clients write away from the headers of the lists.
* `Headers`: where a held block starts, memory never looks like a free block, so that
  the code joins with its buddy just when the buddy is in the list (`BuddyHeader`).
  This rests on alignment: where the buddy of a block would be, a block of the same or
  a smaller order starts (`BlockAtBuddy`).
* `Freed`, which makes a second free harmless, and `JobInv`, of the call under way.

*Linkage* and *DoubleFree* state parts of it, and *Refinement* that each step is one of
`BuddyBlocks`.  Three more invariants are proved on top of it.  *Merging* needs what
holds inside a call (`Merged`): two halves are in one list only during a split, and then
the next step takes one of them.  *Accounting*: `total_used` changes by as much as the
free addresses (`Counted`), as long as blocks without headers come back with their own
size; after the first that does not, the free space is off by just what the client named.  *Refusal*: after a refusal the lists from the wanted order on are empty
(`Refused`); if there were an aligned free run all the same, the smallest block in it
would have its buddy in the run too, whole because no block there is smaller, and by
*Merging* that cannot be (`NoFreeRun`).  Assumed: `BlocksAssumption` and `BuddyAssumption`: each size
is twice the one before, a header fits into the smallest block, and the pool's size
fits the type that `size_to_order` takes.

`BootProofs`, for any number of cores.  The invariant says that while the boot core
is alone (until it has incremented CPU_INDEX and initialised the lock) nobody else
runs; that CPU_INDEX is then never 0 again, although an unlocked addition of another
core may lose increments; that a core inside a locked section is first in the queue;
and that no processor behind `target` has been started.  *OneBootCore* and
*TimerExclusive* follow.  *StacksOwn* adds that one processor at a time is in
`ap_start`, `target` or, while the boot core waits, the one before it, and that
TEMP_STACK_BASE is beyond every stack in use when it reads it back.  It rests on the
assumption that a processor gets through `ap_start` in 10 ms.  *StackForEach* adds, of
the memory area, that every unit which is taken is the heap's, the tables' or that of a
core that is done (`Areas`), and that what a core has found is still free when it takes
it.  It assumes an area of three units and one for each core, which the run has for its four,
and the code too (10 MB, in units of 1 MB); with less, the search finds nothing, and the
core goes on without a stack.

`KernelLoadProofs`, for any machine, disk, file and requests.  *MainPortSafety*:
the ports which the loop of `init_ports` has passed are started and own memory, the
main port is the first drive among them, and nothing is issued before the loop ends.
*Refinement*: the slot which the drive works on is the one the driver polls, and its
command is what was requested; after an error no bit of PxCI is cleared any more and
PxIS tells of it; and when the bit is clear, everything has been moved.  The last
three make the two polls, in whatever order they see the registers, an answer that
`BlockDevice` allows.  *Mapped*: the headers `elf_load` has passed have their pages
mapped (`HeadersMapped`), and a quotient says which pages those are.  *Placed* needs to
know what memory holds at every moment (`FromDisk`): what boot has loaded, then as many
of the sectors asked for as the drive has moved, by the refinement's invariant, and at
the end the zeros of the headers that have been passed.  Assumed of the files
(`ImagesAssumption`), as `elf_load` checks none of it: the segments fit into memory, and
where one of them is cleared no other has data.

`ConsoleProofs`, for any number of cores, any screen and any texts.  *OnScreen* needs to know,
at each of the nine accesses, what the index and the two registers have to do with what the core
has read (`StepInv`): between the two writes the registers hold half of the old cursor and half of the
new one, and only the printing core's own offset is right.  That nobody else
selects a register meanwhile is what `mixed` says.  Assumed: the two registers can hold
every position on the screen.

`AddrSpaceProofs`, for any memory and any tree of tables that boot
may leave (`BootTablesAssumption`).

* The tables, for any callers of `mmu_map_memory` (`MmuSpec`) that ask for no page behind
  the mirror: *Tables*, *Corruption* and *WalksRefine*.  `TreeIn` says that each linked
  table is on one level only and linked in one slot only, but for the slot of the PML4
  through which boot has linked the PDPT a second time (`Mirror`).  In a tree, writing one slot changes the walk of a page only
  if its walk goes through that slot, and two pages that do not differ in an index are
  the same page.  So linking a new table changes no walk, as it is cleared first, and
  entering a page changes the walk of that page alone.  `MmuInv` adds, of the call
  under way, that the tables it holds are those of the walk of the page it is at and
  none of them is free.  The call can fail with a table freed that is linked, and then
  `Corrupted` holds and nothing is claimed any more.
* The address space, for any number of headers, any kernel area and any calls:
  *MapRefines*, *ForcedWithin*, *Promises*, *Ranges*, *Rollback* and *FreePages*.  `MapInv`
  is what the tables need of the pool, which also a broken pool keeps (`Shaped`, the
  `Rough` of `FirstFitProofs`): its blocks begin at pages of the kernel's part, so
  that each call is for whole pages of its own (`JobInv`).  `SpaceInv` adds, as long as
  the pool is not broken, what makes the pool, the tables and the promises fit between
  the steps of a call.  `PoolPart`: the pool is in order, and what the call will do to
  it when it ends can be done, a range that will be given back being still taken, and
  with a header or a neighbour to go to.  `PromisePart`: the pages of the call
  under way are promised to nobody; what the walk has passed is entered.  *Ranges* and
  *Promises* are parts of it that are not inductive without the others.  `BootPart`: once
  the first kernel mapping has been made, all that the others will cover is taken.
  For the steps on the pool the proofs cite the lemmas of `FirstFitProofs`, whose
  pool is another instance of the same definitions (`SameAllocate` and its like say so).

The theorems about the address space assume of the machine `CallsOwn`, which the code
justifies in each part.  The kernel's part is at most the upper half of memory (it is
the last 512 GB).  No page asked for is reached through the mirror, which is the first
slot of the PML4, while the kernel's part is reached through the last.  And
`make_kernel_mappings` makes some mappings.  None says where the kernel area ends or which
hook comes first.

* *MapRefines* holds with no exception: whatever ranges the pool grants, broken or not,
  what is asked of the page tables is for pages of their own, and `MapInv` needs no more.
* *Promises*, *Ranges*, *Rollback* and *FreePages* say that their property holds as long
  as `misforced` is not set.  They cannot say more of the code as it is linked, since the
  second kernel mapping breaks the pool and the properties with it (`LazilyAllocated`
  fails at that step).
* *ForcedWithin* says when that can happen: only when one of the kernel's mappings reaches
  beyond the first, or a hook maps before them.  Otherwise the first mapping takes the
  front of the pool, which nothing gives back before the second (`BootPart`), and
  clients' forced ranges are those that `Supported` admits.  With it, the
  four theorems hold without exception for a kernel area that fits and hooks in
  the expected order.  It assumes `StartsFirst`: the first mapping starts where the
  kernel's part does (line 149).
* *FreePages* also assumes `BootMapsFirst`: of the kernel's part the boot sector maps the
  identity-mapped pages only (`paging.s` fills two tables, 1024 entries,
  IDENTITY_MAPPED_PAGES).

`MCAddrSpace` has TLC evaluate these hypotheses for the constants of both of its runs.  The
theorems about the tables alone (*Tables*, *Corruption*, *WalksRefine*) need none of them.

Only model-checked:

* liveness (`Progress`, `AllEnter`, `Returns`, `FaultsReported`), which the prover cannot
  treat;
* what the screen shows (`ScreenShowsLog`): it compares the screen with a fold over all
  that was printed, and the numbers read back from their texts
  (`ConversionsReadBack`) with powers of the base; both are inductions over data.

## Not modelled

* The barrier of `smp.c`: it has no caller, so which cores it would wait for is not
  known.  So it is with `mmu_init_context`, `print_at` with a position, some atomic
  operations, and the sorts of `array.c`, whose `swap` copies through NULL.
* Keyboard and mouse: `d_keyboard.c` is a table that turns scancodes into names, and the
  code of `d_mouse.c` is commented out.
* PCI configuration reads, the interrupt tables and their dispatch, the boot sector and
  the mode switches: register access and straight-line code without a choice to
  check.
* `elf_load` of a program that is not the kernel, which has no caller.
* The scheduler, whose files are empty, and the tests.
* What follows once the code is wrong: a pool of tables that was corrupted, a heap to
  which a block was returned with the wrong size, a request without a drive, texts that mixed on the screen, a range that leaves memory.  The models stop there or
  guard against it, as said above.
