# CometOS: TLA+ models, checks and proofs

CometOS is a small i386 kernel. It boots through multiboot, sets up interrupts,
paging and a heap, installs a timer and a keyboard handler, mounts an initial
ram disk, prints the time of day, and idles; everything that happens afterwards
happens in interrupt handlers. This directory holds models of the parts of the
kernel that carry its logic, the TLC configurations that check them on small
instances, and proofs, checked by TLAPS, of the results that matter most.

Paths below are relative to `src/kernel`.

## Inventory

| component | state | operations | used by |
|---|---|---|---|
| liballoc (`arch/i386/mem/liballoc.c`) | boundary tags, `l_freePages`, `l_completePages`, the lock | `malloc`, `calloc`, `realloc`, `free` | `kmalloc` and its relatives in `paging.c`; the keyboard handler; the file systems |
| kernel heap (`mem/heap.c`) | bitmap of page indices | `heap_alloc`, `heap_free`, `heap_lock`, `heap_unlock` | liballoc's hooks in `paging.c`; the keyboard handler directly |
| paging (`mem/paging.c`) | frame bitmap, page directory and tables | `frame_alloc`, `frame_free`, `page_map`, `page_unmap`, `page_physaddr` | the kernel heap |
| boot (`kernel.c`, `paging_initialize`) | `kernel_pointer`, the layout of the first structures | `multiboot_print`, `bitmap_create`, `heap_create`, `directory_create`, `table_create` | runs once, before everything else |
| bitmaps, arrays, trees (`kernel/array.c`) | | `bitmap_entrie_find`, `bitmap_entrie_set`, `bitmap_map`; the rest has no caller | kernel heap, frames |
| interrupt delivery (`irq/*`, `pic.c`) | handler tables, the controllers' request and in-service bits, the interrupt flag | entry and exit, `isr_handler`, `irq_handler`, ends of interrupt | every handler |
| timer (`pit.c`) | `timer_ticks` | `pit_handler`, `sleep` | the floppy driver |
| keyboard (`kernel/kb.c`) | two buffers and their counters, shift and caps flags, lights | `keyboard_handler` | |
| CMOS clock (`time.c`) | `second` ... `year` | `read_rtc`, `time_get` | `kernel_main` |
| terminal and log (`kernel/ui`) | cursor, colour, screen | `terminal_putchar`, `printf`, `log_print` | everybody |
| floppy and DMA (`fdc.c`, `dma.c`) | motor, current cylinder, interrupt flag | reset, calibrate, seek, read | nobody in this build (`FLOPPY` is not defined) |
| file systems (`kernel/fs`) | node tables | VFS dispatch, initrd and ext2 reads | `kernel_main` |
| task switch (`task/`) | saved registers | | nobody |
| C library (`src/libc`) | `strtok`'s position | strings, memory, `printf` | everybody |

**Interaction.** There is one processor and one thread of control, `kernel_main`,
which interrupts suspend. The only mutual exclusion is the interrupt flag:
`liballoc_lock` is `cli`, `liballoc_unlock` is `sti`, and the gates turn the flag
off on entry. liballoc gets its pages from the kernel heap, which takes indices
from its bitmap and frames from the frame bitmap. The keyboard handler calls
`heap_alloc` (key 2) and `kmalloc` (key 3) and reads an unmapped address (key 1).

**What is hard.** Blocks that split and melt in any order; `realloc`, which is
three separately locked sections; page indices that count down while pages count
up; unsigned loops that end by wrapping around; handlers that turn interrupts on
before they have acknowledged theirs; spurious interrupts; the gap between the
test of `sleep` and its `hlt`; the clock that ticks between two register reads;
a floppy controller that must be asked for exactly as many bytes as it has, and
whose interrupts all look the same; structures laid out at boot with a fraction of
the room they use; a cursor that `kernel_main` and the keyboard handler share
without a lock; directory entries and blocks that a walk can run past.
PROJECT.json lists each of these under "hazards", at the line where it bites.

## Plan

Done so far: `Allocator`, `Liballoc`, `KernelHeap`, `Interrupts`, `Rtc`, `Keyboard`,
`Floppy`, the file systems (`Initrd`), the terminal and the two formatters
(`Terminal`, `Printf`) and their composition with the keyboard (`Console`), and the
layout of memory at boot (`Boot`), with proofs of the safety properties of all of
them.

What could come next is `KernelMalloc`: Liballoc over KernelHeap in place of the
contract of liballoc.h, to follow the heap's defects up to `malloc`'s callers.

## Modules

### Allocator and Liballoc

`Allocator` says what callers may rely on: a map `live` from addresses to sizes,
to which a block is added only where it overlaps no other, and from which blocks
are removed one by one. `Liballoc` is liballoc.c. `tag` holds the boundary tags
by address, with the fields of `struct boundary_tag` (the magic number is left
out: callers free only what they own); `runs` the page runs obtained through
`liballoc_alloc`, whose contract in liballoc.h is the model of the page provider;
`pc`, `cur` and `req` the locked section that runs; `client` what each context
has kept from one locked section of `calloc` or `realloc` to the next. One action
per turn of a loop: `SearchNext` and `SearchTake` or `NewTag` for `malloc`'s
search, `CarveSplit` or `CarveWhole` for the split, `MeltLeft`, `MeltRight`,
`PutBack` and `Release` for `free`. Contexts interleave between locked sections
and not inside them; that this is what the interrupt flag gives is the subject of
`Interrupts`.

### KernelHeap

Pages and frames are counted instead of addressed. Index k of the heap is page
`StartPage - k`. Each turn of the mapping loop of `heap_alloc` and of the
unmapping loop of `heap_free` is a step. Addresses wrap around at `AddrPages`,
which stands for 2^20 pages: `heap_free`'s loop only ends because of that. In the
real system `heap->start` is `mem_upper`, a number of kilobytes used as an
address, which is below 4 MB: the heap lies in the first page table, mapped one
to one at boot. The bitmap is far longer than the heap has pages, so the address
comparison of `heap_alloc` is what stops it, as `KernelHeapAssumption` says.
The bitmaps themselves are taken to be apart. `bitmap_create` reserves too little
for that; `Boot` shows that the parts of them that are used stay apart as long as
the frames in use do not reach the heap structure.

### Boot

`paging_initialize`, with the real sizes and addresses in bytes. `machine` is what
the boot loader reports (`mem_upper`, the size of the image) and the linker script
sets (`end_kernel`). `memory` holds the bytes of the structures, and of the entries
of the two bitmaps those that lie in a structure or were marked, so that a store
to an entry that lies in the heap structure changes the heap structure, and
`frame_find` passes over entries whose bytes are not zero because a structure is
there. The actions are the steps of the boot in the code's order, and then
`heap_alloc` of one page. `wrote` is what the last step wrote to, entries far
outside of what was reserved included. Once the heap structure is no longer what
`heap_create` stored, or a page of the kernel was handed out, nothing the kernel
does can be followed (`Astray`). `BootAssumption` bounds what a machine can
be: between one megabyte above the first one and 4 GB, whole pages of image, and
structures below 2 GB. `RoomAssumption` says that there are as many frames as the
boot and `MaxHeapPages` pages take (`FramesNeeded`), and that the entries of the
frame bitmap for them, which run over the heap structure and its bitmap structure,
do not get as far as the entries of the heap's bitmap, of which `memory` knows only
which ones were marked.

### Terminal, Printf and Console

`Terminal` has the functions of tty.c as operators on a record: position, screen,
the place the cursor was sent to, and whether a character was written outside the
screen. Columns wrap around at `SIZE_RANGE`, which stands for 2^32. `Printf` has
`printf` of the C library and `vasprintf` of log.c as functions from a format and
its arguments to a sequence of characters. `Console` extends both and `Keyboard`:
`kernel_main` prints a text character by character, each `terminal_putchar` in up
to five steps, one per access to `terminal_column` and `terminal_row`; the
keyboard handler comes in between two of them and prints what the key prints
before `kernel_main` goes on. That is one character for most keys. The keys 2 and
3 allocate and print `Addr:%x` and a newline instead (kb.c:126-139), and before
that `heap_alloc` prints `-- NO FREE MEMORY --` on a line of its own when it finds
no page; `KeyText` says what the texts of keys are, `Echoes` is the set of those
that are tried, and `echo` holds the characters of a text that are still to be
printed. The line of key 3 is printed with interrupts on, since `kmalloc` has
unlocked; no further key comes in then, because the keyboard's interrupt is in
service (`ServiceExact`). Whether the compiled code uses a position it read before
the interrupt or reads it again is left open, in `terminal_newline` separately for
the test of `terminal_row` and for its increment. `paper` is a history variable:
everything printed up to the first key inside a `terminal_putchar`, on a sheet of
unlimited length, where no row is ever scrolled away; `ScreenRight` compares the
screen with its end. `ConsoleAssumption` holds for the texts of the kernel: they
are not empty, contain no return and no backspace, and the banner ends with a
newline; what a key prints holds no return and no backspace after its first
character; and fewer keys come than would take backspaces once around `size_t`.
`DirectiveAssumption` says what a call of `printf` consists of: plain characters;
`%%`; a conversion that `printf` knows, with any length modifier it knows with it,
and an argument of its kind; or a conversion that it does not know, whose letter
does not read as part of a modifier. `PrintfAssumption` asks for a word that holds
more than one digit, and that one of 9, 99, 999, ..., wrapped around, is the
largest word: with 2^k words that is the k-th, and without it the loop of
`print_dec` would not end.

### Initrd

`Image` maps addresses to the structures that ext2.c reads there; block and inode
numbers become addresses by the code's own arithmetic. `call` holds arguments and
local variables of the call that runs. Each turn of a loop is a step: `FindNext`,
`FindMatch` and `FindEnd` for a name, `CountEntry`, `CountBlock` and `CountDone`
for an index, `ReadBlock` and `ReadLast` for the bytes of a file. A byte of a
buffer is the address it was copied from. A node comes out of `kmalloc` with
whatever was there (`Garbage`), and its flag is or-ed in. `strcmp`, `strlen`
and `strcpy` are what they really do: `strcmp` returns 0 for names of equal length
that differ, `strcpy` leaves the terminator out. `Layout`, `Listing` and `Stat`
say independently of the code what was put into the image; the properties compare
with them. `ImageAssumption` ties the two together: that the image is an ext2
image of these contents, with `Starts` for the offsets of the entries in a
directory. It says what the code relies on without testing it: one block group,
blocks as large as the part in front of the superblock, no holes, no link kept in
its inode, and directories that are full of entries.

### Interrupts

`stack` holds `kernel_main` and the handlers nested above it, each with its
position. Hardware is modelled by what the code relies on: `irr` and `isr` of the
two controllers in fully nested mode, the cascade on line 2, unspecific ends of
interrupt, spurious requests, a keyboard controller that raises its line when its
buffer fills and not again until the byte is read. The gates clear the interrupt
flag, `iret` restores the flag that was found on. `sleep` is three steps: test,
about to halt, halted. `left` is how far `timer_ticks` is still below the `eticks`
that `sleep` computed: the code compares the two, `pit_handler` increments the
one, and so the difference shrinks by one with each tick. That is exact while
neither overflows, which takes 248 days. The counter itself is in no module.

### Rtc

`t` is the time of day the clock keeps, `uip` its update-in-progress flag, and
`registerB` its mode. `read_rtc` waits, reads one register per step, keeps the
values, does the same again, and compares. On the path that returns, the code's
own variable `registerB` was never assigned; the conversion then uses any of its
possible settings. `century` is also uninitialized, but compared only with its
own copy. `Consistent` and `ConversionRight` are about calls of at most 59 minutes
(`Brief`): a longer interruption between the readings can bring the minutes round
to the same value in another hour.

### Keyboard

One action per kind of byte: a make code (`Press`), a break code (`Break`), 0xE0
or 0xE1 in front of the code of some keys (`Prefix`), a shift code behind 0xE0
(`FakeShift`), an answer to a command for the lights (`Ack`). Keyboards send the
fourth kind around Print Screen and, with Num Lock on, around the keys of the
cursor, though no shift key moves. The handler treats each byte by itself: it
takes 0xE0 for a break code of no key and then the shift code for that of a shift
key (kb.c:98-100), so that Print Screen turns `kb_shift_flag` on. `prefix` and
`pretended` belong to the keyboard and say which byte may come and whether a
pretended shift was taken back. `ShiftHeld` is what remains true: the flag is on
only while a shift key is down or a pretended make code has not been taken back.
`wrote` and `wrote_raw` are the positions the handler last wrote to; what the
buffers hold is never read. Key 1 stops the machine and is in `Interrupts` only.
Left out are what the keyboard reports of itself (the result of its self-test,
0xAA, which turns the flag off like the break code of a shift key; overrun; echo)
and bytes that get lost on the way, a lost break code of a shift key included.

### Floppy

`todo` is the list of calls the driver still has to make; a loop puts its body in
front again, so that `floppy_reset`, `floppy_calibrate`, `floppy_seek` and
`floppy_read_sector_imp` read as the sequences they are. A command goes out in
one step, results are fetched byte by byte, and `floppy_wait_irq` is two steps,
between which `floppy_irq` may come. `dor`, `exec`, `results`, `senses` and `irq`
are the controller as the driver sees it: it drops what is sent while it is busy
or has results left, misses tracks and fails to read when it likes, answers a
request for a status it does not have with one byte instead of two, and
interrupts only while the gate in the DOR is open. `dma` holds the registers of
channel 2 as the writes of dma.c leave them, in halves, with the flip-flop. The
driver is compiled, but `FLOPPY`, under which `kernel_main` calls it, is not
defined.

## Runs

| run | checks | distinct question |
|---|---|---|
| `liballoc` | `IInv`, `FreeReachable`, `CompleteExact`, `ReleaseExact`, `LiveApart`, `LockReleased` | are the allocator's structures consistent after any sequence of calls? |
| `liballoc_contexts` | `CopyInBounds`, `Implements`, `CallsReturn` | do interleaved callers see an allocator? |
| `liballoc_realloc` | `FailedReallocKeepsBlock`, violated | does a failed `realloc` keep the block? |
| `kernel_heap` | `HeapOK`, `OwnFrames`, `Returns` | is the index bitmap what callers own, and has every page its own frame? |
| `kernel_heap_pages` | `PagesApart`, violated | is a page handed out once? |
| `interrupts` | `AllocExclusive`, `ServiceExact`, `FaultHalts`, `SleepEnds`, `KeysRead` | is the flag a lock, are ends of interrupt exact, do sleepers wake and keys arrive, and does an exception stop the machine? |
| `rtc` | `TypeOK`, `Consistent`, `ConversionRight`, `ReturnsUnlessTick` | is what `read_rtc` accepts a time the clock showed? |
| `rtc_returns` | `Returns`, violated | does it return although the clock ticks? |
| `floppy` | `InStep`, `RightSector`, `MotorStops`, `Returns` | do driver and controller stay in step, and is the right sector read? |
| `boot` | `ImageKept`, `HeapKept`, `FramesApart`, `MappingsRight` | what do the structures that lie in one another spoil, and what not? |
| `console` | `TypeOK` (of Keyboard), `ShiftHeld`, `TextRight`, `Recovers`, `ScreenRight` | are texts and screen right, what does a key in the middle of a character do, and how far do the keyboard's counters get? |
| `initrd` | `ReadRight`, `LookupRight`, `ListedRight`, `Returns` | are names found, entries listed and bytes read as the image has them? |

Several of these are conjunctions of named parts: `IInv` of all that the proofs of
liballoc need (`TypeOK`, `SplitChain`, `BlocksInRuns`, `ListsLinked`,
`ListedBySize`, `Coalesced`, `NoLeak` and others), `HeapOK` of `TypeOK`, `BitmapExact` and
`IndicesApart`, `ServiceExact` of `TypeOK`, `NoReentry` and `InServiceExact`, `InStep` of
`TypeOK`, `CommandsTaken` and `NoStaleInterrupt`, `FramesApart` of `FramesDistinct` and of
the distance to the entries of the heap's bitmap, `MappingsRight` of `TypeOK`,
`TablesReachable` and `KernelMapped`, `TextRight` of `PrintfRight` and
`LogNumbers`, `ReadRight` of `BytesRight` and `BufferKept`, `LookupRight` of
`TypeOK`, `FoundEntry`, `NeverMissed` and `OnlyDirectories`.

Each violated property states what a comment of the repository says; the findings
in PROJECT.json quote it. `OwnFrames` is about the time before the first
`heap_free` and while there are frames: the loop of `heap_free` goes on below the
run until the address wraps around and unmaps the pages of other runs on its way.

Further disagreements between the code and what it says were met while modelling.
The models follow the code, and the properties leave these cases out:

- `frame_alloc` computes its address from an index of -1 when the frames are used
  up, 0xfffff000, and `paging.c` maps that instead of reporting the failure;
- `heap_unlock` turns interrupts on unconditionally, while liballoc.h:41-42 has
  it undo what the lock did; inside a handler this lets others nest, and
  `AllocExclusive` and `ServiceExact` show that it does no harm;
- `read_rtc` makes 12 of the hour 0 and 0 of the hour 12 of a 12-hour clock, and
  converts with an uninitialised `registerB`;
- the light of caps lock is turned on and never off, and the character buffer is
  written one past its nominal end before its counter is reset;
- `floppy_read` ignores the status of the read and the refusal of a buffer by
  `floppy_dma_initialize`, leaves the motor on after a failed seek, and never sets
  the page register, so that only the lower half of the buffer's address reaches
  the DMA controller;
- `heap_free` (heap.c:106) unmaps every page from the first one of its run down to
  address 0, runs that others own included;
- interrupts are on from kernel.c:54, and the keyboard's handler is installed at
  66: a key in between leaves its byte in the controller, which then never raises
  its line again, and all later keys are lost. `KeysRead` assumes that no key
  comes then (`KeysInBoot = FALSE`); with `TRUE` TLC refutes it;
- `bitmap_create` reserves a 128th of the bytes its bitmap uses, and `heap_create`
  the size of a pointer for its structure. With 1 GB of memory, as qemu.sh starts
  the kernel, the heap's pointer to its bitmap lies exactly on the bitmap's
  pointer to its entries, and works although the first two indices look used.
  With 512 MB the two structures overwrite each other (`Mangled`), and with less
  than about 140 MB marking the kernel's frames overwrites the heap structure
  during the boot. `HeapKept` leaves these cases out;
- the heap starts at `mem_upper`, a number of kilobytes, and grows down: through
  the VGA memory, whose page the handed out page then hides, and with more than
  1 GB through the kernel (`KernelMapped` asks for less). The test against
  `MAX_MEM` compares kilobytes with bytes and never holds;
- every page table made before paging is on maps the first 4 MB, so that tables
  that lie above are out of `page_map`'s reach: `TablesReachable` asks only for
  those below;
- `ext2_read` copies every block to the beginning of the buffer: the self-test of
  initrd.c:54-68 prints as the contents of a file what its last block left there.
  `ReadRight` is about reads inside one block; `BufferKept` is about all;
- `vfs_readdir` with an index past the first block of a directory never returns,
  names of equal length are not told apart, and a name that fills the node's field
  is refused; `Returns` and `LookupRight` say so;
- `print_dec` puts zeros in front of numbers above 1410065407, since its
  comparison value wraps around before it is larger;
- a key echoed inside `terminal_putchar` can push the column over the edge of the
  screen, where the test for equality misses it until the next newline
  (`Recovers`). A key that prints a newline in the same place (Enter, 2 or 3) can push
  the row below the screen, for good, when the row is compared before it and
  incremented after it. `Recovers` says so by its premise `OneCharInside`, and the
  console run has these keys between two `terminal_putchar` but not inside one
  (`EchoesInside`): with `Addr:%x` in `EchoesInside` and without the premise TLC refutes
  `Recovers`;
- Print Screen turns the shift flag on with no shift key held down, until its second
  half or its release turns it off (`ShiftHeld`);
- printf of the C library prints what lies at address 0 for a NULL argument of `%s`, while
  `vasprintf` prints `(null)`; `DirectiveAssumption` hands `printf` no NULL, which the
  kernel does not do either.

Hazards left without a property, beyond those of PROJECT.json: a second free of
the same pointer and requests near 4 GB (liballoc.c:415, 251, 503), `calloc`
clearing address NULL (507), `timer_ticks` after 248 days (pit.c:23), the three
calls of `time_get` between which the clock ticks (kernel.c:71), the keyboard's
buffers that are never allocated (kb.c:41), and the 1024 bytes that `vasprintf`
fills without a limit (log.c:138).

**Bounds.** `MCLiballoc`: the sizes of pages and header of the code, requests
chosen around the limits of a page and of the size classes, three pages and at
most four owned blocks, so that runs of one and of two pages, splits into three
blocks, melts on both sides, lists of length two and releases all happen; two
contexts suffice for every pair of interleaved sections. `MCKernelHeap`: three to
six heap pages and runs of up to three, so that the heap is exhausted, freed runs
are reused and the indices go round; the address space is only as large as the
assumptions need. `MCInterrupts`: a line of each controller, both spurious lines
and five contexts: `kernel_main`, a keyboard handler that has enabled interrupts,
and the handlers that can nest above it. `MCRtc`: three ticks, more than fall into
the two readings without the comparison noticing; the start times surround every
roll-over. `MCConsole`: a screen of two rows of three characters, so that rows
fill up and scroll; every pair of directives, with words of eight bits around the
changes of sign and of length; three bytes from the keyboard with a buffer of two,
which fills within them; keys print a character, a newline, a backspace, or a line
`Addr:%x`, alone or behind the line of an empty heap; inside a `terminal_putchar`
those that print one character other than a newline. `MCBoot`: the real constants;
eight sizes of memory, around the limits at which structures meet, 1 GB and
beyond; kernels that end inside a page, at its end and just behind it; no image, a
small one and one that passes the first 4 MB; 48 pages from the heap, more than
its first entries. `MCInitrd`: two block numbers in an inode instead of twelve and
blocks of 64 bytes, so that one file reaches the indirect block; a directory of
two blocks; a file of every type but one; block numbers wrap around at four, which
makes the endless walk finite. `MCFloppy`: the ten turns of the code, two drives
and a number that is no drive, the sectors at the edges of sides and tracks, one
wrong track, and buffers inside a 64 KB page, at its end and across it.

**Deadlock** is checked in every run. The machine that an exception has stopped
stays in its `hlt`, with interrupts off (`Halted`).

**Fairness.** Sections of liballoc and of the kernel heap run with interrupts off
and so to their end (`WF`); a context whose section is over gets the processor
again and again between interrupts, and so completes its call even if others lock
in between (`SF`). The timer, programmed once to 100 Hz, keeps ticking; interrupts
that are pending are taken whenever the flag is on often enough; devices are
slower than the processor, so that a suspended context goes on. `read_rtc` runs,
and an update of the clock ends. The floppy driver runs on, the controller ends
every command, and `floppy_irq` is called when the gate is open: a controller
that is not there would make `floppy_wait_irq` wait for ever, and `Returns` does
not claim otherwise. A call of the file system runs on (`WF` of `Boot` and `Loop`
in `Initrd`; the timer ends the halt of an image marked for a panic).

## Proofs

All theorems hold for every value of the constants that the named assumptions of
the modules allow, and these are what TLC evaluates in the runs too.

**`LiballocProofs`** (every page size, set of sizes, size classes and contexts).
The invariant `IInv` of Liballoc, itself checked by TLC, joins the tag chain
(`SplitChain`), the lists, the runs, what a locked section knows about its block
(`HolderOK`) and what a context keeps between sections (`ClientOK`). None of the
stated properties is inductive alone: melting needs the neighbours' links, the
links need that blocks lie inside runs without overlap, and that needs the sizes
in the tags. One lemma per action and per conjunct it can disturb leads to
`Invariance`; `TypeCorrect`, `NeighboursLinked`, `BlocksCutFromRuns`,
`ListsStayLinked`, `SizeClassesRight`, `FullyCoalesced`, `NothingLeaks` (a
conjunct of `IInv` too), `OwnedBlocksApart`, `ReleasesWholeRuns` and
`ReallocCopiesInBounds` follow from it. `RunsCounted` (`CompleteExact`) adds
`Counted`: `l_completePages` of a class is the number of tags in its list without
a neighbour on either side. A tag enters or leaves that set in few steps, and in
each of them the code's increment or decrement is matched with the one element by
which the set changes. `FreeBlocksReachable` (`FreeReachable`) adds `ListsEnd`: no
set of blocks is closed under `prev`, which says without a count of links that no
list is a circle; `ListsLinked` alone would allow one. The set of the tags within
k links of a head is defined by recursion; `Iteration` shows that such a function
exists, by least elements of sets of naturals, and `ReachedGrows` that it gains a
tag with every link until it has all. `Refinement` shows that every step of
Liballoc is a step of `Allocator` (`Abstract`, with the map `live` of Liballoc for
its own) or a stutter; the same formula, `Implements`, is a property of the run
`liballoc_contexts`.

**`KernelHeapProofs`** (every heap size, run length and number of frames).
`HeapCorrect`, that is `HeapOK`, from two inductive invariants: `HeapInvariance` is
about bitmap and runs; it rests on what `bitmap_entrie_find` returns (a run of free
entries or -1) and on `KernelHeapAssumption`, without which `bitmap_map` would ignore
a run. `LoopInvariance` is about where the two loops are: that of `heap_alloc`
between the ends of its run, that of `heap_free` below its first page or at the last
page of the address space, where it ends. `FramesOwn` (`OwnFrames`) needs to know
about the run that is being mapped too: `FrameInv` says of all `Backed` pages, the
owned ones and those mapped so far, that their frames are marked, apart, and not
the kernel's.

**`InterruptsProofs`** (every set of lines, keys and devices). `Exclusion`: a context
between its gate and its first `sti`, or inside a locked section, is on top of the
stack with interrupts off, or an exception has stopped the machine; hence nobody
else can have entered the allocator above or below it. `Service` (`ServiceExact`)
rests on `ServiceInv`, which says for every depth of the stack what is in service
there: only a keyboard handler that has not yet ended its interrupt is ever found
below another handler, so that only the timer and a spurious line 7 come above
it, and an unspecific end of interrupt ends the right one. `FaultForever`
(`FaultHalts`) is an action property. `TypeCorrect`, a lemma of `Service`, is about the
variables' kinds and `kernel_main`'s place at the bottom of the stack.

**`RtcProofs`** (every start, mode and number of ticks). `OneTime` (`Consistent`) and
`Conversion` (`ConversionRight`): the invariant remembers how many ticks ago each
register was read (`Reads`). Two equal minutes read less than an hour apart were the
same minute in between, and so were the hours; all registers are those of the
moment at which the seconds were read the second time. `TypeCorrect` bounds what the
conversions can make.

**`FloppyProofs`** (every sector number, buffer, set of drives and number of tries).
`ConvertExact`: `floppy_convert` names a place on the disk from which the sector's
number can be computed back. `DmaProgrammed`: `floppy_dma_initialize` leaves the right
values in the registers whatever they held. `StayInStep` (`InStep`), `MotorOffBetween`
(`MotorStops`) and `ReadsRightSector` (`RightSector`) follow from one invariant, `Inv`:
what is left to do is the rest of one of four sequences of calls from its k-th call
on, and with each k goes what the controller is doing, how many bytes and interrupts
it still has for the driver, and what is known of the motor, the head, the channel
and the transfer.

**`InitrdProofs`** (every image that `ImageAssumption` describes, every garbage in
fresh nodes). `ReadsRight`, `LooksUpRight` and `ListsRight`: the arithmetic that
takes inode and block numbers to addresses gives the image's places; the walk
through a directory is at an entry of the directory and has passed only entries
whose names have another length (`Finding`, so that what is found is the first
entry of that length) or that it has counted (`CountingInv`); a read knows how
much is left and has written nothing behind the buffer (`Reading`, `Kept`).

**`ConsoleProofs`** (every size of the screen and every text). `ScreenShows`
(`ScreenRight`): `Match` relates a terminal and a sheet of paper; each function of
tty.c preserves it when the paper gets the same character, with the column on
paper as an integer and `terminal_column` as that integer modulo `SIZE_RANGE`,
through wrapped rows, scrolling and backspaces. `Sync` says how far the two agree
at each place inside `terminal_putchar`. `PositionRecovers` (`Recovers`):
`Position` says that inside a `terminal_newline` the row is the one that
`kernel_main` read and the column as far from 0, to either side, as keys were
pressed. Both take a text that a key prints character by character, and `EchoOK`
says what is still to come of it. The keyboard alone has `CountersBounded` (with
`kb_count = 0`, which nothing moves) and `ShiftNeverSticks`, for every size of the
buffers; `KeyboardWithin` says that the console's specification implies
Keyboard's, and `KeyboardInConsole` so that both hold while `kernel_main` prints.
`TextsRight` (`TextRight`) is about what is printed, for words of every size,
every list of directives and all their arguments. Its invariant is only that the
text stays that of the call (`TextInv`); the work is in the functions defined by
recursion. Induction is over sets of naturals (`Induction`, from the least element
of a set), and `Iteration` shows that a function exists which steps on from its
value before. `Numeral` and `convert_integer` have the same digits
(`NumeralRight`, `ConvertRight`), since dividing again and again is dividing by a
power (`QuotientTwice`, `Remainder`), and the count of digits is the length of the
numeral (`CountRight`); `DecWidthRight` says where the comparison value of
`print_dec`, which wraps around, still finds the length, and that it never finds
less. `PrintfRecursion` takes the recursion of `printf` apart: what it prints from
a place on, given what it prints further on; each kind of directive has its step
(`DirectiveStep`), `FormatRight` and `ArgsRight` say where in the format and in
the arguments directives stand, and `PrintfPrints` goes from the last directive to
the first.

**`BootProofs`** (every machine that `BootAssumption` and `RoomAssumption` allow: sizes of
memory, kernels and images, and numbers of pages from the heap). Three inductive
invariants carry the five theorems. `StageInv` says at each step of the boot where the
pointer and the structures are (`Stages`), and that nothing was written below the end
of the image (`Behind`): `KernelAndImageKept` (`ImageKept`) needs from it that
every frame that `frame_find` returns lies above the structures, even if
`frame_bitmap`'s own words were overwritten by entries of the bitmaps. `HeapInv` says
what the words of the heap structure and its bitmap structure are as long as the frames
in use do not reach them (`AsCreated`): it distinguishes the machines where the two are
apart, those where they share one word and the word is the right one for both, and the
others (`Mangled`), for which nothing is claimed; `HeapStructureKept` (`HeapKept`) is the
theorem. `Resources` counts: `frame_find` passes over at most six entries in which a
structure lies, tables and heap pages are made one at a time, and so the frames in use
are at most `FramesNeeded`; from it follow `FramesAreDistinct` and, with what is known of
the pointer to the heap's entries, `FramesAreApart`, which states
`~Mangled => FramesApart`: with a mangled structure the word that is taken for the
pointer to the entries is data, and for kernel and image beyond 16 MB it may lead into a
page that was handed out. `MappingsAreRight` (`MappingsRight`) needs in addition that
memory holds bytes only and that nothing is marked before `MarkKernel`
(`MappingInv`).

**Only model-checked**: all liveness (`LockReleased`, `CallsReturn`, `Returns`,
`SleepEnds`, `KeysRead`, `ReturnsUnlessTick`), which is out of TLAPS's reach; and the
second part of `FramesApart` for machines that are `Mangled`, of which the run
checks those of its sizes. Of `log_print`, `TextRight` asks for the decimal numbers
only, checked or proved.

## Not modelled

Left out for good: the register save and restore of the task switch, which nothing
calls; GDT and start-up code, straight-line and without later state; drawing; the
arrays and trees of array.c, `strtok`, `memmove` and the other functions of the C
library that the kernel never calls.

Within modelled components: double frees and requests near 4 GB (Liballoc),
further page directories and the copying of directories and tables, which nothing
calls (KernelHeap, Boot), register contents (Interrupts), the century arithmetic
(Rtc), the key table, what a keyboard reports of itself and lost bytes (Keyboard),
the delay of `floppy_control_motor` and the functions of dma.c without a caller
(Floppy), colours (Terminal), the time in front of a message but for one number
(Console), owners and access rights, holes and images of more than one block group
(Initrd).
