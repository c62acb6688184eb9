-------------------------------- MODULE Boot --------------------------------
(***************************************************************************)
(* What paging_initialize (arch/i386/mem/paging.c) leaves in memory: the   *)
(* bump allocator ponter_move_int, the two bitmaps of bitmap_create        *)
(* (kernel/array.c), the heap structure of heap_create (mem/heap.c), the   *)
(* page directory and the first tables; and what the first pages that      *)
(* heap_alloc hands out make of it.                                        *)
(*                                                                         *)
(* Addresses are in bytes and are the real ones.  bitmap_create reserves a *)
(* 128th of what its bitmap uses, so that structures lie in one another.   *)
(* `memory' therefore holds the bytes of the structures; of the entries of *)
(* the bitmaps, which are many and zero but for the first ones, `marked'   *)
(* and `used' say which ones were set.  Interrupts are off.                *)
(***************************************************************************)
EXTENDS Integers, FiniteSets

CONSTANTS
  EndKernels,              \* end_kernel
  Uppers,                  \* mem_upper, in kilobytes
  Images,                  \* sizes of the image that the boot loader loads, 0 for none
  MaxHeapPages             \* bound: pages taken from the heap

PAGE_SIZE == 4096          \* bytes of a page
ENTRY_SIZE == 1024         \* entries of a table
KernelBase == 1048576      \* where the linker script puts the kernel

(* At least a megabyte above the first one, less than 4 GB; an image of whole
   pages, as iso.sh makes it of 512 blocks of a kilobyte; and structures in the
   first 2 GB, above which Pointer does not follow an address. *)
ASSUME BootAssumption ==
  /\ \A u \in Uppers : u \in Nat /\ 1024 <= u /\ u < 4194304
  /\ \A e \in EndKernels : e \in Nat /\ KernelBase < e
  /\ \A i \in Images : i \in Nat /\ i % PAGE_SIZE = 0
  /\ \A e \in EndKernels, i \in Images : e + i < 1073741824
  /\ MaxHeapPages \in Nat

FREE == 0
USED == 1

VARIABLES
  pc,
  machine,         \* mem_upper, end_kernel and the size of the image
  kernel_pointer,
  memory,          \* byte address -> byte, for the bytes of the structures
  wrote,           \* the pieces <<first, end>> of memory the last step wrote
  frame_bitmap, kernel_heap, heap_bitmap,   \* where these structures are
  marked,          \* frames up to here were marked in the frame bitmap
  directory,       \* frame of the page directory
  tables,          \* index in the directory -> frame of the page table
  used,            \* the heap's indices that were marked
  mapped           \* page handed out by heap_alloc -> frame

vars == <<pc, machine, kernel_pointer, memory, wrote, frame_bitmap, kernel_heap,
          heap_bitmap, marked, directory, tables, used, mapped>>

None == 0

-----------------------------------------------------------------------------
(* Memory.                                                                 *)

ByteOf(v, k) == (v \div 256^k) % 256
Bytes(v) == [k \in 0..3 |-> ByteOf(v, k)]

(* m after a word was stored at a, *)
Store(m, a, v) ==
  [b \in DOMAIN m \cup a..(a + 3) |-> IF b \in a..(a + 3) THEN ByteOf(v, b - a) ELSE m[b]]

(* and after n words from a on were filled with v. *)
Fill(m, a, n, v) ==
  [b \in DOMAIN m |-> IF a <= b /\ b < a + 4 * n THEN ByteOf(v, (b - a) % 4) ELSE m[b]]

Load(a) == [k \in 0..3 |-> IF a + k \in DOMAIN memory THEN memory[a + k] ELSE 0]

(* ponter_move_int with align = 1: from any address of a page, its first one
   included, on to the next page. *)
Aligned(p) == IF p < PAGE_SIZE THEN p ELSE p - (p % PAGE_SIZE) + PAGE_SIZE

PagesBelow(p) == (p + PAGE_SIZE - 1) \div PAGE_SIZE

-----------------------------------------------------------------------------
(* The boot, in the order of kernel_main and paging_initialize.            *)

Machines == [upper : Uppers, end_kernel : EndKernels, image : Images]

Init ==
  /\ pc = "multiboot"
  /\ machine \in Machines
  /\ kernel_pointer = machine.end_kernel
  /\ memory = [b \in {} |-> 0] /\ wrote = {}
  /\ frame_bitmap = None /\ kernel_heap = None /\ heap_bitmap = None
  /\ marked = 0 /\ directory = None /\ tables = [d \in {} |-> 0]
  /\ used = {} /\ mapped = [v \in {} |-> 0]

(* Mutant of multiboot_print: the space of the image is not set aside. *)
multiboot_print_no_move ==
  /\ pc = "multiboot"
  /\ pc' = "frames" /\ wrote' = {}
  /\ UNCHANGED <<machine, kernel_pointer, memory, frame_bitmap, kernel_heap, heap_bitmap,
                 marked, directory, tables, used, mapped>>

(* The image is taken to follow the kernel. *)
multiboot_print ==
  /\ pc = "multiboot"
  /\ kernel_pointer' = kernel_pointer + machine.image
  /\ pc' = "frames" /\ wrote' = {}
  /\ UNCHANGED <<machine, memory, frame_bitmap, kernel_heap, heap_bitmap,
                 marked, directory, tables, used, mapped>>

(* bitmap_create: where the structure and its entries go, what memory m is
   afterwards, and how far the pointer moves. *)
BitmapAt(p) == Aligned(p)
EntriesAt(p) == Aligned(BitmapAt(p) + 8)
bitmap_create(m, p, size) ==
  Fill(Store(Store(m, BitmapAt(p) + 4, size), BitmapAt(p), EntriesAt(p)),
       EntriesAt(p), size, FREE)
BitmapEnd(p, size) == EntriesAt(p) + size \div 32

Entries == machine.upper \div 4      \* entries of either bitmap

CreateFrameBitmap ==
  /\ pc = "frames"
  /\ frame_bitmap' = BitmapAt(kernel_pointer)
  /\ memory' = bitmap_create(memory, kernel_pointer, Entries)
  /\ wrote' = {<<BitmapAt(kernel_pointer), BitmapAt(kernel_pointer) + 8>>,
               <<EntriesAt(kernel_pointer), EntriesAt(kernel_pointer) + 4 * Entries>>}
  /\ kernel_pointer' = BitmapEnd(kernel_pointer, Entries)
  /\ pc' = "heap"
  /\ UNCHANGED <<machine, kernel_heap, heap_bitmap, marked, directory, tables, used, mapped>>

(* Where the pointer ends up on machine m, *)
HeapAt(m) == BitmapEnd(m.end_kernel + m.image, m.upper \div 4)
LayoutEnd(m) == BitmapEnd(HeapAt(m) + 4, m.upper \div 4)

(* and how many frames are in use in the end: those below the pointer, the
   directory, the tables and the pages from the heap; and the entries of the frame
   bitmap, four and two at most, that the heap structure and its bitmap occupy. *)
FramesNeeded(m) ==
  LET below == PagesBelow(LayoutEnd(m))
  IN below + 1 + ((below - 1) \div ENTRY_SIZE + 1) + MaxHeapPages + 6

(* There is memory for them, and the entries of the frame bitmap that they take do
   not reach those of the heap's bitmap, which `memory' does not hold. *)
ASSUME RoomAssumption ==
  \A m \in Machines :
    /\ FramesNeeded(m) <= m.upper \div 4
    /\ EntriesAt(m.end_kernel + m.image) + 4 * FramesNeeded(m) <= EntriesAt(HeapAt(m) + 4)

(* mem_upper, a number of kilobytes, is taken for the address. *)
Start == machine.upper - (machine.upper % PAGE_SIZE)

(* Mutant of heap_create: the pointer to the bitmap is stored before the bitmap
   is made. *)
heap_create_early ==
  /\ pc = "heap"
  /\ LET h == kernel_pointer
         p == kernel_pointer + 4
         m == Store(Store(Store(memory, h + 8, 1), h, Start), h + 4, 0)
     IN /\ kernel_heap' = h /\ heap_bitmap' = BitmapAt(p)
        /\ memory' = bitmap_create(Store(m, h + 9, BitmapAt(p)), p, Entries)
        /\ wrote' = {<<h, h + 13>>, <<BitmapAt(p), BitmapAt(p) + 8>>,
                     <<EntriesAt(p), EntriesAt(p) + 4 * Entries>>}
        /\ kernel_pointer' = BitmapEnd(p, Entries)
  /\ pc' = "mark"
  /\ UNCHANGED <<machine, frame_bitmap, marked, directory, tables, used, mapped>>

(* Room for a pointer is set aside for the 13 bytes of the structure: start,
   end, a byte of flags, and the pointer to the bitmap, which is stored last. *)
heap_create ==
  /\ pc = "heap"
  /\ LET h == kernel_pointer
         p == kernel_pointer + 4
         m == bitmap_create(Store(Store(Store(memory, h + 8, 1), h, Start), h + 4, 0), p, Entries)
     IN /\ kernel_heap' = h /\ heap_bitmap' = BitmapAt(p)
        /\ memory' = Store(m, h + 9, BitmapAt(p))
        /\ wrote' = {<<h, h + 13>>, <<BitmapAt(p), BitmapAt(p) + 8>>,
                     <<EntriesAt(p), EntriesAt(p) + 4 * Entries>>}
        /\ kernel_pointer' = BitmapEnd(p, Entries)
  /\ pc' = "mark"
  /\ UNCHANGED <<machine, frame_bitmap, marked, directory, tables, used, mapped>>

-----------------------------------------------------------------------------
(* Frames.                                                                 *)

(* The address that the word at a holds; -1 if it is above 2 GB. *)
Pointer(a) ==
  LET w == Load(a) IN
  IF w[3] >= 128 THEN -1 ELSE w[0] + 256 * w[1] + 65536 * w[2] + 16777216 * w[3]

FrameEntry(f) == Pointer(frame_bitmap) + 4 * f

(* The first entry that holds 0.  A structure that lies in the entries counts
   as entries in use where its bytes are not 0. *)
frame_find ==
  CHOOSE f \in marked..(marked + 16) :
    /\ Load(FrameEntry(f)) = Bytes(FREE)
    /\ \A g \in marked..(f - 1) : Load(FrameEntry(g)) # Bytes(FREE)

(* frame_alloc takes frame f and marks it in m. *)
frame_alloc(m, f) == Fill(m, FrameEntry(f), 1, USED)

Page(f) == <<f * PAGE_SIZE, (f + 1) * PAGE_SIZE>>
Entry(a) == <<a, a + 4>>

(* Mutant of MarkKernel: a page that is begun is not marked. *)
MarkKernel_whole_pages ==
  /\ pc = "mark"
  /\ marked' = kernel_pointer \div PAGE_SIZE
  /\ memory' = Fill(memory, FrameEntry(0), marked', USED)
  /\ wrote' = {<<FrameEntry(0), FrameEntry(marked')>>}
  /\ pc' = "directory"
  /\ UNCHANGED <<machine, kernel_pointer, frame_bitmap, kernel_heap, heap_bitmap,
                 directory, tables, used, mapped>>

(* The loop of frame_set over everything below kernel_pointer. *)
MarkKernel ==
  /\ pc = "mark"
  /\ marked' = PagesBelow(kernel_pointer)
  /\ memory' = Fill(memory, FrameEntry(0), marked', USED)
  /\ wrote' = {<<FrameEntry(0), FrameEntry(marked')>>}
  /\ pc' = "directory"
  /\ UNCHANGED <<machine, kernel_pointer, frame_bitmap, kernel_heap, heap_bitmap,
                 directory, tables, used, mapped>>

directory_create ==
  /\ pc = "directory"
  /\ directory' = frame_find /\ marked' = frame_find + 1
  /\ memory' = Fill(frame_alloc(memory, frame_find), frame_find * PAGE_SIZE, ENTRY_SIZE, 2)
  /\ wrote' = {Entry(FrameEntry(frame_find)), Page(frame_find)}
  /\ pc' = "map"
  /\ UNCHANGED <<machine, kernel_pointer, frame_bitmap, kernel_heap, heap_bitmap,
                 tables, used, mapped>>

-----------------------------------------------------------------------------
(* Pages.                                                                  *)

(* The loop that maps every page below kernel_pointer to itself has got to the
   first page of a table. *)
Unmapped == (0..((PagesBelow(kernel_pointer) - 1) \div ENTRY_SIZE)) \ DOMAIN tables

table_create ==
  /\ pc = "map" /\ Unmapped # {}
  /\ LET d == CHOOSE d \in Unmapped : \A e \in Unmapped : d <= e
     IN tables' = [e \in DOMAIN tables \cup {d} |-> IF e = d THEN frame_find ELSE tables[e]]
  /\ marked' = frame_find + 1
  /\ memory' = Fill(frame_alloc(memory, frame_find), frame_find * PAGE_SIZE, ENTRY_SIZE, USED)
  /\ wrote' = {Entry(FrameEntry(frame_find)), Page(frame_find)}
  /\ UNCHANGED <<pc, machine, kernel_pointer, frame_bitmap, kernel_heap, heap_bitmap,
                 directory, used, mapped>>

(* Mutant of TableEntry: a new table maps nothing. *)
TableEntry_empty(v) == -1

(* What a table that was made before paging is on holds for page v before the
   loop comes to it: every table begins with page 0. *)
TableEntry(v) == v % ENTRY_SIZE

(* Where page v is mapped; -1 if there is no table for it. *)
Mapping(v) ==
  IF v \in DOMAIN mapped THEN mapped[v]
  ELSE IF v \div ENTRY_SIZE \notin DOMAIN tables THEN -1
  ELSE IF v < PagesBelow(kernel_pointer) THEN v
  ELSE TableEntry(v)

(* The second multiboot_print moves the pointer again, which nothing uses any
   more. *)
paging_enable ==
  /\ pc = "map" /\ Unmapped = {}
  /\ pc' = "running" /\ wrote' = {}
  /\ UNCHANGED <<machine, kernel_pointer, memory, frame_bitmap, kernel_heap, heap_bitmap,
                 marked, directory, tables, used, mapped>>

-----------------------------------------------------------------------------
(* heap_alloc of one page, as liballoc's first calls and the key 2 make it. *)

(* The heap structure says what heap_create stored. *)
HeapAsCreated ==
  /\ Load(kernel_heap) = Bytes(Start)
  /\ Load(kernel_heap + 9) = Bytes(heap_bitmap)
  /\ Load(heap_bitmap + 4) = Bytes(Entries)
  /\ Pointer(heap_bitmap) \in heap_bitmap..kernel_pointer

HeapEntry(k) == Pointer(heap_bitmap) + 4 * k

Free == {k \in 0..MaxHeapPages + 4 : k \notin used /\ Load(HeapEntry(k)) = Bytes(FREE)}
Index == CHOOSE k \in Free : \A l \in Free : k <= l

PageOfIndex(k) == Start \div PAGE_SIZE - k

(* The pages that hold the kernel, the image, the structures and the tables. *)
KernelPages == (KernelBase \div PAGE_SIZE)..(marked - 1)

NoMemory(v) == v <= 0

heap_alloc ==
  /\ pc = "running" /\ HeapAsCreated /\ Cardinality(used) < MaxHeapPages
  /\ ~NoMemory(PageOfIndex(Index))
  /\ used' = used \cup {Index}
  /\ LET m == Fill(memory, HeapEntry(Index), 1, USED) IN memory' = frame_alloc(m, frame_find)
  /\ wrote' = {Entry(HeapEntry(Index)), Entry(FrameEntry(frame_find))}
  /\ marked' = frame_find + 1
  /\ mapped' = [v \in DOMAIN mapped \cup {PageOfIndex(Index)} |->
                  IF v = PageOfIndex(Index) THEN frame_find ELSE mapped[v]]
  /\ pc' = IF PageOfIndex(Index) \in {directory} \cup KernelPages THEN "astray" ELSE "running"
  /\ UNCHANGED <<machine, kernel_pointer, frame_bitmap, kernel_heap, heap_bitmap,
                 directory, tables>>

(* NO FREE MEMORY *)
heap_alloc_null ==
  /\ pc = "running" /\ HeapAsCreated
  /\ NoMemory(PageOfIndex(Index))
  /\ UNCHANGED vars

(* With a heap structure that was overwritten, or a page of its own remapped,
   the kernel is not followed any further. *)
Astray ==
  /\ pc = "running" /\ ~HeapAsCreated
  /\ pc' = "astray" /\ wrote' = {}
  /\ UNCHANGED <<machine, kernel_pointer, memory, frame_bitmap, kernel_heap, heap_bitmap,
                 marked, directory, tables, used, mapped>>
Stopped ==
  /\ pc = "astray" \/ (pc = "running" /\ Cardinality(used) = MaxHeapPages)
  /\ UNCHANGED vars

Next ==
  \/ multiboot_print \/ CreateFrameBitmap \/ heap_create \/ MarkKernel
  \/ directory_create \/ table_create \/ paging_enable
  \/ heap_alloc \/ heap_alloc_null \/ Astray \/ Stopped

Spec == Init /\ [][Next]_vars

-----------------------------------------------------------------------------
(* Properties.                                                             *)

(* The kinds of values the variables hold: frames and pages are in the memory
   there is, and the frame bitmap's entries in use end before the heap's. *)
TypeOK ==
  /\ pc \in {"multiboot", "frames", "heap", "mark", "directory", "map", "running", "astray"}
  /\ kernel_pointer \in Nat
  /\ \A b \in DOMAIN memory : memory[b] \in 0..255
  /\ \A p \in wrote : p[1] < p[2]
  /\ marked \in 0..Entries
  /\ pc \in {"map", "running", "astray"} => FrameEntry(marked) <= heap_bitmap + PAGE_SIZE
  /\ \A v \in DOMAIN mapped : v \in 1..(ENTRY_SIZE - 1) /\ mapped[v] \in 1..Entries

Disjoint(p, q) == p[2] <= q[1] \/ q[2] <= p[1]

Kernel == <<KernelBase, machine.end_kernel>>
ImageStart == PAGE_SIZE * PagesBelow(machine.end_kernel)
Image == <<ImageStart, ImageStart + machine.image>>

(* Nothing that is written during the boot or by heap_alloc, entries far outside
   of what was reserved included, lies in the kernel or in the image, which
   the boot loader puts on the next page behind it. *)
ImageKept == \A p \in wrote : Disjoint(p, Kernel) /\ Disjoint(p, Image)

(* The frame bitmap, as far as it is used, has not come to the heap structure. *)
ShortOfHeap == FrameEntry(marked) <= kernel_heap

(* The bitmap structure of the heap begins inside the heap structure, for which
   too little was set aside, and not at its pointer to the bitmap. *)
Mangled ==
  /\ ~Disjoint(<<kernel_heap, kernel_heap + 13>>, <<heap_bitmap, heap_bitmap + 8>>)
  /\ kernel_heap + 9 # heap_bitmap

(* The structures lie in one another, and still the heap structure says after
   the boot, and after any number of heap_alloc, what heap_create stored, and
   its bitmap has room for every page of the heap in pages of its own, even if
   the pointer to the bitmap is the bitmap's pointer to its entries.  This ends
   when the frames in use reach the entry of the frame bitmap that is the heap
   structure, and does not hold for the few sizes of memory with which heap
   structure and bitmap structure mangle each other. *)
HeapKept ==
  pc \in {"directory", "map", "running"} /\ ShortOfHeap /\ ~Mangled =>
    /\ HeapAsCreated
    /\ \A k \in 0..(Start \div PAGE_SIZE) : HeapEntry(k) + 4 <= PAGE_SIZE * PagesBelow(kernel_pointer)

(* The frames of the tables and of the pages from the heap. *)
Taken == {tables[d] : d \in DOMAIN tables} \cup {mapped[v] : v \in DOMAIN mapped}

(* Directory, tables and the pages from the heap get frames of their own, above the
   kernel, the image and the structures. *)
FramesDistinct ==
  pc \in {"map", "running"} =>
    /\ Cardinality(Taken) = Cardinality(DOMAIN tables) + Cardinality(DOMAIN mapped)
    /\ directory \notin Taken
    /\ \A f \in Taken \cup {directory} : f >= PagesBelow(kernel_pointer)

(* And none of them holds an entry of the heap's bitmap, wherever the pointer to it
   leads. *)
FramesApart ==
  /\ FramesDistinct
  /\ pc \in {"map", "running"} =>
       \A f \in Taken \cup {directory} :
         \A k \in 0..(Start \div PAGE_SIZE) : Disjoint(Page(f), Entry(HeapEntry(k)))

(* When paging is on, page_map still finds the directory and the tables at
   their addresses, which it uses as virtual ones: so long as they are in the
   first 4 MB. *)
TablesReachable ==
  pc = "running" =>
    \A f \in {directory} \cup {tables[d] : d \in DOMAIN tables} :
      f < ENTRY_SIZE => Mapping(f) = f

(* With at most 1 GB of memory the heap lies below the kernel: then heap_alloc
   hands out no page of the kernel, and kernel and image stay mapped to
   themselves. *)
KernelMapped ==
  Start < KernelBase =>
    /\ pc = "astray" => ~ShortOfHeap \/ Mangled
    /\ pc = "running" => \A v \in KernelPages : v < PagesBelow(kernel_pointer) => Mapping(v) = v

(* After the boot and after any number of pages from the heap, what page_map and
   the kernel itself use is where they expect it, and frames and pages are in
   the memory there is. *)
MappingsRight == TypeOK /\ TablesReachable /\ KernelMapped
=============================================================================
