----------------------------- MODULE KernelHeap -----------------------------
(***************************************************************************)
(* The page provider of the kernel: frame bitmap and page table            *)
(* (arch/i386/mem/paging.c), the heap's bitmap of page indices             *)
(* (arch/i386/mem/heap.c) and the bitmap functions of kernel/array.c.      *)
(*                                                                         *)
(* Everything is counted in pages: page v is the virtual address           *)
(* v * 0x1000, frame f the physical one.  Index k of the heap stands for   *)
(* page StartPage - k: indices grow downwards from heap->start, while the  *)
(* pages of a run are mapped upwards from its first one.                   *)
(*                                                                         *)
(* heap_alloc and heap_free run with interrupts off (liballoc_lock, or the *)
(* keyboard's interrupt gate), so that no two of them overlap; each page   *)
(* their loops handle is one step here.                                    *)
(***************************************************************************)
EXTENDS Integers, FiniteSets

CONSTANTS
  StartPage,    \* heap->start in pages; index StartPage would be page 0
  HeapSize,     \* heap->bitmap->size
  FrameCount,   \* frame_bitmap->size
  KernelPages,  \* pages below kernel_pointer when paging is initialised
  TablePages,   \* pages the first page table maps
  AddrPages,    \* pages of the address space: addresses wrap around here
  RunLengths    \* the run lengths callers ask for

(* The first table covers the heap (mem_upper is a number of kilobytes, so
   start is below 4 MB), and its bitmap, of mem_upper / 4 entries, is far longer
   than the heap has pages. *)
ASSUME KernelHeapAssumption ==
  /\ StartPage \in Nat \ {0} /\ HeapSize \in Nat /\ FrameCount \in Nat
  /\ KernelPages \in Nat \ {0} /\ KernelPages + 2 <= FrameCount
  /\ TablePages \in Nat /\ AddrPages \in Nat
  /\ RunLengths \subseteq Nat \ {0}
  /\ \A n \in RunLengths :
       /\ StartPage + n <= TablePages
       /\ \A m \in RunLengths : StartPage + n + m <= HeapSize
  /\ HeapSize + StartPage < AddrPages /\ TablePages < AddrPages
  /\ FrameCount < AddrPages - 1

FREE == 0
USED == 1
None == -1      \* an entry of the page table that is not present

VARIABLES
  frame,   \* entries of frame_bitmap, and the word of memory behind them
  bitmap,  \* entries of heap->bitmap
  pt,      \* page -> frame, or None: the first page table
  runs,    \* first page -> length of the runs callers own
  pc,      \* "idle", or the loop of heap_alloc or heap_free that runs
  addr,    \* its run: first page,
  number,  \* and length
  i,       \* the page the loop is at
  freed    \* history: whether heap_free was called

vars == <<frame, bitmap, pt, runs, pc, addr, number, i, freed>>

-----------------------------------------------------------------------------
(* array.c.  B stands for the entries of a bitmap.                         *)

(* The inner loop finds `size' entries in a row, at least one. *)
RunAt(B, k, size, value) ==
  \A x \in k..(k + (IF size = 0 THEN 1 ELSE size) - 1) : x \in DOMAIN B /\ B[x] = value

(* The first index up to and including `last', bitmap->size in the code, where
   such a run begins; -1 if there is none. *)
bitmap_entrie_find(size, value, B, last) ==
  LET found == {k \in 0..last : RunAt(B, k, size, value)}
  IN  IF found = {} THEN -1 ELSE CHOOSE k \in found : \A l \in found : k <= l

(* Mutant of bitmap_map: end is included. *)
bitmap_map_closed(start, end, value, B, size) ==
  IF end > size THEN B
  ELSE [k \in DOMAIN B |-> IF k \in start..end THEN value ELSE B[k]]

bitmap_map(start, end, value, B, size) ==
  IF end > size THEN B
  ELSE [k \in DOMAIN B |-> IF k \in start..(end - 1) THEN value ELSE B[k]]

-----------------------------------------------------------------------------
(* Frames.                                                                 *)

(* -1 becomes the last frame of the address space, which is not the value
   frame_alloc compares with: it is used like any other. *)
frame_find == bitmap_entrie_find(1, FREE, frame, FrameCount) % AddrPages

(* frame_set and frame_free write where the index points.  Only entries of the
   bitmap and the word behind it are tracked. *)
FrameMarked(f, value) == [k \in DOMAIN frame |-> IF k = f THEN value ELSE frame[k]]

(* page_physaddr: NULL for a page that is not present, that is frame 0. *)
page_physaddr(v) == IF pt[v] = None THEN 0 ELSE pt[v]

(* The entry is written whether or not it was present; the table exists. *)
page_map(f, v) == [pt EXCEPT ![v] = f]
page_unmap(v) == [pt EXCEPT ![v] = None]

(* After paging_initialize: the frames below kernel_pointer are in use, then
   the directory and the first table took a frame each, and table_create and
   the loop at the end mapped every page of that table to itself. *)
Init ==
  /\ frame \in [0..FrameCount -> {FREE, USED}]
  /\ \A f \in 0..(FrameCount - 1) : frame[f] = USED <=> f < KernelPages + 2
  /\ bitmap = [k \in 0..(HeapSize - 1) |-> FREE]
  /\ pt = [v \in 0..(TablePages - 1) |-> v]
  /\ runs = [v \in {} |-> 0]
  /\ pc = "idle" /\ addr = 0 /\ number = 0 /\ i = 0
  /\ freed = FALSE

-----------------------------------------------------------------------------
(* heap_alloc                                                              *)

Found(n) == bitmap_entrie_find(n, FREE, bitmap, HeapSize)

(* heap->start - ADDR_GET(index), modulo 2^32 *)
AddrOf(n) == (StartPage - Found(n)) % AddrPages

NoMemory(n) == AddrOf(n) = 0 \/ AddrOf(n) > StartPage

heap_alloc(n) ==
  /\ pc = "idle"
  /\ ~NoMemory(n)
  /\ bitmap' = bitmap_map(Found(n), Found(n) + n, USED, bitmap, HeapSize)
  /\ pc' = "map" /\ addr' = AddrOf(n) /\ number' = n /\ i' = AddrOf(n)
  /\ UNCHANGED <<frame, pt, runs, freed>>

(* NO FREE MEMORY: NULL is returned. *)
heap_alloc_null(n) ==
  /\ pc = "idle"
  /\ NoMemory(n)
  /\ UNCHANGED vars

(* Mutant of MapPage: the frame is not marked. *)
MapPage_unmarked ==
  /\ pc = "map" /\ i < addr + number
  /\ pt' = page_map(frame_find, i)
  /\ i' = i + 1
  /\ UNCHANGED <<frame, bitmap, runs, pc, addr, number, freed>>

(* One turn of the loop: frame_alloc, and page_map whatever was mapped there.
   page_map fails for unaligned addresses only, so heap_alloc never gets to its
   rollback. *)
MapPage ==
  /\ pc = "map" /\ i < addr + number
  /\ frame' = FrameMarked(frame_find, USED)
  /\ pt' = page_map(frame_find, i)
  /\ i' = i + 1
  /\ UNCHANGED <<bitmap, runs, pc, addr, number, freed>>

AllocReturn ==
  /\ pc = "map" /\ ~(i < addr + number)
  /\ runs' = [v \in DOMAIN runs \cup {addr} |-> IF v = addr THEN number ELSE runs[v]]
  /\ pc' = "idle" /\ addr' = 0 /\ number' = 0 /\ i' = 0
  /\ UNCHANGED <<frame, bitmap, pt, freed>>

-----------------------------------------------------------------------------
(* heap_free                                                               *)

heap_free(v) ==
  /\ pc = "idle"
  /\ bitmap' = bitmap_map(StartPage - v, StartPage - v + runs[v], FREE, bitmap, HeapSize)
  /\ runs' = [u \in DOMAIN runs \ {v} |-> runs[u]]
  /\ pc' = "unmap" /\ addr' = v /\ number' = runs[v] /\ i' = v
  /\ freed' = TRUE
  /\ UNCHANGED <<frame, pt>>

(* Mutant of UnmapPage: the walk stops at page 0 and stays there. *)
UnmapPage_saturating ==
  /\ pc = "unmap" /\ i < addr + number
  /\ frame' = FrameMarked(page_physaddr(i), FREE)
  /\ pt' = page_unmap(i)
  /\ i' = IF i = 0 THEN 0 ELSE i - 1
  /\ UNCHANGED <<bitmap, runs, pc, addr, number, freed>>

(* One turn of the loop, which goes down: it ends when i wraps around. *)
UnmapPage ==
  /\ pc = "unmap" /\ i < addr + number
  /\ frame' = FrameMarked(page_physaddr(i), FREE)
  /\ pt' = page_unmap(i)
  /\ i' = (i - 1) % AddrPages
  /\ UNCHANGED <<bitmap, runs, pc, addr, number, freed>>

FreeReturn ==
  /\ pc = "unmap" /\ ~(i < addr + number)
  /\ pc' = "idle" /\ addr' = 0 /\ number' = 0 /\ i' = 0
  /\ UNCHANGED <<frame, bitmap, pt, runs, freed>>

-----------------------------------------------------------------------------
Running == MapPage \/ AllocReturn \/ UnmapPage \/ FreeReturn

Next ==
  \/ \E n \in RunLengths : heap_alloc(n) \/ heap_alloc_null(n)
  \/ \E v \in DOMAIN runs : heap_free(v)
  \/ Running

Spec == Init /\ [][Next]_vars

(* Interrupts are off: a call that has begun runs to its end. *)
FairSpec == Spec /\ WF_vars(Running)

-----------------------------------------------------------------------------
(* Properties.                                                             *)

(* The kinds of values the variables hold. *)
TypeOK ==
  /\ frame \in [0..FrameCount -> {FREE, USED}]
  /\ bitmap \in [0..(HeapSize - 1) -> {FREE, USED}]
  /\ pt \in [0..(TablePages - 1) -> 0..(AddrPages - 1) \cup {None}]
  /\ DOMAIN runs \subseteq 1..StartPage /\ runs \in [DOMAIN runs -> RunLengths]
  /\ pc \in {"idle", "map", "unmap"}
  /\ addr \in 0..StartPage /\ number \in RunLengths \cup {0}
  /\ i \in 0..(AddrPages - 1)
  /\ freed \in BOOLEAN

(* The indices heap_alloc marked for the run of n at page v. *)
Indices(v, n) == (StartPage - v)..(StartPage - v + n - 1)

Allotted == (UNION {Indices(v, runs[v]) : v \in DOMAIN runs})
            \cup (IF pc = "map" THEN Indices(addr, number) ELSE {})

(* heap->bitmap says exactly which indices callers own, after any sequence of
   heap_alloc and heap_free: nothing leaks and nothing is offered twice. *)
BitmapExact == {k \in 0..(HeapSize - 1) : bitmap[k] = USED} = Allotted

(* No index belongs to two runs, so that heap_free of one clears no index of
   another. *)
IndicesApart ==
  /\ \A v, w \in DOMAIN runs :
       v # w => Indices(v, runs[v]) \cap Indices(w, runs[w]) = {}
  /\ pc = "map" => \A v \in DOMAIN runs :
       Indices(v, runs[v]) \cap Indices(addr, number) = {}

(* What heap_alloc and heap_free keep after any sequence of calls, in the middle
   of their loops too: the index bitmap is exact, no index has two owners, and
   addresses and frames stay in range although addresses wrap around. *)
HeapOK == TypeOK /\ BitmapExact /\ IndicesApart

(* The loops of heap_alloc and heap_free end, the second one by wrapping
   around below page 0. *)
Returns == pc # "idle" ~> pc = "idle"

(* The pages of the run of n at page v, as heap_alloc maps them. *)
PagesIn(v, n) == v..(v + n - 1)
Owned == UNION {PagesIn(v, runs[v]) : v \in DOMAIN runs}

(* While nothing has been freed, every owned page is backed by a frame that is
   marked in use, that is not the kernel's and that no other owned page is
   mapped to, even where runs overlap.  (Not so once frames run out: then
   frame_find gives the last frame of the address space again and again.) *)
OwnFrames ==
  ~freed /\ (\E f \in 0..(FrameCount - 1) : frame[f] = FREE) =>
    /\ \A v \in Owned :
         /\ pt[v] \in (KernelPages + 2)..(FrameCount - 1)
         /\ frame[pt[v]] = USED
    /\ \A v, w \in Owned : v # w => pt[v] # pt[w]

(* heap_alloc hands no page out twice. *)
PagesApart ==
  \A v, w \in DOMAIN runs :
    v # w => PagesIn(v, runs[v]) \cap PagesIn(w, runs[w]) = {}
=============================================================================
