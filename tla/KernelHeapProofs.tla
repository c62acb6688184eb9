-------------------------- MODULE KernelHeapProofs --------------------------
(***************************************************************************)
(* KernelHeap, for every heap size, run length and number of frames: the   *)
(* bitmap of the heap says exactly which indices callers own, no index     *)
(* has two owners, and until the first heap_free pages have frames of      *)
(* their own.                                                              *)
(*                                                                         *)
(* The first two need each other: heap_free clears the indices of one run  *)
(* only, because runs are apart; heap_alloc finds indices that are no      *)
(* run's, because the bitmap is exact.  Frames and page table play no part *)
(* in it; for them the loop of heap_alloc matters, page by page.           *)
(***************************************************************************)
EXTENDS KernelHeap, WellFoundedInduction, TLAPS

(* The part of the types the argument needs. *)
HeapTypes ==
  /\ bitmap \in [0..(HeapSize - 1) -> {FREE, USED}]
  /\ DOMAIN runs \subseteq 1..StartPage /\ runs \in [DOMAIN runs -> RunLengths]
  /\ pc \in {"idle", "map", "unmap"}
  /\ pc = "map" => addr \in 1..StartPage /\ number \in RunLengths

HeapInv == HeapTypes /\ BitmapExact /\ IndicesApart

(* A non-empty set of naturals has a least element. *)
LEMMA LeastElement ==
  ASSUME NEW S \in SUBSET Nat, S # {}
  PROVE  \E x \in S : \A y \in S : x <= y
<1>1. IsWellFoundedOn(OpToRel(<, Nat), Nat)
  BY NatLessThanWellFounded
<1>2. PICK x \in S : \A y \in S : ~(<<y, x>> \in OpToRel(<, Nat))
  BY <1>1, WFMin
<1>3. \A y \in S : ~(y < x)
  BY <1>2 DEF OpToRel
<1> QED  BY <1>3

(* What bitmap_entrie_find returns: -1, or an index where the run begins. *)
LEMMA FindRun ==
  ASSUME NEW size \in Nat \ {0}, NEW value, NEW B, NEW last \in Nat
  PROVE  LET k == bitmap_entrie_find(size, value, B, last)
         IN  k = -1 \/ (k \in 0..last /\ RunAt(B, k, size, value))
<1> DEFINE found == {k \in 0..last : RunAt(B, k, size, value)}
<1>1. CASE found = {}
  BY <1>1 DEF bitmap_entrie_find
<1>2. CASE found # {}
  <2>1. found \in SUBSET Nat
    OBVIOUS
  <2>2. \E x \in found : \A y \in found : x <= y
    <3> HIDE DEF found
    <3> QED  BY <1>2, <2>1, LeastElement
  <2>3. bitmap_entrie_find(size, value, B, last) \in found
    BY <1>2, <2>2 DEF bitmap_entrie_find
  <2> QED  BY <2>3
<1> QED  BY <1>1, <1>2

(* Subtraction modulo the size of the address space, once around at most. *)
LEMMA WrapAround ==
  ASSUME NEW x \in Int, NEW a \in Nat, -a <= x, x < a
  PROVE  x % a = IF x >= 0 THEN x ELSE x + a
  OBVIOUS

(* heap_alloc goes on only with an index inside the heap. *)
LEMMA FoundInside ==
  ASSUME NEW n \in RunLengths, ~NoMemory(n)
  PROVE  /\ Found(n) \in 0..(StartPage - 1)
         /\ AddrOf(n) = StartPage - Found(n) /\ AddrOf(n) \in 1..StartPage
         /\ Found(n) + n <= HeapSize
         /\ RunAt(bitmap, Found(n), n, FREE)
<1> DEFINE k == Found(n)
<1>1. /\ StartPage \in Nat \ {0} /\ HeapSize \in Nat /\ AddrPages \in Nat
      /\ n \in Nat \ {0} /\ HeapSize + StartPage < AddrPages
      /\ StartPage + n + n <= HeapSize
  BY KernelHeapAssumption
<1>2. k = -1 \/ (k \in 0..HeapSize /\ RunAt(bitmap, k, n, FREE))
  BY <1>1, FindRun DEF Found
<1>3. AddrOf(n) = (StartPage - k) % AddrPages
  BY DEF AddrOf
<1>4. ~(AddrOf(n) = 0) /\ ~(AddrOf(n) > StartPage)
  BY DEF NoMemory
<1> HIDE DEF k
<1>5. /\ StartPage - k \in Int /\ k \in Int
      /\ -AddrPages <= StartPage - k /\ StartPage - k < AddrPages
  BY <1>1, <1>2
<1>6. (StartPage - k) % AddrPages =
        IF StartPage - k >= 0 THEN StartPage - k ELSE StartPage - k + AddrPages
  BY <1>1, <1>5, WrapAround
<1>7. k # -1 /\ k < StartPage
  BY <1>1, <1>2, <1>3, <1>4, <1>5, <1>6
<1>8. k \in 0..(StartPage - 1) /\ StartPage - k >= 0
  BY <1>1, <1>2, <1>7
<1>9. k + n <= HeapSize
  BY <1>1, <1>8
<1> QED  BY <1>1, <1>2, <1>3, <1>6, <1>7, <1>8, <1>9 DEF k

(* heap_alloc marks indices that belonged to nobody. *)
LEMMA AllocStep ==
  ASSUME HeapInv, NEW n \in RunLengths, heap_alloc(n)
  PROVE  HeapInv'
<1> DEFINE k == Found(n)
           new == k..(k + n - 1)
<1>1. /\ StartPage \in Nat \ {0} /\ HeapSize \in Nat /\ n \in Nat \ {0}
  BY KernelHeapAssumption
<1>2. /\ k \in 0..(StartPage - 1) /\ addr' = StartPage - k
      /\ addr' \in 1..StartPage /\ number' = n
      /\ k + n <= HeapSize /\ RunAt(bitmap, k, n, FREE)
  BY FoundInside DEF heap_alloc
<1>3. pc = "idle" /\ pc' = "map" /\ runs' = runs
      /\ bitmap' = bitmap_map(k, k + n, USED, bitmap, HeapSize)
  BY DEF heap_alloc
<1> HIDE DEF k
<1>4. bitmap \in [0..(HeapSize - 1) -> {FREE, USED}]
  BY DEF HeapInv, HeapTypes
<1>5. /\ bitmap' \in [0..(HeapSize - 1) -> {FREE, USED}]
      /\ \A j \in 0..(HeapSize - 1) :
           bitmap'[j] = IF j \in new THEN USED ELSE bitmap[j]
  BY <1>1, <1>2, <1>3, <1>4 DEF bitmap_map, FREE, USED
<1>6. \A j \in new : j \in 0..(HeapSize - 1) /\ bitmap[j] = FREE
  BY <1>1, <1>2, <1>4 DEF RunAt
<1>7. Indices(addr', number') = new
  BY <1>1, <1>2 DEF Indices
<1>8. Allotted' = Allotted \cup new
  BY <1>3, <1>7 DEF Allotted
<1>9. HeapTypes'
  BY <1>2, <1>3, <1>5 DEF HeapInv, HeapTypes
<1>10. BitmapExact'
  <2>1. Allotted = {j \in 0..(HeapSize - 1) : bitmap[j] = USED}
    BY DEF HeapInv, BitmapExact
  <2> HIDE DEF new
  <2>2. {j \in 0..(HeapSize - 1) : bitmap'[j] = USED}
          = {j \in 0..(HeapSize - 1) : bitmap[j] = USED} \cup new
    BY <1>5, <1>6
  <2> QED  BY <1>8, <2>1, <2>2 DEF BitmapExact
<1>11. \A v \in DOMAIN runs : Indices(v, runs[v]) \cap new = {}
  <2>1. \A v \in DOMAIN runs : Indices(v, runs[v]) \subseteq Allotted
    BY DEF Allotted
  <2>2. Allotted = {j \in 0..(HeapSize - 1) : bitmap[j] = USED}
    BY DEF HeapInv, BitmapExact
  <2>3. new \cap Allotted = {}
    <3> HIDE DEF new
    <3> QED  BY <1>6, <2>2 DEF FREE, USED
  <2> HIDE DEF new
  <2> QED  BY <2>1, <2>3
<1>12. IndicesApart'
  <2> HIDE DEF new
  <2> QED  BY <1>3, <1>7, <1>11 DEF HeapInv, IndicesApart
<1> QED  BY <1>9, <1>10, <1>12 DEF HeapInv

(* heap_alloc hands its run over: the indices stay marked. *)
LEMMA AllocReturnStep ==
  ASSUME HeapInv, AllocReturn
  PROVE  HeapInv'
<1>1. /\ pc = "map" /\ pc' = "idle" /\ bitmap' = bitmap
      /\ runs' = [v \in DOMAIN runs \cup {addr} |-> IF v = addr THEN number ELSE runs[v]]
  BY DEF AllocReturn
<1>2. /\ addr \in 1..StartPage /\ number \in RunLengths /\ number \in Nat \ {0}
      /\ StartPage \in Nat
  BY <1>1, KernelHeapAssumption DEF HeapInv, HeapTypes
<1>3. addr \notin DOMAIN runs
  <2> SUFFICES ASSUME addr \in DOMAIN runs  PROVE FALSE
    OBVIOUS
  <2>1. runs[addr] \in Nat \ {0}
    BY KernelHeapAssumption DEF HeapInv, HeapTypes
  <2>2. StartPage - addr \in Indices(addr, runs[addr]) \cap Indices(addr, number)
    BY <1>2, <2>1 DEF Indices
  <2> QED  BY <1>1, <2>2 DEF HeapInv, IndicesApart
<1>4. /\ DOMAIN runs' = DOMAIN runs \cup {addr} /\ runs'[addr] = number
      /\ \A v \in DOMAIN runs : runs'[v] = runs[v]
  BY <1>1, <1>3
<1>5. HeapTypes'
  BY <1>1, <1>2, <1>4 DEF HeapInv, HeapTypes
<1>6. Allotted' = Allotted
  BY <1>1, <1>4 DEF Allotted
<1>7. BitmapExact'
  BY <1>1, <1>6 DEF HeapInv, BitmapExact
<1>8. IndicesApart'
  BY <1>1, <1>4 DEF HeapInv, IndicesApart
<1> QED  BY <1>5, <1>7, <1>8 DEF HeapInv

(* heap_free clears the indices of the run and no other. *)
LEMMA FreeStep ==
  ASSUME HeapInv, NEW v \in DOMAIN runs, heap_free(v)
  PROVE  HeapInv'
<1> DEFINE n == runs[v]
           old == Indices(v, n)
<1>1. /\ v \in 1..StartPage /\ n \in RunLengths /\ n \in Nat \ {0}
      /\ StartPage \in Nat /\ HeapSize \in Nat /\ StartPage + n <= HeapSize
  BY KernelHeapAssumption DEF HeapInv, HeapTypes
<1>2. /\ pc = "idle" /\ pc' = "unmap"
      /\ runs' = [u \in DOMAIN runs \ {v} |-> runs[u]]
      /\ bitmap' = bitmap_map(StartPage - v, StartPage - v + n, FREE, bitmap, HeapSize)
  BY DEF heap_free
<1>3. bitmap \in [0..(HeapSize - 1) -> {FREE, USED}]
  BY DEF HeapInv, HeapTypes
<1>4. /\ bitmap' \in [0..(HeapSize - 1) -> {FREE, USED}]
      /\ \A j \in 0..(HeapSize - 1) :
           bitmap'[j] = IF j \in old THEN FREE ELSE bitmap[j]
  <2> HIDE DEF n
  <2> QED  BY <1>1, <1>2, <1>3 DEF bitmap_map, Indices, FREE, USED
<1>5. /\ DOMAIN runs' = DOMAIN runs \ {v}
      /\ \A u \in DOMAIN runs \ {v} : runs'[u] = runs[u]
  BY <1>2
<1>6. HeapTypes'
  BY <1>2, <1>4, <1>5 DEF HeapInv, HeapTypes
<1>7. \A u \in DOMAIN runs \ {v} : Indices(u, runs[u]) \cap old = {}
  BY DEF HeapInv, IndicesApart
<1>8. /\ Allotted = UNION {Indices(u, runs[u]) : u \in DOMAIN runs}
      /\ Allotted' = UNION {Indices(u, runs[u]) : u \in DOMAIN runs \ {v}}
  BY <1>2, <1>5 DEF Allotted
<1>9. Allotted' = Allotted \ old
  BY <1>7, <1>8
<1>10. BitmapExact'
  <2>1. Allotted = {j \in 0..(HeapSize - 1) : bitmap[j] = USED}
    BY DEF HeapInv, BitmapExact
  <2> HIDE DEF old
  <2>2. {j \in 0..(HeapSize - 1) : bitmap'[j] = USED}
          = {j \in 0..(HeapSize - 1) : bitmap[j] = USED} \ old
    BY <1>4 DEF FREE, USED
  <2> QED  BY <1>9, <2>1, <2>2 DEF BitmapExact
<1>11. IndicesApart'
  BY <1>2, <1>5 DEF HeapInv, IndicesApart
<1> QED  BY <1>6, <1>10, <1>11 DEF HeapInv

(* The invariant is about the bitmap and the runs only. *)
LEMMA SameHeap ==
  ASSUME HeapInv, UNCHANGED <<bitmap, runs>>,
         UNCHANGED <<pc, addr, number>> \/ (pc = "unmap" /\ pc' = "idle")
  PROVE  HeapInv'
<1>1. HeapTypes'
  BY DEF HeapInv, HeapTypes
<1>2. Allotted' = Allotted
  BY DEF Allotted, HeapInv, HeapTypes
<1>3. BitmapExact'
  BY <1>2 DEF HeapInv, BitmapExact
<1>4. IndicesApart'
  BY DEF HeapInv, IndicesApart
<1> QED  BY <1>1, <1>3, <1>4 DEF HeapInv

(* The invariant holds in every state of the heap. *)
THEOREM HeapInvariance == Spec => []HeapInv
<1>1. Init => HeapInv
  BY KernelHeapAssumption
     DEF Init, HeapInv, HeapTypes, BitmapExact, IndicesApart, Allotted, FREE, USED
<1>2. HeapInv /\ [Next]_vars => HeapInv'
  <2> SUFFICES ASSUME HeapInv, [Next]_vars  PROVE HeapInv'
    OBVIOUS
  <2>1. CASE \E n \in RunLengths : heap_alloc(n) \/ heap_alloc_null(n)
    BY <2>1, AllocStep, SameHeap DEF heap_alloc_null, vars
  <2>2. CASE \E v \in DOMAIN runs : heap_free(v)
    BY <2>2, FreeStep
  <2>3. CASE MapPage \/ UnmapPage \/ FreeReturn
    BY <2>3, SameHeap DEF MapPage, UnmapPage, FreeReturn
  <2>4. CASE AllocReturn
    BY <2>4, AllocReturnStep
  <2>5. CASE UNCHANGED vars
    BY <2>5, SameHeap DEF vars
  <2> QED  BY <2>1, <2>2, <2>3, <2>4, <2>5 DEF Next, Running
<1> QED  BY <1>1, <1>2, PTL DEF Spec

-----------------------------------------------------------------------------
(* The rest of the types: where the loops of heap_alloc and heap_free are. *)
LoopTypes ==
  /\ pt \in [0..(TablePages - 1) -> 0..(AddrPages - 1) \cup {None}]
  /\ frame \in [0..FrameCount -> {FREE, USED}]
  /\ addr \in 0..StartPage /\ number \in RunLengths \cup {0}
  /\ i \in 0..(AddrPages - 1) /\ freed \in BOOLEAN
  /\ pc = "map" => i \in addr..(addr + number)
  /\ pc = "unmap" => number \in RunLengths /\ (i <= addr \/ i = AddrPages - 1)

(* frame_find gives a frame of the address space, also if none is free. *)
LEMMA FrameInRange == frame_find \in 0..(AddrPages - 1)
<1> DEFINE k == bitmap_entrie_find(1, FREE, frame, FrameCount)
<1>1. FrameCount \in Nat /\ AddrPages \in Nat /\ FrameCount < AddrPages - 1
  BY KernelHeapAssumption
<1>2. k = -1 \/ k \in 0..FrameCount
  BY <1>1, FindRun
<1>3. frame_find = k % AddrPages
  BY DEF frame_find
<1> HIDE DEF k
<1>4. k \in Int /\ -AddrPages <= k /\ k < AddrPages
  BY <1>1, <1>2
<1>5. k % AddrPages = IF k >= 0 THEN k ELSE k + AddrPages
  BY <1>1, <1>4, WrapAround
<1> QED  BY <1>1, <1>2, <1>3, <1>4, <1>5

(* The constants, as the steps below need them. *)
LEMMA Sizes ==
  ASSUME NEW n \in RunLengths
  PROVE  /\ StartPage \in Nat \ {0} /\ TablePages \in Nat /\ AddrPages \in Nat /\ n \in Nat \ {0}
         /\ StartPage + n <= TablePages /\ TablePages < AddrPages
  BY KernelHeapAssumption

(* A mark in the frame bitmap keeps its type, wherever the index points. *)
LEMMA MarkTypes ==
  ASSUME LoopTypes, NEW f, NEW value \in {FREE, USED}
  PROVE  FrameMarked(f, value) \in [0..FrameCount -> {FREE, USED}]
  BY DEF LoopTypes, FrameMarked

(* One turn of the loop of heap_alloc. *)
LEMMA MapTypes ==
  ASSUME HeapInv, LoopTypes, MapPage
  PROVE  LoopTypes'
<1>1. /\ pc = "map" /\ pc' = pc /\ addr' = addr /\ number' = number /\ freed' = freed
      /\ i < addr + number /\ i' = i + 1
      /\ frame' = FrameMarked(frame_find, USED) /\ pt' = [pt EXCEPT ![i] = frame_find]
  BY DEF MapPage, page_map
<1>2. addr \in 1..StartPage /\ number \in RunLengths /\ i \in addr..(addr + number)
  BY <1>1 DEF HeapInv, HeapTypes, LoopTypes
<1>3. /\ StartPage \in Nat \ {0} /\ TablePages \in Nat /\ AddrPages \in Nat /\ number \in Nat \ {0}
      /\ StartPage + number <= TablePages /\ TablePages < AddrPages
  BY <1>2, Sizes
<1>4. i + 1 \in addr..(addr + number) /\ i + 1 \in 0..(AddrPages - 1)
  BY <1>1, <1>2, <1>3
<1>5. frame' \in [0..FrameCount -> {FREE, USED}]
  BY <1>1, MarkTypes
<1>6. pt' \in [0..(TablePages - 1) -> 0..(AddrPages - 1) \cup {None}]
  BY <1>1, FrameInRange DEF LoopTypes
<1> QED  BY <1>1, <1>4, <1>5, <1>6 DEF LoopTypes

(* One turn of the loop of heap_free, which may wrap around. *)
LEMMA UnmapTypes ==
  ASSUME HeapInv, LoopTypes, UnmapPage
  PROVE  LoopTypes'
<1>1. /\ pc = "unmap" /\ pc' = pc /\ addr' = addr /\ number' = number /\ freed' = freed
      /\ i < addr + number /\ i' = (i - 1) % AddrPages
      /\ frame' = FrameMarked(page_physaddr(i), FREE) /\ pt' = [pt EXCEPT ![i] = None]
  BY DEF UnmapPage, page_unmap
<1>2. /\ addr \in 0..StartPage /\ number \in RunLengths /\ i \in 0..(AddrPages - 1)
      /\ i <= addr \/ i = AddrPages - 1
  BY <1>1 DEF LoopTypes
<1>3. /\ StartPage \in Nat \ {0} /\ TablePages \in Nat /\ AddrPages \in Nat /\ number \in Nat \ {0}
      /\ StartPage + number <= TablePages /\ TablePages < AddrPages
  BY <1>2, Sizes
<1>4. i' = IF i - 1 >= 0 THEN i - 1 ELSE i - 1 + AddrPages
  <2>1. i - 1 \in Int /\ -AddrPages <= i - 1 /\ i - 1 < AddrPages
    BY <1>2, <1>3
  <2>2. (i - 1) % AddrPages = IF i - 1 >= 0 THEN i - 1 ELSE i - 1 + AddrPages
    BY <1>3, <2>1, WrapAround
  <2> QED  BY <1>1, <2>2
<1>5. i' \in 0..(AddrPages - 1) /\ (i' <= addr \/ i' = AddrPages - 1)
  BY <1>1, <1>2, <1>3, <1>4
<1>6. frame' \in [0..FrameCount -> {FREE, USED}]
  BY <1>1, MarkTypes
<1>7. pt' \in [0..(TablePages - 1) -> 0..(AddrPages - 1) \cup {None}]
  BY <1>1 DEF LoopTypes
<1> QED  BY <1>1, <1>2, <1>5, <1>6, <1>7 DEF LoopTypes

(* The other steps set the loop up or end it. *)
LEMMA CallTypes ==
  ASSUME HeapInv, LoopTypes,
         \/ \E n \in RunLengths : heap_alloc(n) \/ heap_alloc_null(n)
         \/ \E v \in DOMAIN runs : heap_free(v)
         \/ AllocReturn \/ FreeReturn \/ UNCHANGED vars
  PROVE  LoopTypes'
<1>1. CASE \E n \in RunLengths : heap_alloc(n)
  <2>1. PICK n \in RunLengths : heap_alloc(n)
    BY <1>1
  <2>2. /\ addr' = AddrOf(n) /\ addr' \in 1..StartPage /\ i' = addr' /\ number' = n
        /\ pc' = "map" /\ UNCHANGED <<frame, pt, freed>>
    BY <2>1, FoundInside DEF heap_alloc
  <2>3. i' \in addr'..(addr' + number') /\ i' \in 0..(AddrPages - 1)
    BY <2>2, Sizes
  <2> QED  BY <2>2, <2>3 DEF LoopTypes
<1>2. CASE \E v \in DOMAIN runs : heap_free(v)
  <2>1. PICK v \in DOMAIN runs : heap_free(v)
    BY <1>2
  <2>2. v \in 1..StartPage /\ runs[v] \in RunLengths
    BY DEF HeapInv, HeapTypes
  <2>3. /\ addr' = v /\ i' = v /\ number' = runs[v] /\ freed' = TRUE
        /\ pc' = "unmap" /\ UNCHANGED <<frame, pt>>
    BY <2>1 DEF heap_free
  <2>4. v \in 0..StartPage /\ v \in 0..(AddrPages - 1) /\ v <= v
    BY <2>2, Sizes
  <2> QED  BY <2>2, <2>3, <2>4 DEF LoopTypes
<1>3. CASE AllocReturn \/ FreeReturn
  <2>1. /\ pc' = "idle" /\ addr' = 0 /\ number' = 0 /\ i' = 0
        /\ UNCHANGED <<frame, pt, freed>>
    BY <1>3 DEF AllocReturn, FreeReturn
  <2>2. 0 \in 0..StartPage /\ 0 \in 0..(AddrPages - 1)
    BY KernelHeapAssumption
  <2> QED  BY <2>1, <2>2 DEF LoopTypes
<1>4. CASE UNCHANGED vars \/ \E n \in RunLengths : heap_alloc_null(n)
  BY <1>4 DEF heap_alloc_null, vars, LoopTypes
<1> QED  BY <1>1, <1>2, <1>3, <1>4

(* The loops stay in range, for every heap and every size of the address space. *)
THEOREM LoopInvariance == Spec => []LoopTypes
<1>1. Init => LoopTypes
  <2> SUFFICES ASSUME Init  PROVE LoopTypes
    OBVIOUS
  <2>1. /\ StartPage \in Nat \ {0} /\ TablePages \in Nat /\ AddrPages \in Nat
        /\ TablePages < AddrPages
    BY KernelHeapAssumption
  <2>2. pt \in [0..(TablePages - 1) -> 0..(AddrPages - 1) \cup {None}]
    BY <2>1 DEF Init
  <2>3. 0 \in 0..StartPage /\ 0 \in 0..(AddrPages - 1)
    BY <2>1
  <2> QED  BY <2>2, <2>3 DEF Init, LoopTypes
<1>2. HeapInv /\ LoopTypes /\ [Next]_vars => LoopTypes'
  BY MapTypes, UnmapTypes, CallTypes DEF Next, Running
<1> QED  BY <1>1, <1>2, HeapInvariance, PTL DEF Spec

(* heap->bitmap is exact after any sequence of heap_alloc and heap_free, no index
   is given to two runs, and pages, frames and the loops' counters stay in range:
   the walk of heap_free ends at the first page below 0. *)
THEOREM HeapCorrect == Spec => []HeapOK
<1>1. HeapInv /\ LoopTypes => HeapOK
  BY DEF HeapInv, HeapTypes, LoopTypes, HeapOK, TypeOK
<1> QED  BY <1>1, HeapInvariance, LoopInvariance, PTL

-----------------------------------------------------------------------------
(* Frames, before anything has been freed.                                 *)

(* The pages that are backed: those callers own, and those the loop of
   heap_alloc has mapped. *)
Backed == Owned \cup (IF pc = "map" THEN addr..(i - 1) ELSE {})

(* Each page of D has a frame of its own, marked, and not the kernel's. *)
Disjoint(D) ==
  /\ \A v \in D : /\ pt[v] \in (KernelPages + 2)..(FrameCount - 1)
                  /\ frame[pt[v]] = USED
  /\ \A v, w \in D : v # w => pt[v] # pt[w]

(* The kernel's frames stay marked; while a frame is left, what is backed is
   backed by frames of its own.  The run being mapped counts: its pages may be
   mapped over those of a neighbour, which then share the new frame. *)
FrameInv ==
  ~freed =>
    /\ pc # "unmap"
    /\ \A f \in 0..(KernelPages + 1) : frame[f] = USED
    /\ (\E f \in 0..(FrameCount - 1) : frame[f] = FREE) => Disjoint(Backed)

(* frame_find gives the first free frame, if there is one. *)
LEMMA FrameFindFree ==
  ASSUME LoopTypes, NEW f \in 0..(FrameCount - 1), frame[f] = FREE
  PROVE  frame_find \in 0..(FrameCount - 1) /\ frame[frame_find] = FREE
<1> DEFINE found == {k \in 0..FrameCount : RunAt(frame, k, 1, FREE)}
           least == bitmap_entrie_find(1, FREE, frame, FrameCount)
<1>1. FrameCount \in Nat /\ AddrPages \in Nat /\ FrameCount < AddrPages - 1
  BY KernelHeapAssumption
<1>2. frame \in [0..FrameCount -> {FREE, USED}]
  BY DEF LoopTypes
<1>3. \A k \in 0..FrameCount : RunAt(frame, k, 1, FREE) <=> frame[k] = FREE
  BY <1>1, <1>2 DEF RunAt
<1>4. f \in found /\ found \in SUBSET Nat
  BY <1>1, <1>3
<1>5. least = CHOOSE k \in found : \A l \in found : k <= l
  BY <1>4 DEF bitmap_entrie_find
<1>6. \E x \in found : \A y \in found : x <= y
  <2> HIDE DEF found
  <2> QED  BY <1>4, LeastElement
<1>7. least \in found /\ least <= f
  <2> HIDE DEF found, least
  <2> QED  BY <1>4, <1>5, <1>6
<1>8. least \in 0..(FrameCount - 1) /\ frame[least] = FREE
  BY <1>1, <1>3, <1>7
<1>9. frame_find = least
  <2>1. frame_find = least % AddrPages
    BY DEF frame_find
  <2> HIDE DEF least
  <2>2. least \in Int /\ -AddrPages <= least /\ least < AddrPages /\ least >= 0
    BY <1>1, <1>8
  <2> QED  BY <1>1, <2>1, <2>2, WrapAround
<1> QED  BY <1>8, <1>9

(* Pages callers own lie in the first table. *)
LEMMA BackedInTable ==
  ASSUME HeapInv, LoopTypes
  PROVE  Backed \subseteq 0..(TablePages - 1)
<1>1. \A v \in DOMAIN runs : PagesIn(v, runs[v]) \subseteq 0..(TablePages - 1)
  <2> SUFFICES ASSUME NEW v \in DOMAIN runs, NEW x \in PagesIn(v, runs[v])
               PROVE  x \in 0..(TablePages - 1)
    OBVIOUS
  <2>1. v \in 1..StartPage /\ runs[v] \in RunLengths
    BY DEF HeapInv, HeapTypes
  <2> DEFINE n == runs[v]
  <2>2. /\ StartPage \in Nat \ {0} /\ TablePages \in Nat /\ n \in Nat \ {0}
        /\ StartPage + n <= TablePages
    BY <2>1, Sizes
  <2>3. x \in v..(v + n - 1)
    BY DEF PagesIn
  <2> HIDE DEF n
  <2> QED  BY <2>1, <2>2, <2>3
<1>2. pc = "map" => addr..(i - 1) \subseteq 0..(TablePages - 1)
  <2> SUFFICES ASSUME pc = "map", NEW x \in addr..(i - 1)  PROVE x \in 0..(TablePages - 1)
    OBVIOUS
  <2>1. addr \in 1..StartPage /\ number \in RunLengths /\ i \in addr..(addr + number)
    BY DEF HeapInv, HeapTypes, LoopTypes
  <2>2. /\ StartPage \in Nat \ {0} /\ TablePages \in Nat /\ number \in Nat \ {0}
        /\ StartPage + number <= TablePages
    BY <2>1, Sizes
  <2> QED  BY <2>1, <2>2
<1> QED  BY <1>1, <1>2 DEF Backed, Owned

(* A page is mapped to the first free frame: no backed page had it. *)
LEMMA MapFrames ==
  ASSUME HeapInv, LoopTypes, FrameInv, MapPage
  PROVE  FrameInv'
<1> SUFFICES ASSUME ~freed
             PROVE  /\ pc' # "unmap"
                    /\ \A f \in 0..(KernelPages + 1) : frame'[f] = USED
                    /\ (\E f \in 0..(FrameCount - 1) : frame'[f] = FREE) => Disjoint(Backed)'
  BY DEF FrameInv, MapPage
<1> DEFINE new == frame_find
<1>1. /\ pc = "map" /\ pc' = pc /\ addr' = addr /\ runs' = runs
      /\ i < addr + number /\ i' = i + 1
      /\ frame' = FrameMarked(new, USED) /\ pt' = [pt EXCEPT ![i] = new]
  BY DEF MapPage, page_map
<1>2. /\ frame \in [0..FrameCount -> {FREE, USED}]
      /\ pt \in [0..(TablePages - 1) -> 0..(AddrPages - 1) \cup {None}]
      /\ FrameCount \in Nat /\ KernelPages \in Nat /\ KernelPages + 2 <= FrameCount
  BY KernelHeapAssumption DEF LoopTypes
<1>3. \A f \in 0..FrameCount : frame'[f] = IF f = new THEN USED ELSE frame[f]
  <2> HIDE DEF new
  <2> QED  BY <1>1, <1>2 DEF FrameMarked
<1>4. \A f \in 0..(KernelPages + 1) : frame[f] = USED /\ frame'[f] = USED
  <2> HIDE DEF new
  <2> QED  BY <1>2, <1>3 DEF FrameInv
<1>5. Backed' = Backed \cup {i}
  <2>1. Owned' = Owned
    BY <1>1 DEF Owned
  <2>2. addr \in Int /\ i \in Int /\ addr <= i
    BY <1>1, KernelHeapAssumption DEF LoopTypes
  <2>3. addr..(i + 1 - 1) = (addr..(i - 1)) \cup {i}
    BY <2>2
  <2> QED  BY <1>1, <2>1, <2>3 DEF Backed
<1>6. i \in 0..(TablePages - 1)
  <2>1. addr \in 1..StartPage /\ number \in RunLengths /\ i \in addr..(addr + number)
    BY <1>1 DEF HeapInv, HeapTypes, LoopTypes
  <2> QED  BY <1>1, <2>1, Sizes
<1>7. ASSUME NEW f \in 0..(FrameCount - 1), frame'[f] = FREE  PROVE Disjoint(Backed)'
  <2>1. frame[f] = FREE
    <3> HIDE DEF new
    <3> QED  BY <1>2, <1>3, <1>7 DEF FREE, USED
  <2>2. new \in 0..(FrameCount - 1) /\ frame[new] = FREE
    BY <2>1, FrameFindFree
  <2>3. Disjoint(Backed)
    BY <2>1 DEF FrameInv
  <2>4. Backed \subseteq 0..(TablePages - 1)
    BY BackedInTable
  <2> HIDE DEF new
  <2>5. new \in (KernelPages + 2)..(FrameCount - 1)
    <3>1. ~(new \in 0..(KernelPages + 1))
      BY <1>4, <2>2 DEF FREE, USED
    <3> QED  BY <1>2, <2>2, <3>1
  <2>6. pt'[i] = new /\ \A v \in Backed : v # i => pt'[v] = pt[v]
    BY <1>1, <1>2, <1>6, <2>4
  <2>7. \A v \in Backed : /\ pt[v] \in (KernelPages + 2)..(FrameCount - 1)
                          /\ frame[pt[v]] = USED
    BY <2>3 DEF Disjoint
  <2>8. \A v \in Backed : pt[v] # new
    BY <2>2, <2>7 DEF FREE, USED
  <2>9. \A v \in Backed : pt[v] \in 0..FrameCount
    BY <1>2, <2>7
  <2>10. frame'[new] = USED /\ \A v \in Backed : frame'[pt[v]] = USED
    BY <1>2, <1>3, <2>2, <2>7, <2>9
  <2>11. \A v \in Backed \cup {i} : /\ pt'[v] \in (KernelPages + 2)..(FrameCount - 1)
                                    /\ frame'[pt'[v]] = USED
    BY <2>5, <2>6, <2>7, <2>10
  <2>12. \A v, w \in Backed \cup {i} : v # w => pt'[v] # pt'[w]
    <3>1. \A v, w \in Backed : v # w => pt[v] # pt[w]
      BY <2>3 DEF Disjoint
    <3> QED  BY <2>6, <2>8, <3>1
  <2> QED  BY <1>5, <2>11, <2>12 DEF Disjoint
<1> QED  BY <1>1, <1>4, <1>7

(* heap_alloc hands over the pages it has mapped. *)
LEMMA ReturnFrames ==
  ASSUME HeapInv, LoopTypes, FrameInv, AllocReturn
  PROVE  FrameInv'
<1>1. /\ pc = "map" /\ pc' = "idle" /\ UNCHANGED <<frame, pt, freed>> /\ ~(i < addr + number)
      /\ runs' = [v \in DOMAIN runs \cup {addr} |-> IF v = addr THEN number ELSE runs[v]]
  BY DEF AllocReturn
<1>2. addr \in 1..StartPage /\ number \in RunLengths /\ i \in addr..(addr + number)
  BY <1>1 DEF HeapInv, HeapTypes, LoopTypes
<1>3. number \in Nat \ {0} /\ StartPage \in Nat
  BY <1>2, Sizes
<1>4. i - 1 = addr + number - 1
  BY <1>1, <1>2, <1>3
<1>5. DOMAIN runs' = DOMAIN runs \cup {addr} /\ runs'[addr] = number
      /\ \A v \in DOMAIN runs \ {addr} : runs'[v] = runs[v]
  BY <1>1
<1>6. Backed' = Owned'
  BY <1>1 DEF Backed
<1>7. \A x \in Owned' : x \in Backed
  <2> SUFFICES ASSUME NEW v \in DOMAIN runs', NEW x \in PagesIn(v, runs'[v])
               PROVE  x \in Backed
    BY DEF Owned
  <2>1. CASE v = addr
    <3>1. x \in addr..(addr + number - 1)
      BY <1>5, <2>1 DEF PagesIn
    <3>2. x \in addr..(i - 1)
      BY <1>4, <3>1
    <3> QED  BY <1>1, <3>2 DEF Backed
  <2>2. CASE v # addr
    <3>1. v \in DOMAIN runs /\ runs'[v] = runs[v]
      BY <1>5, <2>2
    <3> QED  BY <3>1 DEF Backed, Owned
  <2> QED  BY <2>1, <2>2
<1>8. Disjoint(Backed) => Disjoint(Backed)'
  BY <1>1, <1>6, <1>7 DEF Disjoint
<1> QED  BY <1>1, <1>8 DEF FrameInv

(* The other steps map nothing. *)
LEMMA CallFrames ==
  ASSUME HeapInv, LoopTypes, FrameInv,
         \/ \E n \in RunLengths : heap_alloc(n) \/ heap_alloc_null(n)
         \/ \E v \in DOMAIN runs : heap_free(v)
         \/ UnmapPage \/ FreeReturn \/ UNCHANGED vars
  PROVE  FrameInv'
<1>1. CASE \E n \in RunLengths : heap_alloc(n)
  <2>1. PICK n \in RunLengths : heap_alloc(n)
    BY <1>1
  <2>2. /\ pc = "idle" /\ pc' = "map" /\ UNCHANGED <<frame, pt, runs, freed>>
        /\ i' = addr' /\ addr' \in 1..StartPage
    BY <2>1, FoundInside DEF heap_alloc
  <2>3. addr'..(i' - 1) = {}
    <3>1. StartPage \in Nat /\ addr' \in Int
      BY <2>2, KernelHeapAssumption
    <3>2. \A x \in Int : x..(x - 1) = {}
      OBVIOUS
    <3>3. i' = addr'
      BY <2>2
    <3> QED  BY <3>1, <3>2, <3>3
  <2>4. Owned' = Owned
    BY <2>2 DEF Owned
  <2>5. Backed' = Backed
    BY <2>2, <2>3, <2>4 DEF Backed
  <2> QED  BY <2>2, <2>5 DEF FrameInv, Disjoint
<1>2. CASE \E v \in DOMAIN runs : heap_free(v)
  BY <1>2 DEF heap_free, FrameInv
<1>3. CASE UnmapPage \/ FreeReturn
  BY <1>3 DEF UnmapPage, FreeReturn, FrameInv
<1>4. CASE UNCHANGED vars \/ \E n \in RunLengths : heap_alloc_null(n)
  BY <1>4 DEF heap_alloc_null, vars, FrameInv, Disjoint, Backed, Owned, PagesIn
<1> QED  BY <1>1, <1>2, <1>3, <1>4

(* Until the first heap_free or until frames run out, heap_alloc backs every
   page it hands out with a frame of its own that is not the kernel's, for every
   number of frames and every order of calls. *)
THEOREM FramesOwn == Spec => []OwnFrames
<1>1. Init => FrameInv
  <2> SUFFICES ASSUME Init  PROVE FrameInv
    OBVIOUS
  <2>1. \A f \in 0..(KernelPages + 1) : frame[f] = USED
    BY KernelHeapAssumption DEF Init
  <2>2. Backed = {}
    BY DEF Init, Backed, Owned
  <2> QED  BY <2>1, <2>2 DEF Init, FrameInv, Disjoint
<1>2. HeapInv /\ LoopTypes /\ FrameInv /\ [Next]_vars => FrameInv'
  BY MapFrames, ReturnFrames, CallFrames DEF Next, Running
<1>3. FrameInv => OwnFrames
  BY DEF FrameInv, Disjoint, Backed, OwnFrames
<1> QED  BY <1>1, <1>2, <1>3, HeapInvariance, LoopInvariance, PTL DEF Spec
=============================================================================
