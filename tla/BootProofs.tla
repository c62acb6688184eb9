----------------------------- MODULE BootProofs -----------------------------
(***************************************************************************)
(* Boot, for every size of memory, kernel and image that its assumptions   *)
(* allow: nothing is written to kernel or image, the structures that lie   *)
(* in one another keep what is needed of them, frames are apart, and the   *)
(* mappings are right.                                                     *)
(***************************************************************************)
EXTENDS Boot, FiniteSetTheorems, WellFoundedInduction, TLAPS

-----------------------------------------------------------------------------
(* Words in memory.                                                        *)

(* The word at a of memory m, and the address that a word stands for. *)
WordAt(m, a) == [k \in 0..3 |-> IF a + k \in DOMAIN m THEN m[a + k] ELSE 0]
AddressOf(w) ==
  IF w[3] >= 128 THEN -1 ELSE w[0] + 256 * w[1] + 65536 * w[2] + 16777216 * w[3]

(* What Load and Pointer of the model read. *)
LEMMA Loads ==
  ASSUME NEW a
  PROVE  Load(a) = WordAt(memory, a) /\ Pointer(a) = AddressOf(WordAt(memory, a))
BY SMT DEF Load, Pointer, WordAt, AddressOf

TwoGB == 2147483648
SixtyFourK == 65536
SixteenMB == 16777216

(* The four bytes of a number, *)
LEMMA FourBytes ==
  ASSUME NEW v \in Nat
  PROVE  /\ ByteOf(v, 0) = v % 256
         /\ ByteOf(v, 1) = (v \div 256) % 256
         /\ ByteOf(v, 2) = (v \div SixtyFourK) % 256
         /\ ByteOf(v, 3) = (v \div SixteenMB) % 256
<1>1. 256^0 = 1 /\ 256^1 = 256 /\ 256^2 = SixtyFourK /\ 256^3 = SixteenMB
  BY SMT DEF SixtyFourK, SixteenMB
<1>2. ByteOf(v, 0) = v % 256
  BY <1>1, SMT DEF ByteOf
<1>3. ByteOf(v, 1) = (v \div 256) % 256
  BY <1>1, SMT DEF ByteOf
<1>4. ByteOf(v, 2) = (v \div SixtyFourK) % 256
  BY <1>1, SMT DEF ByteOf
<1>5. ByteOf(v, 3) = (v \div SixteenMB) % 256
  BY <1>1, SMT DEF ByteOf
<1> QED BY <1>2, <1>3, <1>4, <1>5, SMT

(* which give it back if it is below 2 GB, *)
LEMMA AddressBack ==
  ASSUME NEW v \in Nat, v < TwoGB
  PROVE  AddressOf(Bytes(v)) = v
<1>1. /\ Bytes(v)[0] = v % 256 /\ Bytes(v)[1] = (v \div 256) % 256
      /\ Bytes(v)[2] = (v \div SixtyFourK) % 256 /\ Bytes(v)[3] = (v \div SixteenMB) % 256
  <2>1. /\ Bytes(v)[0] = ByteOf(v, 0) /\ Bytes(v)[1] = ByteOf(v, 1)
        /\ Bytes(v)[2] = ByteOf(v, 2) /\ Bytes(v)[3] = ByteOf(v, 3)
    BY SMT DEF Bytes
  <2> QED BY <2>1, FourBytes
<1> QED BY <1>1, SMT DEF AddressOf, TwoGB, SixtyFourK, SixteenMB

(* so that two numbers do not have the same bytes. *)
LEMMA BytesDiffer ==
  ASSUME NEW v \in Nat, v < TwoGB, NEW u \in Nat, u < TwoGB, Bytes(v) = Bytes(u)
  PROVE  v = u
BY AddressBack

(* Bytes are bytes. *)
LEMMA ByteRange ==
  ASSUME NEW v \in Nat, NEW k \in 0..3
  PROVE  ByteOf(v, k) \in 0..255
<1>1. /\ ByteOf(v, 0) = v % 256
      /\ ByteOf(v, 1) = (v \div 256) % 256
      /\ ByteOf(v, 2) = (v \div SixtyFourK) % 256
      /\ ByteOf(v, 3) = (v \div SixteenMB) % 256
  BY FourBytes, Zenon
<1>2. /\ ByteOf(v, 0) \in 0..255 /\ ByteOf(v, 1) \in 0..255
      /\ ByteOf(v, 2) \in 0..255 /\ ByteOf(v, 3) \in 0..255
  BY <1>1, SMT DEF SixtyFourK, SixteenMB
<1>3. k = 0 \/ k = 1 \/ k = 2 \/ k = 3
  OBVIOUS
<1> QED BY <1>2, <1>3

(* A stored word is the word at its address, *)
LEMMA StoredThere ==
  ASSUME NEW m, NEW a \in Nat, NEW v
  PROVE  WordAt(Store(m, a, v), a) = Bytes(v)
<1>1. ASSUME NEW k \in 0..3
      PROVE  WordAt(Store(m, a, v), a)[k] = Bytes(v)[k]
  <2>1. a + k \in a..(a + 3) /\ (a + k) - a = k
    OBVIOUS
  <2>2. a + k \in DOMAIN Store(m, a, v) /\ Store(m, a, v)[a + k] = ByteOf(v, (a + k) - a)
    BY <2>1 DEF Store
  <2> QED BY <2>1, <2>2 DEF WordAt, Bytes
<1> QED BY <1>1 DEF WordAt, Bytes

(* and changes no word that is apart from it. *)
LEMMA StoredElsewhere ==
  ASSUME NEW m, NEW a \in Nat, NEW v, NEW c \in Int, c + 4 <= a \/ a + 4 <= c
  PROVE  WordAt(Store(m, a, v), c) = WordAt(m, c)
<1>1. ASSUME NEW k \in 0..3
      PROVE  WordAt(Store(m, a, v), c)[k] = WordAt(m, c)[k]
  <2>1. c + k \notin a..(a + 3)
    OBVIOUS
  <2>2. c + k \in DOMAIN Store(m, a, v) <=> c + k \in DOMAIN m
    BY <2>1 DEF Store
  <2>3. c + k \in DOMAIN m => Store(m, a, v)[c + k] = m[c + k]
    BY <2>1 DEF Store
  <2> QED BY <2>2, <2>3 DEF WordAt
<1> QED BY <1>1 DEF WordAt

(* So does filling, which leaves the bytes that are kept the same ones. *)
LEMMA FilledElsewhere ==
  ASSUME NEW m, NEW a \in Int, NEW n \in Nat, NEW v, NEW c \in Int,
         \A b \in DOMAIN m : b \in Int,
         c + 4 <= a \/ a + 4 * n <= c
  PROVE  WordAt(Fill(m, a, n, v), c) = WordAt(m, c)
<1>1. ASSUME NEW k \in 0..3
      PROVE  WordAt(Fill(m, a, n, v), c)[k] = WordAt(m, c)[k]
  <2>1. ~(a <= c + k /\ c + k < a + 4 * n)
    OBVIOUS
  <2>2. c + k \in DOMAIN Fill(m, a, n, v) <=> c + k \in DOMAIN m
    BY DEF Fill
  <2>3. c + k \in DOMAIN m => Fill(m, a, n, v)[c + k] = m[c + k]
    BY <2>1 DEF Fill
  <2> QED BY <2>2, <2>3 DEF WordAt
<1> QED BY <1>1 DEF WordAt

(* A word none of whose bytes is kept reads as 0. *)
LEMMA NotKept ==
  ASSUME NEW m, NEW a \in Int, \A k \in 0..3 : a + k \notin DOMAIN m
  PROVE  WordAt(m, a) = Bytes(0)
<1>1. ASSUME NEW k \in 0..3 PROVE Bytes(0)[k] = 0
  <2>1. ByteOf(0, 0) = 0 /\ ByteOf(0, 1) = 0 /\ ByteOf(0, 2) = 0 /\ ByteOf(0, 3) = 0
    <3>1. /\ ByteOf(0, 0) = 0 % 256
          /\ ByteOf(0, 1) = (0 \div 256) % 256
          /\ ByteOf(0, 2) = (0 \div SixtyFourK) % 256
          /\ ByteOf(0, 3) = (0 \div SixteenMB) % 256
      BY FourBytes
    <3> QED BY <3>1, SMT DEF SixtyFourK, SixteenMB
  <2>2. k = 0 \/ k = 1 \/ k = 2 \/ k = 3
    OBVIOUS
  <2> QED BY <2>1, <2>2 DEF Bytes
<1> QED BY <1>1 DEF WordAt, Bytes

-----------------------------------------------------------------------------
(* Where the structures are, on machine m.                                 *)

FrameBitmapAt(m) == BitmapAt(m.end_kernel + m.image)
FrameEntriesAt(m) == EntriesAt(m.end_kernel + m.image)
HeapBitmapAt(m) == BitmapAt(HeapAt(m) + 4)
HeapEntriesAt(m) == EntriesAt(HeapAt(m) + 4)
EntriesOf(m) == m.upper \div 4
StartOf(m) == m.upper - (m.upper % PAGE_SIZE)
FirstFrame(m) == PagesBelow(LayoutEnd(m))       \* the first one above the structures
ImageEnd(m) == PAGE_SIZE * PagesBelow(m.end_kernel) + m.image

(* The end of a page, seen from any address behind the first page. *)
LEMMA NextPage ==
  ASSUME NEW p \in Nat, p >= 4096
  PROVE  /\ Aligned(p) \in Nat /\ Aligned(p) % 4096 = 0
         /\ p < Aligned(p) /\ Aligned(p) <= p + 4096
         /\ Aligned(p) = p - (p % 4096) + 4096
<1>1. Aligned(p) = p - (p % 4096) + 4096
  BY SMT DEF Aligned, PAGE_SIZE
<1> QED BY <1>1, SMT

(* The sizes of a machine. *)
LEMMA MachineSizes ==
  ASSUME NEW m \in Machines
  PROVE  /\ m.upper \in Nat /\ m.end_kernel \in Nat /\ m.image \in Nat
         /\ 1024 <= m.upper /\ m.upper < 4194304 /\ KernelBase < m.end_kernel
         /\ m.image % 4096 = 0 /\ m.end_kernel + m.image < 1073741824
<1>1. m.upper \in Uppers /\ m.end_kernel \in EndKernels /\ m.image \in Images
  BY SMT DEF Machines
<1> QED BY <1>1, BootAssumption, SMT DEF PAGE_SIZE

(* Frame bitmap, its entries, heap structure, its bitmap and its entries follow one
   another behind kernel and image; the entries of the heap's pages, the only ones
   of its bitmap that are used, end before the first free frame. *)
LaidOut(m) ==
  /\ FrameBitmapAt(m) \in Nat /\ FrameEntriesAt(m) \in Nat /\ HeapAt(m) \in Nat
  /\ HeapBitmapAt(m) \in Nat /\ HeapEntriesAt(m) \in Nat /\ LayoutEnd(m) \in Nat
  /\ EntriesOf(m) \in Nat /\ StartOf(m) \in Nat /\ FirstFrame(m) \in Nat
  /\ m.end_kernel <= FrameBitmapAt(m) /\ ImageEnd(m) <= FrameBitmapAt(m)
  /\ FrameBitmapAt(m) + 8 <= FrameEntriesAt(m)
  /\ FrameEntriesAt(m) + 8 <= HeapAt(m)
  /\ HeapAt(m) + 5 <= HeapBitmapAt(m)
  /\ \E q \in Nat : HeapBitmapAt(m) = FrameEntriesAt(m) + 4 * q
  /\ HeapBitmapAt(m) + 8 <= HeapEntriesAt(m)
  /\ HeapEntriesAt(m) <= LayoutEnd(m) /\ LayoutEnd(m) < TwoGB
  /\ 256 <= EntriesOf(m) /\ EntriesOf(m) < TwoGB /\ StartOf(m) < TwoGB

EndsBelow(m) ==
  /\ LayoutEnd(m) <= PAGE_SIZE * FirstFrame(m)
  /\ HeapEntriesAt(m) + 4 * (StartOf(m) \div PAGE_SIZE) + 4 <= PAGE_SIZE * FirstFrame(m)
  /\ HeapEntriesAt(m) = HeapBitmapAt(m) + PAGE_SIZE
  /\ KernelBase \div PAGE_SIZE <= FirstFrame(m)
  /\ StartOf(m) \div PAGE_SIZE < ENTRY_SIZE

LEMMA Layout ==
  ASSUME NEW m \in Machines
  PROVE  LaidOut(m) /\ EndsBelow(m)
<1> DEFINE k == m.end_kernel + m.image
           e == m.upper \div 4
<1>1. /\ m.upper \in Nat /\ m.end_kernel \in Nat /\ m.image \in Nat
      /\ 1024 <= m.upper /\ m.upper < 4194304 /\ KernelBase < m.end_kernel
      /\ m.image % 4096 = 0 /\ m.end_kernel + m.image < 1073741824
  BY MachineSizes, SMT
<1>2. /\ k \in Nat /\ 4096 <= k /\ k < 1073741824 /\ KernelBase < m.end_kernel
      /\ e \in Nat /\ 256 <= e /\ e < 1048576 /\ e \div 32 \in Nat /\ 8 <= e \div 32
      /\ e \div 32 < 32768 /\ e = EntriesOf(m)
  BY <1>1, SMT DEF KernelBase, EntriesOf
<1>3. /\ FrameBitmapAt(m) \in Nat /\ FrameBitmapAt(m) % 4096 = 0
      /\ k < FrameBitmapAt(m) /\ FrameBitmapAt(m) <= k + 4096
  <2> HIDE DEF k
  <2>1. FrameBitmapAt(m) = Aligned(k)
    BY SMT DEF FrameBitmapAt, BitmapAt, k
  <2> QED BY <2>1, <1>2, NextPage, SMT
<1>4. FrameEntriesAt(m) = FrameBitmapAt(m) + 4096
  <2>1. FrameEntriesAt(m) = Aligned(FrameBitmapAt(m) + 8)
    BY SMT DEF FrameBitmapAt, FrameEntriesAt, EntriesAt
  <2>2. Aligned(FrameBitmapAt(m) + 8) = FrameBitmapAt(m) + 4096
    <3>1. FrameBitmapAt(m) + 8 \in Nat /\ FrameBitmapAt(m) + 8 >= 4096
      BY <1>2, <1>3, SMT
    <3>2. (FrameBitmapAt(m) + 8) % 4096 = 8
      BY <1>3, SMT
    <3> QED BY <1>3, <3>1, <3>2, NextPage, SMT
  <2> QED BY <2>1, <2>2, SMT
<1>5. HeapAt(m) = FrameEntriesAt(m) + e \div 32
  BY SMT DEF HeapAt, BitmapEnd, FrameEntriesAt
<1>6. /\ HeapBitmapAt(m) \in Nat /\ HeapBitmapAt(m) % 4096 = 0
      /\ HeapAt(m) + 4 < HeapBitmapAt(m) /\ HeapBitmapAt(m) <= HeapAt(m) + 4 + 4096
  <2>1. HeapBitmapAt(m) = Aligned(HeapAt(m) + 4)
    BY SMT DEF HeapBitmapAt, BitmapAt
  <2>2. HeapAt(m) + 4 \in Nat /\ HeapAt(m) + 4 >= 4096
    BY <1>2, <1>3, <1>4, <1>5, SMT
  <2> QED BY <2>1, <2>2, NextPage, SMT
<1>7. HeapEntriesAt(m) = HeapBitmapAt(m) + 4096
  <2>1. HeapEntriesAt(m) = Aligned(HeapBitmapAt(m) + 8)
    BY SMT DEF HeapBitmapAt, HeapEntriesAt, EntriesAt
  <2>2. Aligned(HeapBitmapAt(m) + 8) = HeapBitmapAt(m) + 4096
    <3>1. HeapBitmapAt(m) + 8 \in Nat /\ HeapBitmapAt(m) + 8 >= 4096
      BY <1>2, <1>3, <1>4, <1>5, <1>6, SMT
    <3>2. (HeapBitmapAt(m) + 8) % 4096 = 8
      BY <1>6, SMT
    <3> QED BY <1>6, <3>1, <3>2, NextPage, SMT
  <2> QED BY <2>1, <2>2, SMT
<1>8. LayoutEnd(m) = HeapEntriesAt(m) + e \div 32
  BY SMT DEF LayoutEnd, BitmapEnd, HeapEntriesAt
<1>9. FirstFrame(m) = (LayoutEnd(m) + 4095) \div 4096
  BY SMT DEF FirstFrame, PagesBelow, PAGE_SIZE
<1>10. StartOf(m) = m.upper - (m.upper % 4096)
  BY SMT DEF StartOf, PAGE_SIZE
<1>11. ImageEnd(m) <= FrameBitmapAt(m)
  <2>1. ImageEnd(m) = 4096 * ((m.end_kernel + 4095) \div 4096) + m.image
    BY SMT DEF ImageEnd, PagesBelow, PAGE_SIZE
  <2> QED BY <2>1, <1>1, <1>3, SMT
<1>12. HeapEntriesAt(m) + 4 * (StartOf(m) \div 4096) + 4 <= 4096 * FirstFrame(m)
  <2>1. 4 * (StartOf(m) \div 4096) + 4 <= e \div 32
    BY <1>1, <1>10, SMT
  <2>2. LayoutEnd(m) \in Nat /\ LayoutEnd(m) <= 4096 * FirstFrame(m)
    <3> HIDE DEF e
    <3> QED BY <1>2, <1>3, <1>4, <1>5, <1>6, <1>7, <1>8, <1>9, SMT
  <2>3. StartOf(m) \div 4096 \in Nat /\ FirstFrame(m) \in Nat
    BY <1>1, <1>9, <1>10, <2>2, SMT
  <2> HIDE DEF e
  <2> QED BY <2>1, <2>2, <2>3, <1>2, <1>6, <1>7, <1>8, SMT
<1>13. /\ HeapBitmapAt(m) = FrameEntriesAt(m) + 4 * ((HeapBitmapAt(m) - FrameEntriesAt(m)) \div 4)
       /\ (HeapBitmapAt(m) - FrameEntriesAt(m)) \div 4 \in Nat
       /\ LayoutEnd(m) \in Nat /\ FirstFrame(m) \in Nat /\ LayoutEnd(m) <= 4096 * FirstFrame(m)
  <2> HIDE DEF e, k
  <2> QED BY <1>2, <1>3, <1>4, <1>5, <1>6, <1>7, <1>8, <1>9, SMT
<1>14. StartOf(m) \in Nat /\ StartOf(m) < TwoGB
  BY <1>1, <1>10, SMT DEF TwoGB
<1>15. m.end_kernel <= FrameBitmapAt(m)
  BY <1>1, <1>3, SMT
<1>16. \E q \in Nat : HeapBitmapAt(m) = FrameEntriesAt(m) + 4 * q
  BY <1>13
<1>17. LaidOut(m)
  <2> HIDE DEF e, k
  <2> QED BY <1>2, <1>3, <1>4, <1>5, <1>6, <1>7, <1>8, <1>11, <1>13, <1>14, <1>15, <1>16, SMT
          DEF LaidOut, TwoGB
<1>18. KernelBase \div PAGE_SIZE <= FirstFrame(m) /\ StartOf(m) \div PAGE_SIZE < ENTRY_SIZE
  <2>1. m.end_kernel <= LayoutEnd(m) /\ 256 <= LayoutEnd(m) \div 4096
    <3> HIDE DEF e, k
    <3> QED BY <1>1, <1>2, <1>3, <1>4, <1>5, <1>6, <1>7, <1>8, <1>13, <1>15, SMT DEF KernelBase
  <2>2. 256 <= FirstFrame(m)
    BY <1>13, <2>1, SMT
  <2>3. StartOf(m) \div 4096 < 1024
    BY <1>1, <1>10, SMT
  <2> QED BY <2>2, <2>3, SMT DEF KernelBase, PAGE_SIZE, ENTRY_SIZE
<1> HIDE DEF e, k
<1> QED BY <1>7, <1>12, <1>13, <1>17, <1>18, SMT DEF EndsBelow, PAGE_SIZE

-----------------------------------------------------------------------------
(* What the boot has laid out, and that nothing is written in front of it. *)

Started == {"directory", "map", "running", "astray"}
Steady == {"mark"} \cup Started

(* The bytes of the three structures. *)
StructureBytes(m) ==
  (FrameBitmapAt(m)..(FrameBitmapAt(m) + 7)) \cup (HeapAt(m)..(HeapAt(m) + 12))
    \cup (HeapBitmapAt(m)..(HeapBitmapAt(m) + 7))

(* The structures are kept, and the frame bitmap points to its entries. *)
Kept(m, mem) ==
  /\ DOMAIN mem = StructureBytes(m)
  /\ WordAt(mem, FrameBitmapAt(m)) = Bytes(FrameEntriesAt(m))

BeforeFrames ==
  /\ kernel_pointer = IF pc = "multiboot" THEN machine.end_kernel
                                          ELSE machine.end_kernel + machine.image
  /\ DOMAIN memory = {} /\ used = {}

BeforeHeap ==
  /\ kernel_pointer = HeapAt(machine) /\ frame_bitmap = FrameBitmapAt(machine)
  /\ DOMAIN memory = FrameBitmapAt(machine)..(FrameBitmapAt(machine) + 7)
  /\ WordAt(memory, frame_bitmap) = Bytes(FrameEntriesAt(machine)) /\ used = {}

Placed ==
  /\ kernel_pointer = LayoutEnd(machine) /\ frame_bitmap = FrameBitmapAt(machine)
  /\ kernel_heap = HeapAt(machine) /\ heap_bitmap = HeapBitmapAt(machine)
  /\ Kept(machine, memory)

(* Which of them holds when. *)
Stages ==
  /\ machine \in Machines /\ pc \in {"multiboot", "frames", "heap"} \cup Steady
  /\ pc \in {"multiboot", "frames"} => BeforeFrames
  /\ pc = "heap" => BeforeHeap
  /\ pc \in Steady => Placed
  /\ pc \in Started => marked \in Nat /\ FirstFrame(machine) <= marked
  /\ used \in SUBSET Nat /\ IsFiniteSet(used)

Behind ==
  \A p \in wrote : /\ p[1] \in Int /\ p[2] \in Int
                   /\ FrameBitmapAt(machine) <= p[1] /\ p[1] < p[2]

(* Storing and filling keep the addresses that are kept. *)
LEMMA StoreDomain ==
  ASSUME NEW m, NEW a, NEW v
  PROVE  DOMAIN Store(m, a, v) = DOMAIN m \cup a..(a + 3)
BY DEF Store

LEMMA FillDomain ==
  ASSUME NEW m, NEW a, NEW n, NEW v
  PROVE  DOMAIN Fill(m, a, n, v) = DOMAIN m
BY DEF Fill

(* The addresses of structures are numbers. *)
LEMMA StructureInts ==
  ASSUME NEW m \in Machines, NEW b \in StructureBytes(m)
  PROVE  b \in Int /\ FrameBitmapAt(m) <= b
BY Layout, SMT DEF StructureBytes, LaidOut

(* What is filled behind the frame bitmap leaves it as it was. *)
LEMMA FilledBehind ==
  ASSUME NEW m \in Machines, NEW mem, Kept(m, mem),
         NEW a \in Int, FrameEntriesAt(m) <= a, NEW n \in Nat, NEW v
  PROVE  Kept(m, Fill(mem, a, n, v))
<1>1. LaidOut(m)
  BY Layout
<1>2. FrameBitmapAt(m) \in Int /\ FrameBitmapAt(m) + 4 <= a
  <2>1. FrameBitmapAt(m) \in Nat /\ FrameEntriesAt(m) \in Nat
        /\ FrameBitmapAt(m) + 8 <= FrameEntriesAt(m)
    BY <1>1, Zenon DEF LaidOut
  <2> QED BY <2>1, SMT
<1>3. \A b \in DOMAIN mem : b \in Int
  BY StructureInts DEF Kept
<1>4. WordAt(Fill(mem, a, n, v), FrameBitmapAt(m)) = WordAt(mem, FrameBitmapAt(m))
  BY <1>2, <1>3, FilledElsewhere
<1> QED BY <1>4, FillDomain, Zenon DEF Kept

(* The entry of frame f in the frame bitmap. *)
LEMMA FrameEntryAt ==
  ASSUME Stages, pc \in Steady, NEW f
  PROVE  FrameEntry(f) = FrameEntriesAt(machine) + 4 * f
<1>1. LaidOut(machine) /\ WordAt(memory, frame_bitmap) = Bytes(FrameEntriesAt(machine))
  BY Layout DEF Stages, Placed, Kept
<1>2. FrameEntriesAt(machine) \in Nat /\ FrameEntriesAt(machine) < TwoGB
  BY <1>1, SMT DEF LaidOut, TwoGB
<1>3. Pointer(frame_bitmap) = AddressOf(Bytes(FrameEntriesAt(machine)))
  BY <1>1, Loads
<1>4. Pointer(frame_bitmap) = FrameEntriesAt(machine)
  BY <1>2, <1>3, AddressBack
<1> QED BY <1>4, Zenon DEF FrameEntry

(* A non-empty set of naturals has a least element. *)
LEMMA LeastElement ==
  ASSUME NEW S \in SUBSET Nat, S # {}
  PROVE  \E x \in S : \A y \in S : x <= y
<1>1. IsWellFoundedOn(OpToRel(<, Nat), Nat)
  BY NatLessThanWellFounded
<1>2. PICK x \in S : \A y \in S : ~(<<y, x>> \in OpToRel(<, Nat))
  BY <1>1, WFMin
<1>3. \A y \in S : ~(y < x)
  BY <1>2 DEF OpToRel
<1> QED BY <1>3

(* Entries of the frame bitmap that are bytes of the heap structure or of its
   bitmap, behind which all entries are as they were made. *)
Occupied(m, f) ==
  \/ /\ HeapAt(m) <= FrameEntriesAt(m) + 4 * f + 3
     /\ FrameEntriesAt(m) + 4 * f <= HeapAt(m) + 12
  \/ /\ HeapBitmapAt(m) <= FrameEntriesAt(m) + 4 * f + 3
     /\ FrameEntriesAt(m) + 4 * f <= HeapBitmapAt(m) + 7

LEMMA UnoccupiedFree ==
  ASSUME Stages, pc \in Started, NEW f \in Nat, ~Occupied(machine, f)
  PROVE  WordAt(memory, FrameEntriesAt(machine) + 4 * f) = Bytes(FREE)
<1> DEFINE a == FrameEntriesAt(machine) + 4 * f
<1>1. LaidOut(machine) /\ DOMAIN memory = StructureBytes(machine)
  BY Layout DEF Stages, Placed, Steady, Kept
<1>2. a \in Int /\ \A k \in 0..3 : a + k \notin DOMAIN memory
  <2>1. a \in Int
    BY <1>1, SMT DEF LaidOut
  <2>2. ASSUME NEW k \in 0..3 PROVE a + k \notin StructureBytes(machine)
    BY <1>1, <2>2, SMT DEF LaidOut, StructureBytes, Occupied
  <2> QED BY <1>1, <2>1, <2>2
<1> HIDE DEF a
<1> QED BY <1>2, NotKept DEF a, FREE

(* frame_find returns the first frame from `marked' on that is free. *)
FoundFrame(f) ==
  /\ f \in Nat /\ marked <= f
  /\ WordAt(memory, FrameEntriesAt(machine) + 4 * f) = Bytes(FREE)
  /\ \A g \in marked..(f - 1) : Occupied(machine, g)

LEMMA FrameFound ==
  ASSUME Stages, pc \in Started
  PROVE  FoundFrame(frame_find)
<1> DEFINE open == {f \in marked..(marked + 16) : Load(FrameEntry(f)) = Bytes(FREE)}
<1>1. LaidOut(machine) /\ marked \in Nat /\ pc \in Steady
  BY Layout DEF Stages, Steady
<1>2. ASSUME NEW f \in Nat
      PROVE  Load(FrameEntry(f)) = WordAt(memory, FrameEntriesAt(machine) + 4 * f)
  BY <1>1, FrameEntryAt, Loads
<1>3. \/ ~Occupied(machine, marked) \/ ~Occupied(machine, marked + 4)
      \/ ~Occupied(machine, marked + 8)
  BY <1>1, SMT DEF Occupied, LaidOut
<1>4. open # {}
  <2>1. PICK f \in marked..(marked + 16) : ~Occupied(machine, f)
    BY <1>1, <1>3, SMT
  <2>2. f \in Nat
    BY <1>1, SMT
  <2>3. Load(FrameEntry(f)) = Bytes(FREE)
    BY <1>2, <2>1, <2>2, UnoccupiedFree
  <2> QED BY <2>1, <2>3
<1>5. open \in SUBSET Nat
  BY <1>1, SMT
<1>6. PICK x \in open : \A y \in open : x <= y
  <2> HIDE DEF open
  <2> QED BY <1>4, <1>5, LeastElement
<1>7. /\ x \in marked..(marked + 16) /\ Load(FrameEntry(x)) = Bytes(FREE)
      /\ \A g \in marked..(x - 1) : Load(FrameEntry(g)) # Bytes(FREE)
  <2>1. ASSUME NEW g \in marked..(x - 1), Load(FrameEntry(g)) = Bytes(FREE) PROVE FALSE
    <3>1. g \in marked..(marked + 16) /\ ~(x <= g)
      BY <1>1, <1>6, SMT
    <3> QED BY <1>6, <2>1, <3>1
  <2> QED BY <1>6, <2>1
<1>8. /\ frame_find \in marked..(marked + 16) /\ Load(FrameEntry(frame_find)) = Bytes(FREE)
      /\ \A g \in marked..(frame_find - 1) : Load(FrameEntry(g)) # Bytes(FREE)
  BY <1>7, Zenon DEF frame_find
<1>9. frame_find \in Nat /\ marked <= frame_find
  BY <1>1, <1>8, SMT
<1>10. ASSUME NEW g \in marked..(frame_find - 1) PROVE Occupied(machine, g)
  <2>1. g \in Nat
    BY <1>1, SMT
  <2> QED BY <1>2, <1>8, <2>1, UnoccupiedFree
<1> QED BY <1>2, <1>8, <1>9, <1>10 DEF FoundFrame

(* What bitmap_create makes n of memory m: the structure is there, and what is in
   front of it is kept. *)
Made(n, m, p, size) ==
  /\ DOMAIN n = DOMAIN m \cup BitmapAt(p)..(BitmapAt(p) + 7)
  /\ WordAt(n, BitmapAt(p)) = Bytes(EntriesAt(p))
  /\ WordAt(n, BitmapAt(p) + 4) = Bytes(size)
  /\ \A c \in Int : c + 4 <= BitmapAt(p) => WordAt(n, c) = WordAt(m, c)

LEMMA BitmapMade ==
  ASSUME NEW m, NEW p, NEW size \in Nat, \A b \in DOMAIN m : b \in Int,
         BitmapAt(p) \in Nat, EntriesAt(p) \in Nat, BitmapAt(p) + 8 <= EntriesAt(p)
  PROVE  Made(bitmap_create(m, p, size), m, p, size)
<1> DEFINE a == BitmapAt(p)
           e == EntriesAt(p)
           m1 == Store(m, a + 4, size)
           m2 == Store(m1, a, e)
<1>1. bitmap_create(m, p, size) = Fill(m2, e, size, FREE)
  BY Zenon DEF bitmap_create
<1>2. a \in Nat /\ e \in Nat /\ a + 8 <= e /\ a + 4 \in Nat
  OBVIOUS
<1>3. DOMAIN m2 = DOMAIN m \cup a..(a + 7) /\ \A b \in DOMAIN m2 : b \in Int
  <2> HIDE DEF a, e
  <2>1. DOMAIN m2 = (DOMAIN m \cup (a + 4)..(a + 4 + 3)) \cup a..(a + 3)
    BY StoreDomain
  <2>2. (a + 4)..(a + 4 + 3) \cup a..(a + 3) = a..(a + 7)
    BY <1>2, SMT
  <2>3. \A b \in a..(a + 7) : b \in Int
    BY <1>2, SMT
  <2> HIDE DEF m2
  <2>4. DOMAIN m2 = DOMAIN m \cup a..(a + 7)
    BY <2>1, <2>2, Zenon
  <2> QED BY <2>3, <2>4
<1> HIDE DEF a, e
<1>4. /\ WordAt(m2, a) = Bytes(e) /\ WordAt(m2, a + 4) = WordAt(m1, a + 4)
      /\ WordAt(m1, a + 4) = Bytes(size)
  <2>1. a + 4 <= a + 4 /\ a + 4 \in Int
    BY <1>2, SMT
  <2>2. WordAt(m2, a) = Bytes(e)
    BY <1>2, StoredThere
  <2>3. WordAt(m1, a + 4) = Bytes(size)
    BY <1>2, StoredThere
  <2> HIDE DEF m1
  <2>4. WordAt(m2, a + 4) = WordAt(m1, a + 4)
    BY <1>2, <2>1, StoredElsewhere
  <2> QED BY <2>2, <2>3, <2>4
<1>5. ASSUME NEW c \in Int, c + 4 <= e
      PROVE  WordAt(Fill(m2, e, size, FREE), c) = WordAt(m2, c)
  <2> HIDE DEF m2
  <2> QED BY <1>2, <1>3, <1>5, FilledElsewhere
<1>6. ASSUME NEW c \in Int, c + 4 <= a
      PROVE  WordAt(Fill(m2, e, size, FREE), c) = WordAt(m, c)
  <2>1. c + 4 <= e /\ c + 4 <= a + 4
    BY <1>2, <1>6, SMT
  <2>2. WordAt(m1, c) = WordAt(m, c)
    BY <1>2, <2>1, StoredElsewhere
  <2>3. WordAt(m2, c) = WordAt(m1, c)
    <3> HIDE DEF m1
    <3> QED BY <1>2, <1>6, StoredElsewhere
  <2> QED BY <1>5, <2>1, <2>2, <2>3
<1>7. a \in Int /\ a + 4 \in Int /\ a + 4 <= e /\ a + 4 + 4 <= e
  BY <1>2, SMT
<1>8. /\ WordAt(Fill(m2, e, size, FREE), a) = Bytes(e)
      /\ WordAt(Fill(m2, e, size, FREE), a + 4) = Bytes(size)
  BY <1>4, <1>5, <1>7
<1>9. DOMAIN Fill(m2, e, size, FREE) = DOMAIN m \cup a..(a + 7)
  BY <1>3, FillDomain
<1> HIDE DEF m2
<1> QED BY <1>1, <1>6, <1>8, <1>9, Zenon DEF a, e, Made

(* One lemma per step of the boot. *)
LEMMA PrintStage ==
  ASSUME Stages, multiboot_print
  PROVE  Stages' /\ Behind'
<1>1. /\ machine' = machine /\ memory' = memory /\ used' = used /\ wrote' = {}
      /\ kernel_pointer' = kernel_pointer + machine.image /\ pc = "multiboot" /\ pc' = "frames"
  BY DEF multiboot_print
<1>2. kernel_pointer = machine.end_kernel /\ DOMAIN memory = {} /\ used = {}
  BY <1>1 DEF Stages, BeforeFrames
<1>3. BeforeFrames'
  BY <1>1, <1>2, Zenon DEF BeforeFrames
<1>4. machine' \in Machines /\ used' \in SUBSET Nat /\ IsFiniteSet(used')
  BY <1>1 DEF Stages
<1>5. Behind'
  BY <1>1 DEF Behind
<1> QED BY <1>1, <1>3, <1>4, <1>5, Zenon DEF Stages, Steady, Started

(* Every frame a word: the frame bitmap is made behind the image. *)
LEMMA FramesStage ==
  ASSUME Stages, CreateFrameBitmap
  PROVE  Stages' /\ Behind'
<1> DEFINE p == machine.end_kernel + machine.image
<1>1. /\ machine' = machine /\ used' = used /\ pc = "frames" /\ pc' = "heap"
      /\ frame_bitmap' = BitmapAt(kernel_pointer)
      /\ memory' = bitmap_create(memory, kernel_pointer, Entries)
      /\ wrote' = {<<BitmapAt(kernel_pointer), BitmapAt(kernel_pointer) + 8>>,
                   <<EntriesAt(kernel_pointer), EntriesAt(kernel_pointer) + 4 * Entries>>}
      /\ kernel_pointer' = BitmapEnd(kernel_pointer, Entries)
  BY DEF CreateFrameBitmap
<1>2. kernel_pointer = p /\ DOMAIN memory = {} /\ used = {} /\ machine \in Machines
  BY <1>1, Zenon DEF Stages, BeforeFrames
<1>3. /\ BitmapAt(p) = FrameBitmapAt(machine) /\ EntriesAt(p) = FrameEntriesAt(machine)
      /\ Entries = EntriesOf(machine) /\ BitmapEnd(p, Entries) = HeapAt(machine)
  BY Zenon DEF FrameBitmapAt, FrameEntriesAt, Entries, EntriesOf, HeapAt
<1> HIDE DEF p
<1>4. LaidOut(machine)
  BY <1>2, Layout
<1>5. /\ BitmapAt(p) \in Nat /\ EntriesAt(p) \in Nat /\ BitmapAt(p) + 8 <= EntriesAt(p)
      /\ Entries \in Nat /\ Entries >= 256
  BY <1>3, <1>4, SMT DEF LaidOut
<1>6. /\ DOMAIN memory' = {} \cup BitmapAt(p)..(BitmapAt(p) + 7)
      /\ WordAt(memory', BitmapAt(p)) = Bytes(EntriesAt(p))
  <2>1. memory' = bitmap_create(memory, p, Entries) /\ \A b \in DOMAIN memory : b \in Int
    BY <1>1, <1>2
  <2>2. Made(bitmap_create(memory, p, Entries), memory, p, Entries)
    BY <1>5, <2>1, BitmapMade, Zenon
  <2> QED BY <1>2, <2>1, <2>2, Zenon DEF Made
<1>7. BeforeHeap'
  <2>1. DOMAIN memory' = BitmapAt(p)..(BitmapAt(p) + 7)
    BY <1>6
  <2> QED BY <1>1, <1>2, <1>3, <1>6, <2>1, Zenon DEF BeforeHeap
<1>8. Behind'
  <2>1. ASSUME NEW q \in wrote'
        PROVE  /\ q[1] \in Int /\ q[2] \in Int
               /\ BitmapAt(p) <= q[1] /\ q[1] < q[2]
    <3>1. \/ q = <<BitmapAt(p), BitmapAt(p) + 8>>
          \/ q = <<EntriesAt(p), EntriesAt(p) + 4 * Entries>>
      BY <1>1, <1>2, <2>1
    <3> QED BY <1>5, <3>1, SMT
  <2> QED BY <1>1, <1>3, <2>1, Zenon DEF Behind
<1>9. machine' \in Machines /\ used' \in SUBSET Nat /\ IsFiniteSet(used')
  BY <1>1 DEF Stages
<1> QED BY <1>1, <1>7, <1>8, <1>9, Zenon DEF Stages, Steady, Started

(* The heap structure, stored around its bitmap. *)
HeapStores(m, old) ==
  Store(Store(Store(old, HeapAt(m) + 8, 1), HeapAt(m), StartOf(m)), HeapAt(m) + 4, 0)
HeapMemory(m, old) ==
  Store(bitmap_create(HeapStores(m, old), HeapAt(m) + 4, EntriesOf(m)),
        HeapAt(m) + 9, HeapBitmapAt(m))

(* Heap structure and bitmap structure do not mangle each other. *)
Fits(m) == HeapAt(m) + 13 <= HeapBitmapAt(m) \/ HeapAt(m) + 9 = HeapBitmapAt(m)

(* The heap structure is as it was stored, and so is its bitmap if it fits; its
   pointer to the entries may be the pointer of the heap structure. *)
BaseOf(m) == IF HeapAt(m) + 9 = HeapBitmapAt(m) THEN HeapBitmapAt(m) ELSE HeapEntriesAt(m)
HeapWords(m, mem) ==
  /\ WordAt(mem, HeapAt(m)) = Bytes(StartOf(m))
  /\ WordAt(mem, HeapAt(m) + 9) = Bytes(HeapBitmapAt(m))
BitmapWords(m, mem) ==
  /\ WordAt(mem, HeapBitmapAt(m)) = Bytes(BaseOf(m))
  /\ WordAt(mem, HeapBitmapAt(m) + 4) = Bytes(EntriesOf(m))

(* The three stores in front of the bitmap. *)
LEMMA HeapStored ==
  ASSUME NEW m \in Machines, NEW old,
         DOMAIN old = FrameBitmapAt(m)..(FrameBitmapAt(m) + 7),
         WordAt(old, FrameBitmapAt(m)) = Bytes(FrameEntriesAt(m))
  PROVE  /\ DOMAIN HeapStores(m, old) = (FrameBitmapAt(m)..(FrameBitmapAt(m) + 7))
                                          \cup (HeapAt(m)..(HeapAt(m) + 11))
         /\ WordAt(HeapStores(m, old), FrameBitmapAt(m)) = Bytes(FrameEntriesAt(m))
         /\ WordAt(HeapStores(m, old), HeapAt(m)) = Bytes(StartOf(m))
<1> DEFINE h == HeapAt(m)
           f == FrameBitmapAt(m)
           m1 == Store(old, h + 8, 1)
           m2 == Store(m1, h, StartOf(m))
           m3 == Store(m2, h + 4, 0)
<1>1. LaidOut(m)
  BY Layout
<1>2. h \in Nat /\ f \in Nat /\ f + 16 <= h
  <2>1. /\ h \in Nat /\ f \in Nat /\ FrameEntriesAt(m) \in Nat
        /\ f + 8 <= FrameEntriesAt(m) /\ FrameEntriesAt(m) + 8 <= h
    BY <1>1, Zenon DEF LaidOut
  <2> HIDE DEF h, f
  <2> QED BY <2>1, SMT
<1>3. m3 = HeapStores(m, old)
  BY Zenon DEF HeapStores
<1> HIDE DEF h, f
<1>4. h + 8 \in Nat /\ h + 4 \in Nat /\ f \in Int /\ h \in Int
      /\ f + 4 <= h + 8 /\ f + 4 <= h /\ f + 4 <= h + 4 /\ h + 4 <= h + 4
  BY <1>2, SMT
<1>5. WordAt(m1, f) = WordAt(old, f)
  BY <1>4, StoredElsewhere
<1>6. WordAt(m2, f) = WordAt(m1, f)
  <2> HIDE DEF m1
  <2> QED BY <1>2, <1>4, StoredElsewhere
<1>7. WordAt(m3, f) = WordAt(m2, f)
  <2> HIDE DEF m2
  <2> QED BY <1>4, StoredElsewhere
<1>8. WordAt(m2, h) = Bytes(StartOf(m))
  BY <1>2, StoredThere
<1>9. WordAt(m3, h) = WordAt(m2, h)
  <2> HIDE DEF m2
  <2> QED BY <1>4, StoredElsewhere
<1>10. DOMAIN m3 = DOMAIN old \cup h..(h + 11)
  <2>1. DOMAIN m3 = DOMAIN m2 \cup (h + 4)..(h + 4 + 3)
    <3> HIDE DEF m2
    <3> QED BY StoreDomain
  <2>2. DOMAIN m2 = DOMAIN m1 \cup h..(h + 3)
    <3> HIDE DEF m1
    <3> QED BY StoreDomain
  <2>3. DOMAIN m1 = DOMAIN old \cup (h + 8)..(h + 8 + 3)
    BY StoreDomain
  <2>4. ((h + 8)..(h + 8 + 3) \cup h..(h + 3)) \cup (h + 4)..(h + 4 + 3) = h..(h + 11)
    BY <1>2, SMT
  <2> HIDE DEF m1, m2, m3
  <2> QED BY <2>1, <2>2, <2>3, <2>4, Zenon
<1> HIDE DEF m1, m2, m3
<1> QED BY <1>3, <1>5, <1>6, <1>7, <1>8, <1>9, <1>10, Zenon DEF h, f

(* What heap_create leaves in memory. *)
LEMMA HeapMade ==
  ASSUME NEW m \in Machines, NEW old,
         DOMAIN old = FrameBitmapAt(m)..(FrameBitmapAt(m) + 7),
         WordAt(old, FrameBitmapAt(m)) = Bytes(FrameEntriesAt(m))
  PROVE  /\ Kept(m, HeapMemory(m, old))
         /\ HeapWords(m, HeapMemory(m, old))
         /\ Fits(m) => BitmapWords(m, HeapMemory(m, old))
<1> DEFINE h == HeapAt(m)
           b == HeapBitmapAt(m)
           f == FrameBitmapAt(m)
           e == HeapEntriesAt(m)
           m3 == HeapStores(m, old)
           m4 == bitmap_create(m3, h + 4, EntriesOf(m))
           m5 == Store(m4, h + 9, b)
<1>1. LaidOut(m)
  BY Layout
<1>2. /\ h \in Nat /\ b \in Nat /\ f \in Nat /\ e \in Nat /\ EntriesOf(m) \in Nat
      /\ f + 16 <= h /\ h + 5 <= b /\ b + 8 <= e
  <2>1. /\ h \in Nat /\ b \in Nat /\ f \in Nat /\ e \in Nat /\ EntriesOf(m) \in Nat
        /\ FrameEntriesAt(m) \in Nat /\ f + 8 <= FrameEntriesAt(m)
        /\ FrameEntriesAt(m) + 8 <= h /\ h + 5 <= b /\ b + 8 <= e
    BY <1>1, Zenon DEF LaidOut
  <2> HIDE DEF h, b, f, e
  <2> QED BY <2>1, SMT
<1>3. m5 = HeapMemory(m, old) /\ BitmapAt(h + 4) = b /\ EntriesAt(h + 4) = e
  BY Zenon DEF HeapMemory, HeapBitmapAt, HeapEntriesAt
<1>4. /\ DOMAIN m3 = f..(f + 7) \cup h..(h + 11)
      /\ WordAt(m3, f) = Bytes(FrameEntriesAt(m)) /\ WordAt(m3, h) = Bytes(StartOf(m))
  BY HeapStored, Zenon
<1>5. \A x \in DOMAIN m3 : x \in Int
  <2> HIDE DEF h, f, m3
  <2> QED BY <1>2, <1>4, SMT
<1> HIDE DEF h, b, f, e, m3
<1>6. Made(m4, m3, h + 4, EntriesOf(m))
  BY <1>2, <1>3, <1>5, BitmapMade, Zenon
<1>7. /\ DOMAIN m4 = DOMAIN m3 \cup b..(b + 7)
      /\ WordAt(m4, b) = Bytes(e) /\ WordAt(m4, b + 4) = Bytes(EntriesOf(m))
      /\ \A c \in Int : c + 4 <= b => WordAt(m4, c) = WordAt(m3, c)
  BY <1>3, <1>6, Zenon DEF Made
<1> HIDE DEF m4
<1>8. /\ h + 9 \in Nat /\ f \in Int /\ h \in Int /\ b \in Int /\ b + 4 \in Int
      /\ f + 4 <= b /\ h + 4 <= b /\ f + 4 <= h + 9 /\ h + 4 <= h + 9
  BY <1>2, SMT
<1>9. /\ WordAt(m5, f) = Bytes(FrameEntriesAt(m)) /\ WordAt(m5, h) = Bytes(StartOf(m))
      /\ WordAt(m5, h + 9) = Bytes(b)
  BY <1>4, <1>7, <1>8, StoredElsewhere, StoredThere
<1>10. DOMAIN m5 = StructureBytes(m)
  <2>1. DOMAIN m5 = (f..(f + 7) \cup h..(h + 11) \cup b..(b + 7)) \cup (h + 9)..(h + 9 + 3)
    BY <1>4, <1>7, StoreDomain
  <2>2. h..(h + 11) \cup (h + 9)..(h + 9 + 3) = h..(h + 12)
    BY <1>2, SMT
  <2> HIDE DEF m5
  <2> QED BY <2>1, <2>2, Zenon DEF StructureBytes, f, h, b
<1>11. ASSUME Fits(m) PROVE BitmapWords(m, m5)
  <2>1. CASE h + 9 = b
    <3>1. WordAt(m5, b + 4) = WordAt(m4, b + 4)
      <4>1. h + 9 + 4 <= b + 4
        BY <2>1, <1>2, SMT
      <4> QED BY <1>8, <4>1, StoredElsewhere
    <3>2. BaseOf(m) = b
      BY <2>1, Zenon DEF BaseOf, h, b
    <3> QED BY <1>7, <1>9, <2>1, <3>1, <3>2, Zenon DEF BitmapWords, b
  <2>2. CASE h + 13 <= b
    <3>1. WordAt(m5, b + 4) = WordAt(m4, b + 4) /\ WordAt(m5, b) = WordAt(m4, b)
      <4>1. h + 9 + 4 <= b + 4 /\ h + 9 + 4 <= b
        BY <2>2, <1>2, SMT
      <4> QED BY <1>8, <4>1, StoredElsewhere
    <3>2. BaseOf(m) = e
      <4>1. h + 9 # b
        BY <1>2, <2>2, SMT
      <4> QED BY <4>1, Zenon DEF BaseOf, h, b, e
    <3> QED BY <1>7, <3>1, <3>2, Zenon DEF BitmapWords, b
  <2> QED BY <1>11, <2>1, <2>2, Zenon DEF Fits, h, b
<1> HIDE DEF m5
<1> QED BY <1>3, <1>9, <1>10, <1>11, Zenon DEF HeapWords, Kept, h, b, f

(* The heap structure and its bitmap are made behind the frame bitmap. *)
LEMMA HeapStage ==
  ASSUME Stages, heap_create
  PROVE  /\ Stages' /\ Behind' /\ memory' = HeapMemory(machine, memory)
         /\ DOMAIN memory = FrameBitmapAt(machine)..(FrameBitmapAt(machine) + 7)
         /\ WordAt(memory, FrameBitmapAt(machine)) = Bytes(FrameEntriesAt(machine))
<1> DEFINE h == HeapAt(machine)
           b == HeapBitmapAt(machine)
           e == HeapEntriesAt(machine)
<1>1. /\ kernel_pointer = h /\ frame_bitmap = FrameBitmapAt(machine)
      /\ DOMAIN memory = FrameBitmapAt(machine)..(FrameBitmapAt(machine) + 7)
      /\ WordAt(memory, FrameBitmapAt(machine)) = Bytes(FrameEntriesAt(machine))
      /\ machine \in Machines
  BY Zenon DEF Stages, BeforeHeap, heap_create
<1>2. /\ BitmapAt(h + 4) = b /\ EntriesAt(h + 4) = e
      /\ Entries = EntriesOf(machine) /\ Start = StartOf(machine)
      /\ BitmapEnd(h + 4, Entries) = LayoutEnd(machine)
  BY Zenon DEF HeapBitmapAt, HeapEntriesAt, Entries, EntriesOf, LayoutEnd, Start, StartOf
<1>3. /\ machine' = machine /\ used' = used /\ pc' = "mark"
      /\ frame_bitmap' = frame_bitmap
      /\ kernel_heap' = kernel_pointer /\ heap_bitmap' = BitmapAt(kernel_pointer + 4)
      /\ kernel_pointer' = BitmapEnd(kernel_pointer + 4, Entries)
      /\ wrote' = {<<kernel_pointer, kernel_pointer + 13>>,
                   <<BitmapAt(kernel_pointer + 4), BitmapAt(kernel_pointer + 4) + 8>>,
                   <<EntriesAt(kernel_pointer + 4),
                     EntriesAt(kernel_pointer + 4) + 4 * Entries>>}
  BY DEF heap_create
<1>4. memory' = HeapMemory(machine, memory)
  BY <1>1, <1>2, Zenon DEF heap_create, HeapMemory, HeapStores
<1>5. Kept(machine, memory')
  BY <1>1, <1>4, HeapMade, Zenon
<1>6. LaidOut(machine)
  BY <1>1, Layout
<1>7. Placed'
  BY <1>1, <1>2, <1>3, <1>5, Zenon DEF Placed
<1>8. Behind'
  <2>1. ASSUME NEW q \in wrote'
        PROVE  /\ q[1] \in Int /\ q[2] \in Int
               /\ FrameBitmapAt(machine) <= q[1] /\ q[1] < q[2]
    <3> HIDE DEF h, b, e
    <3>1. \/ q = <<h, h + 13>> \/ q = <<b, b + 8>>
          \/ q = <<e, e + 4 * Entries>>
      BY <1>1, <1>2, <1>3, <2>1, Zenon
    <3>2. /\ h \in Nat /\ b \in Nat /\ e \in Nat /\ Entries \in Nat /\ Entries >= 256
          /\ FrameBitmapAt(machine) \in Nat /\ FrameBitmapAt(machine) <= h
          /\ FrameBitmapAt(machine) <= b /\ FrameBitmapAt(machine) <= e
      BY <1>2, <1>6, SMT DEF LaidOut, h, b, e
    <3> QED BY <3>1, <3>2, SMT
  <2> QED BY <1>3, <2>1, Zenon DEF Behind
<1>9. machine' \in Machines /\ used' \in SUBSET Nat /\ IsFiniteSet(used')
  BY <1>1, <1>3 DEF Stages
<1> QED BY <1>1, <1>3, <1>4, <1>7, <1>8, <1>9, Zenon DEF Stages, Steady, Started

(* A page above the structures begins behind all of their entries. *)
LEMMA PageBehind ==
  ASSUME NEW m \in Machines, NEW f \in Nat, FirstFrame(m) <= f
  PROVE  /\ f * PAGE_SIZE \in Nat /\ FrameEntriesAt(m) <= f * PAGE_SIZE
         /\ HeapEntriesAt(m) <= f * PAGE_SIZE /\ PAGE_SIZE * FirstFrame(m) <= f * PAGE_SIZE
         /\ (f + 1) * PAGE_SIZE \in Nat /\ f * PAGE_SIZE < (f + 1) * PAGE_SIZE
<1>1. LaidOut(m) /\ EndsBelow(m)
  BY Layout
<1>2. /\ FrameEntriesAt(m) \in Nat /\ HeapEntriesAt(m) \in Nat /\ LayoutEnd(m) \in Nat
      /\ HeapAt(m) \in Nat /\ HeapBitmapAt(m) \in Nat /\ FirstFrame(m) \in Nat
      /\ FrameEntriesAt(m) + 8 <= HeapAt(m) /\ HeapAt(m) + 5 <= HeapBitmapAt(m)
      /\ HeapBitmapAt(m) + 8 <= HeapEntriesAt(m) /\ HeapEntriesAt(m) <= LayoutEnd(m)
  BY <1>1, Zenon DEF LaidOut
<1>3. LayoutEnd(m) <= PAGE_SIZE * FirstFrame(m)
  BY <1>1, Zenon DEF EndsBelow
<1> QED BY <1>2, <1>3, SMT DEF PAGE_SIZE

(* Marking a frame, and clearing its page, keep the frame bitmap. *)
LEMMA FrameTaken ==
  ASSUME NEW m \in Machines, NEW mem, Kept(m, mem), NEW f \in Nat, FirstFrame(m) <= f,
         NEW v
  PROVE  /\ Kept(m, Fill(mem, FrameEntriesAt(m) + 4 * f, 1, USED))
         /\ Kept(m, Fill(Fill(mem, FrameEntriesAt(m) + 4 * f, 1, USED),
                         f * PAGE_SIZE, ENTRY_SIZE, v))
<1>1. FrameEntriesAt(m) \in Nat
  BY Layout, Zenon DEF LaidOut
<1>2. /\ FrameEntriesAt(m) + 4 * f \in Int
      /\ FrameEntriesAt(m) <= FrameEntriesAt(m) + 4 * f
  BY <1>1, SMT
<1>3. Kept(m, Fill(mem, FrameEntriesAt(m) + 4 * f, 1, USED))
  BY <1>2, FilledBehind
<1>4. f * PAGE_SIZE \in Int /\ FrameEntriesAt(m) <= f * PAGE_SIZE /\ ENTRY_SIZE \in Nat
  BY PageBehind, SMT DEF ENTRY_SIZE
<1> QED BY <1>3, <1>4, FilledBehind

(* The pieces that taking a frame writes are behind the frame bitmap. *)
LEMMA PiecesBehind ==
  ASSUME NEW m \in Machines, NEW f \in Nat, FirstFrame(m) <= f,
         NEW q \in {Entry(FrameEntriesAt(m) + 4 * f), Page(f)}
  PROVE  /\ q[1] \in Int /\ q[2] \in Int
         /\ FrameBitmapAt(m) <= q[1] /\ q[1] < q[2]
<1>1. /\ FrameEntriesAt(m) \in Nat /\ FrameBitmapAt(m) \in Nat
      /\ FrameBitmapAt(m) + 8 <= FrameEntriesAt(m)
  BY Layout, Zenon DEF LaidOut
<1>2. CASE q = Entry(FrameEntriesAt(m) + 4 * f)
  BY <1>1, <1>2, SMT DEF Entry
<1>3. CASE q = Page(f)
  <2>1. q[1] = f * PAGE_SIZE /\ q[2] = (f + 1) * PAGE_SIZE
    BY <1>3 DEF Page
  <2>2. /\ f * PAGE_SIZE \in Nat /\ FrameEntriesAt(m) <= f * PAGE_SIZE
        /\ HeapEntriesAt(m) <= f * PAGE_SIZE /\ PAGE_SIZE * FirstFrame(m) <= f * PAGE_SIZE
        /\ (f + 1) * PAGE_SIZE \in Nat /\ f * PAGE_SIZE < (f + 1) * PAGE_SIZE
    BY PageBehind
  <2> QED BY <1>1, <2>1, <2>2, SMT
<1> QED BY <1>2, <1>3

(* All frames below the pointer are marked. *)
LEMMA MarkStage ==
  ASSUME Stages, MarkKernel
  PROVE  Stages' /\ Behind'
<1>1. /\ pc = "mark" /\ Placed /\ machine \in Machines /\ Kept(machine, memory)
      /\ used \in SUBSET Nat /\ IsFiniteSet(used) /\ pc \in Steady
  BY Zenon DEF Stages, MarkKernel, Steady, Placed
<1>2. /\ machine' = machine /\ used' = used /\ pc' = "directory"
      /\ kernel_pointer' = kernel_pointer /\ frame_bitmap' = frame_bitmap
      /\ kernel_heap' = kernel_heap /\ heap_bitmap' = heap_bitmap
      /\ marked' = PagesBelow(kernel_pointer)
      /\ memory' = Fill(memory, FrameEntry(0), marked', USED)
      /\ wrote' = {<<FrameEntry(0), FrameEntry(marked')>>}
  BY DEF MarkKernel
<1>3. marked' = FirstFrame(machine)
  BY <1>1, <1>2, Zenon DEF Placed, FirstFrame
<1>4. /\ FrameEntriesAt(machine) \in Nat /\ FrameBitmapAt(machine) \in Nat
      /\ FrameBitmapAt(machine) + 8 <= FrameEntriesAt(machine)
      /\ FirstFrame(machine) \in Nat /\ HeapEntriesAt(machine) <= LayoutEnd(machine)
      /\ HeapBitmapAt(machine) + 8 <= HeapEntriesAt(machine)
      /\ LayoutEnd(machine) \in Nat /\ HeapBitmapAt(machine) \in Nat
      /\ HeapEntriesAt(machine) \in Nat
      /\ LayoutEnd(machine) <= PAGE_SIZE * FirstFrame(machine)
  BY <1>1, Layout, Zenon DEF LaidOut, EndsBelow
<1>5. 1 <= FirstFrame(machine)
  BY <1>4, SMT DEF PAGE_SIZE
<1>6. /\ FrameEntry(0) = FrameEntriesAt(machine) + 4 * 0
      /\ FrameEntry(marked') = FrameEntriesAt(machine) + 4 * marked'
  BY <1>1, FrameEntryAt
<1>7. FrameEntry(0) \in Int /\ FrameEntriesAt(machine) <= FrameEntry(0) /\ marked' \in Nat
  BY <1>3, <1>4, <1>6, SMT
<1>8. Kept(machine, memory')
  BY <1>1, <1>2, <1>7, FilledBehind, Zenon
<1>9. Placed'
  BY <1>1, <1>2, <1>8, Zenon DEF Placed
<1>10. Behind'
  <2>1. /\ FrameEntry(0) \in Int /\ FrameEntry(marked') \in Int
        /\ FrameBitmapAt(machine) <= FrameEntry(0) /\ FrameEntry(0) < FrameEntry(marked')
    BY <1>3, <1>4, <1>5, <1>6, SMT
  <2>2. ASSUME NEW q \in wrote'
        PROVE  /\ q[1] \in Int /\ q[2] \in Int
               /\ FrameBitmapAt(machine) <= q[1] /\ q[1] < q[2]
    <3>1. q[1] = FrameEntry(0) /\ q[2] = FrameEntry(marked')
      BY <1>2, <2>2
    <3> QED BY <2>1, <3>1
  <2> QED BY <1>2, <2>2, Zenon DEF Behind
<1>11. marked' \in Nat /\ FirstFrame(machine') <= marked'
  BY <1>2, <1>3, <1>4, SMT
<1> QED BY <1>1, <1>2, <1>9, <1>10, <1>11, Zenon DEF Stages, Steady, Started

(* Once the boot has marked the kernel's frames, the layout stays as it is. *)
LEMMA StagesStay ==
  ASSUME Stages, pc \in Started, pc' \in Started, Kept(machine, memory'),
         UNCHANGED <<machine, kernel_pointer, frame_bitmap, kernel_heap, heap_bitmap>>,
         marked' \in Nat, marked <= marked', used' \in SUBSET Nat, IsFiniteSet(used')
  PROVE  Stages'
<1>1. /\ machine' = machine /\ kernel_pointer' = kernel_pointer
      /\ frame_bitmap' = frame_bitmap /\ kernel_heap' = kernel_heap
      /\ heap_bitmap' = heap_bitmap
  OBVIOUS
<1>2. /\ Placed /\ machine \in Machines /\ FirstFrame(machine) <= marked /\ marked \in Nat
  BY Zenon DEF Stages, Steady
<1>3. Placed'
  BY <1>1, <1>2, Zenon DEF Placed
<1>4. FirstFrame(machine) \in Nat
  BY <1>2, Layout, Zenon DEF LaidOut
<1>5. FirstFrame(machine') <= marked'
  BY <1>1, <1>2, <1>4, SMT
<1> QED BY <1>1, <1>2, <1>3, <1>5, Zenon DEF Stages, Steady, Started

LEMMA DirectoryStage ==
  ASSUME Stages, directory_create
  PROVE  Stages' /\ Behind'
<1> DEFINE f == frame_find
<1>1. /\ pc \in Started /\ pc \in Steady /\ pc' \in Started /\ machine \in Machines
      /\ Kept(machine, memory) /\ used \in SUBSET Nat /\ IsFiniteSet(used)
      /\ FirstFrame(machine) <= marked /\ marked \in Nat
  BY Zenon DEF Stages, directory_create, Steady, Started, Placed
<1>2. /\ UNCHANGED <<machine, kernel_pointer, frame_bitmap, kernel_heap, heap_bitmap>>
      /\ used' = used /\ marked' = f + 1 /\ machine' = machine
      /\ memory' = Fill(frame_alloc(memory, f), f * PAGE_SIZE, ENTRY_SIZE, 2)
      /\ wrote' = {Entry(FrameEntry(f)), Page(f)}
  BY DEF directory_create
<1>3. FoundFrame(f)
  BY <1>1, FrameFound
<1>4. FrameEntry(f) = FrameEntriesAt(machine) + 4 * f
  BY <1>1, FrameEntryAt
<1>5. f \in Nat /\ marked <= f
  BY <1>3, Zenon DEF FoundFrame
<1>6. FirstFrame(machine) \in Nat
  BY <1>1, Layout, Zenon DEF LaidOut
<1> HIDE DEF f
<1>7. FirstFrame(machine) <= f /\ marked' \in Nat /\ marked <= marked'
  BY <1>1, <1>2, <1>5, <1>6, SMT
<1>8. Kept(machine, memory')
  BY <1>1, <1>2, <1>4, <1>5, <1>7, FrameTaken, Zenon DEF frame_alloc
<1>9. Stages'
  BY <1>1, <1>2, <1>7, <1>8, StagesStay, Zenon
<1>10. Behind'
  BY <1>1, <1>2, <1>4, <1>5, <1>7, PiecesBehind, Zenon DEF Behind
<1> QED BY <1>9, <1>10

LEMMA TableStage ==
  ASSUME Stages, table_create
  PROVE  Stages' /\ Behind'
<1> DEFINE f == frame_find
<1>1. /\ pc \in Started /\ pc \in Steady /\ pc' \in Started /\ machine \in Machines
      /\ Kept(machine, memory) /\ used \in SUBSET Nat /\ IsFiniteSet(used)
      /\ FirstFrame(machine) <= marked /\ marked \in Nat
  BY Zenon DEF Stages, table_create, Steady, Started, Placed
<1>2. /\ UNCHANGED <<machine, kernel_pointer, frame_bitmap, kernel_heap, heap_bitmap>>
      /\ used' = used /\ marked' = f + 1 /\ machine' = machine
      /\ memory' = Fill(frame_alloc(memory, f), f * PAGE_SIZE, ENTRY_SIZE, USED)
      /\ wrote' = {Entry(FrameEntry(f)), Page(f)}
  BY DEF table_create
<1>3. FoundFrame(f)
  BY <1>1, FrameFound
<1>4. FrameEntry(f) = FrameEntriesAt(machine) + 4 * f
  BY <1>1, FrameEntryAt
<1>5. f \in Nat /\ marked <= f
  BY <1>3, Zenon DEF FoundFrame
<1>6. FirstFrame(machine) \in Nat
  BY <1>1, Layout, Zenon DEF LaidOut
<1> HIDE DEF f
<1>7. FirstFrame(machine) <= f /\ marked' \in Nat /\ marked <= marked'
  BY <1>1, <1>2, <1>5, <1>6, SMT
<1>8. Kept(machine, memory')
  BY <1>1, <1>2, <1>4, <1>5, <1>7, FrameTaken, Zenon DEF frame_alloc
<1>9. Stages'
  BY <1>1, <1>2, <1>7, <1>8, StagesStay, Zenon
<1>10. Behind'
  BY <1>1, <1>2, <1>4, <1>5, <1>7, PiecesBehind, Zenon DEF Behind
<1> QED BY <1>9, <1>10

(* The entries of the heap's bitmap are behind its structure, so long as the heap
   structure is as created. *)
LEMMA HeapEntryBehind ==
  ASSUME Stages, pc \in Started, HeapAsCreated, NEW k \in Nat
  PROVE  /\ HeapEntry(k) \in Int /\ HeapBitmapAt(machine) + 4 * k <= HeapEntry(k)
         /\ HeapEntry(k) = Pointer(heap_bitmap) + 4 * k
<1>1. /\ heap_bitmap = HeapBitmapAt(machine) /\ kernel_pointer = LayoutEnd(machine)
      /\ machine \in Machines
  BY Zenon DEF Stages, Placed, Steady
<1>2. HeapBitmapAt(machine) \in Nat /\ LayoutEnd(machine) \in Nat
  BY <1>1, Layout, Zenon DEF LaidOut
<1>3. Pointer(heap_bitmap) \in heap_bitmap..kernel_pointer
  BY Zenon DEF HeapAsCreated
<1>4. HeapEntry(k) = Pointer(heap_bitmap) + 4 * k
  BY Zenon DEF HeapEntry
<1> QED BY <1>1, <1>2, <1>3, <1>4, SMT

(* bitmap_entrie_find finds an index of the heap that was not taken before. *)
FoundIndex(k) ==
  /\ k \in Nat /\ k \notin used
  /\ WordAt(memory, HeapEntry(k)) = Bytes(FREE)

LEMMA IndexFound ==
  ASSUME Stages, pc \in Started, HeapAsCreated, Cardinality(used) < MaxHeapPages
  PROVE  FoundIndex(Index)
<1>1. /\ machine \in Machines /\ Kept(machine, memory)
      /\ used \in SUBSET Nat /\ IsFiniteSet(used) /\ heap_bitmap = HeapBitmapAt(machine)
  BY Zenon DEF Stages, Placed, Steady
<1>2. MaxHeapPages \in Nat /\ Cardinality(used) \in Nat
  BY <1>1, FS_CardinalityType, BootAssumption, SMT
<1>3. /\ HeapBitmapAt(machine) \in Nat /\ HeapAt(machine) \in Nat
      /\ FrameBitmapAt(machine) \in Nat /\ FrameEntriesAt(machine) \in Nat
      /\ FrameBitmapAt(machine) + 8 <= FrameEntriesAt(machine)
      /\ FrameEntriesAt(machine) + 8 <= HeapAt(machine)
      /\ HeapAt(machine) + 5 <= HeapBitmapAt(machine)
  BY <1>1, Layout, Zenon DEF LaidOut
<1>4. ASSUME NEW k \in Nat, 2 <= k
      PROVE  Load(HeapEntry(k)) = Bytes(FREE)
  <2>1. HeapEntry(k) \in Int /\ HeapBitmapAt(machine) + 4 * k <= HeapEntry(k)
    BY HeapEntryBehind
  <2>2. ASSUME NEW j \in 0..3 PROVE HeapEntry(k) + j \notin DOMAIN memory
    <3>1. HeapEntry(k) + j \notin StructureBytes(machine)
      <4> DEFINE a == HeapEntry(k)
      <4>1. a \in Int /\ HeapBitmapAt(machine) + 4 * k <= a
        BY <2>1
      <4> HIDE DEF a
      <4>2. a + j \notin StructureBytes(machine)
        BY <1>3, <1>4, <4>1, SMT DEF StructureBytes
      <4> QED BY <4>2 DEF a
    <3> QED BY <1>1, <3>1 DEF Kept
  <2>3. WordAt(memory, HeapEntry(k)) = Bytes(0)
    BY <2>1, <2>2, NotKept
  <2> QED BY <2>3, Loads DEF FREE
<1>5. \E k \in 2..(MaxHeapPages + 1) : k \notin used
  <2> SUFFICES ASSUME 2..(MaxHeapPages + 1) \subseteq used PROVE FALSE
    OBVIOUS
  <2>1. Cardinality(2..(MaxHeapPages + 1)) = MaxHeapPages
    <3>1. Cardinality(2..(MaxHeapPages + 1))
            = IF 2 > MaxHeapPages + 1 THEN 0 ELSE (MaxHeapPages + 1) - 2 + 1
      BY <1>2, FS_Interval, SMT
    <3> QED BY <1>2, <3>1, SMT
  <2>2. Cardinality(2..(MaxHeapPages + 1)) <= Cardinality(used)
    BY <1>1, FS_Subset
  <2> QED BY <1>2, <2>1, <2>2, SMT
<1>6. Free # {}
  <2>1. PICK k \in 2..(MaxHeapPages + 1) : k \notin used
    BY <1>5
  <2>2. k \in Nat /\ 2 <= k /\ k \in 0..MaxHeapPages + 4
    BY <1>2, <2>1, SMT
  <2> QED BY <1>4, <2>1, <2>2, Zenon DEF Free
<1>7. Free \in SUBSET Nat
  BY <1>2, SMT DEF Free
<1>8. \E k \in Free : \A l \in Free : k <= l
  BY <1>6, <1>7, LeastElement
<1>9. Index \in Free
  BY <1>8, Zenon DEF Index
<1>10. Index \in Nat /\ Index \notin used /\ Load(HeapEntry(Index)) = Bytes(FREE)
  BY <1>7, <1>9, Zenon DEF Free
<1> QED BY <1>10, Loads, Zenon DEF FoundIndex

LEMMA AllocStage ==
  ASSUME Stages, heap_alloc
  PROVE  Stages' /\ Behind'
<1> DEFINE f == frame_find
           k == Index
           m1 == Fill(memory, HeapEntry(k), 1, USED)
<1>1. /\ pc \in Started /\ pc \in Steady /\ pc' \in Started /\ machine \in Machines
      /\ Kept(machine, memory) /\ used \in SUBSET Nat /\ IsFiniteSet(used)
      /\ FirstFrame(machine) <= marked /\ marked \in Nat
      /\ HeapAsCreated /\ Cardinality(used) < MaxHeapPages
  BY Zenon DEF Stages, heap_alloc, Steady, Started, Placed
<1>2. /\ UNCHANGED <<machine, kernel_pointer, frame_bitmap, kernel_heap, heap_bitmap>>
      /\ used' = used \cup {k} /\ marked' = f + 1 /\ machine' = machine
      /\ memory' = frame_alloc(m1, f)
      /\ wrote' = {Entry(HeapEntry(k)), Entry(FrameEntry(f))}
  BY DEF heap_alloc
<1>3. FoundFrame(f) /\ FoundIndex(k)
  BY <1>1, FrameFound, IndexFound
<1>4. FrameEntry(f) = FrameEntriesAt(machine) + 4 * f
  BY <1>1, FrameEntryAt
<1>5. f \in Nat /\ marked <= f /\ k \in Nat
  BY <1>3, Zenon DEF FoundFrame, FoundIndex
<1>6. HeapEntry(k) \in Int /\ HeapBitmapAt(machine) + 4 * k <= HeapEntry(k)
  BY <1>1, <1>5, HeapEntryBehind
<1>7. /\ FirstFrame(machine) \in Nat
      /\ HeapBitmapAt(machine) \in Nat /\ HeapAt(machine) \in Nat
      /\ FrameBitmapAt(machine) \in Nat /\ FrameEntriesAt(machine) \in Nat
      /\ FrameBitmapAt(machine) + 8 <= FrameEntriesAt(machine)
      /\ FrameEntriesAt(machine) + 8 <= HeapAt(machine)
      /\ HeapAt(machine) + 5 <= HeapBitmapAt(machine)
  BY <1>1, Layout, Zenon DEF LaidOut
<1> HIDE DEF f, k
<1>8. /\ FirstFrame(machine) <= f /\ marked' \in Nat /\ marked <= marked'
      /\ FrameEntriesAt(machine) <= HeapEntry(k)
      /\ FrameBitmapAt(machine) <= HeapEntry(k)
  BY <1>1, <1>2, <1>5, <1>6, <1>7, SMT
<1>9. Kept(machine, m1)
  BY <1>1, <1>6, <1>8, FilledBehind
<1> HIDE DEF m1
<1>10. Kept(machine, memory')
  BY <1>1, <1>2, <1>4, <1>5, <1>8, <1>9, FrameTaken, Zenon DEF frame_alloc
<1>11. used' \in SUBSET Nat /\ IsFiniteSet(used')
  <2>1. IsFiniteSet(used \cup {k})
    BY <1>1, FS_AddElement
  <2> QED BY <1>1, <1>2, <1>5, <2>1
<1>12. Stages'
  BY <1>1, <1>2, <1>8, <1>10, <1>11, StagesStay, Zenon
<1>13. Behind'
  <2>1. ASSUME NEW q \in {Entry(HeapEntry(k)), Entry(FrameEntry(f))}
        PROVE  /\ q[1] \in Int /\ q[2] \in Int
               /\ FrameBitmapAt(machine) <= q[1] /\ q[1] < q[2]
    <3>1. CASE q = Entry(HeapEntry(k))
      <4>1. q[1] = HeapEntry(k) /\ q[2] = HeapEntry(k) + 4
        BY <3>1 DEF Entry
      <4> QED BY <1>6, <1>7, <1>8, <4>1, SMT
    <3>2. CASE q = Entry(FrameEntry(f))
      BY <1>1, <1>4, <1>5, <1>8, <3>2, PiecesBehind, Zenon
    <3> QED BY <2>1, <3>1, <3>2
  <2> QED BY <1>2, <2>1, Zenon DEF Behind
<1> QED BY <1>12, <1>13

(* Turning paging on, and what the model does not follow, write nothing. *)
LEMMA QuietStage ==
  ASSUME Stages, paging_enable \/ Astray
  PROVE  Stages' /\ Behind'
<1>1. /\ pc \in Started /\ pc' \in Started /\ machine \in Machines
      /\ Kept(machine, memory) /\ used \in SUBSET Nat /\ IsFiniteSet(used)
      /\ marked \in Nat
  BY Zenon DEF Stages, paging_enable, Astray, Steady, Started, Placed
<1>2. /\ UNCHANGED <<machine, kernel_pointer, frame_bitmap, kernel_heap, heap_bitmap>>
      /\ used' = used /\ marked' = marked /\ memory' = memory /\ wrote' = {}
  BY DEF paging_enable, Astray
<1>3. marked <= marked
  BY <1>1, SMT
<1>4. Stages'
  BY <1>1, <1>2, <1>3, StagesStay, Zenon
<1> QED BY <1>2, <1>4 DEF Behind

LEMMA StutterStage ==
  ASSUME Stages, Behind, UNCHANGED vars
  PROVE  Stages' /\ Behind'
<1>1. /\ pc' = pc /\ machine' = machine /\ kernel_pointer' = kernel_pointer
      /\ memory' = memory /\ wrote' = wrote /\ frame_bitmap' = frame_bitmap
      /\ kernel_heap' = kernel_heap /\ heap_bitmap' = heap_bitmap
      /\ marked' = marked /\ used' = used
  BY DEF vars
<1>2. (BeforeFrames => BeforeFrames') /\ (BeforeHeap => BeforeHeap') /\ (Placed => Placed')
  BY <1>1, Zenon DEF BeforeFrames, BeforeHeap, Placed
<1>3. Stages'
  BY <1>1, <1>2, Zenon DEF Stages
<1>4. Behind'
  BY <1>1, Zenon DEF Behind
<1> QED BY <1>3, <1>4

StageInv == Stages /\ Behind

LEMMA StageInit ==
  ASSUME Init
  PROVE  StageInv
<1>1. /\ pc = "multiboot" /\ machine \in Machines /\ kernel_pointer = machine.end_kernel
      /\ DOMAIN memory = {} /\ used = {} /\ wrote = {}
  BY DEF Init
<1>2. IsFiniteSet(used)
  BY <1>1, FS_EmptySet
<1> QED BY <1>1, <1>2, Zenon DEF StageInv, Stages, Behind, BeforeFrames, Steady, Started

LEMMA StageStep ==
  ASSUME StageInv, [Next]_vars
  PROVE  StageInv'
<1>1. Stages /\ Behind
  BY DEF StageInv
<1>2. CASE Next
  <2>1. CASE heap_alloc_null \/ Stopped
    BY <1>1, <2>1, StutterStage DEF heap_alloc_null, Stopped, StageInv
  <2> QED BY <1>1, <1>2, <2>1, PrintStage, FramesStage, HeapStage, MarkStage, DirectoryStage,
             TableStage, QuietStage, AllocStage, Zenon DEF Next, StageInv
<1>3. CASE UNCHANGED vars
  BY <1>1, <1>3, StutterStage DEF StageInv
<1> QED BY <1>2, <1>3

LEMMA StageInvariance == Spec => []StageInv
<1>1. Init => StageInv
  BY StageInit
<1>2. StageInv /\ [Next]_vars => StageInv'
  BY StageStep
<1> QED BY <1>1, <1>2, PTL DEF Spec

(* On no machine is anything written to the kernel or to the image of the initial
   RAM disk: not by the bitmaps that are filled far beyond what was reserved, not
   for directory and tables, and not for pages of the heap. *)
THEOREM KernelAndImageKept == Spec => []ImageKept
<1>1. StageInv => ImageKept
  <2> SUFFICES ASSUME Stages, Behind, NEW p \in wrote
               PROVE  Disjoint(p, Kernel) /\ Disjoint(p, Image)
    BY DEF StageInv, ImageKept
  <2>1. machine \in Machines /\ FrameBitmapAt(machine) <= p[1]
        /\ p[1] \in Int
    BY Zenon DEF Stages, Behind
  <2>2. /\ FrameBitmapAt(machine) \in Nat
        /\ machine.end_kernel <= FrameBitmapAt(machine)
        /\ ImageEnd(machine) <= FrameBitmapAt(machine)
    BY <2>1, Layout, Zenon DEF LaidOut
  <2>3. Kernel[2] = machine.end_kernel /\ Image[2] = ImageEnd(machine)
    BY DEF Kernel, Image, ImageStart, ImageEnd
  <2>4. machine.end_kernel \in Int /\ ImageEnd(machine) \in Int
    <3>1. machine.end_kernel \in Nat /\ machine.image \in Nat
      BY <2>1, MachineSizes, SMT
    <3> QED BY <3>1, SMT DEF ImageEnd, PagesBelow, PAGE_SIZE
  <2>5. Kernel[2] <= p[1] /\ Image[2] <= p[1]
    BY <2>1, <2>2, <2>3, <2>4, SMT
  <2> QED BY <2>5 DEF Disjoint
<1> QED BY <1>1, StageInvariance, PTL

-----------------------------------------------------------------------------
(* What is left of the heap structure and of its bitmap.                   *)

(* A kept word that is filled as a whole. *)
LEMMA FilledThere ==
  ASSUME NEW mem, NEW a \in Int, NEW n \in Nat, NEW v, NEW j \in Nat, j < n,
         \A b \in DOMAIN mem : b \in Int,
         \A k \in 0..3 : a + 4 * j + k \in DOMAIN mem
  PROVE  WordAt(Fill(mem, a, n, v), a + 4 * j) = Bytes(v)
<1>1. ASSUME NEW k \in 0..3
      PROVE  WordAt(Fill(mem, a, n, v), a + 4 * j)[k] = Bytes(v)[k]
  <2> DEFINE b == a + 4 * j + k
  <2>1. a <= b /\ b < a + 4 * n /\ (b - a) % 4 = k
    <3>1. b - a = 4 * j + k /\ (4 * j + k) % 4 = k
      BY SMT
    <3>2. a <= b /\ b < a + 4 * n
      BY SMT
    <3> QED BY <3>1, <3>2
  <2>2. b \in DOMAIN mem /\ b \in DOMAIN Fill(mem, a, n, v)
    BY DEF Fill
  <2>3. Fill(mem, a, n, v)[b] = ByteOf(v, (b - a) % 4)
    BY <2>1, <2>2, Zenon DEF Fill
  <2>4. WordAt(Fill(mem, a, n, v), a + 4 * j)[k] = Fill(mem, a, n, v)[b]
    BY <2>2 DEF WordAt
  <2>5. Bytes(v)[k] = ByteOf(v, k)
    BY DEF Bytes
  <2> HIDE DEF b
  <2> QED BY <2>1, <2>3, <2>4, <2>5
<1> QED BY <1>1 DEF WordAt, Bytes

(* The words of the heap's bitmap structure are entries of the frame bitmap: they
   hold what was stored there, or USED if a frame that has such an entry was
   marked with all frames below the kernel's end. *)
Held(m, mem) ==
  /\ WordAt(mem, HeapBitmapAt(m)) \in {Bytes(BaseOf(m)), Bytes(USED)}
  /\ WordAt(mem, HeapBitmapAt(m) + 4) \in {Bytes(EntriesOf(m)), Bytes(USED)}

(* What they hold is not 0. *)
LEMMA HeldNotFree ==
  ASSUME NEW m \in Machines, NEW mem, Held(m, mem)
  PROVE  /\ WordAt(mem, HeapBitmapAt(m)) # Bytes(FREE)
         /\ WordAt(mem, HeapBitmapAt(m) + 4) # Bytes(FREE)
<1>1. LaidOut(m)
  BY Layout
<1>2. /\ BaseOf(m) \in Nat /\ 0 < BaseOf(m) /\ BaseOf(m) < TwoGB
      /\ EntriesOf(m) \in Nat /\ 0 < EntriesOf(m) /\ EntriesOf(m) < TwoGB
  BY <1>1, SMT DEF LaidOut, BaseOf, TwoGB
<1>3. USED \in Nat /\ USED < TwoGB /\ FREE \in Nat /\ FREE < TwoGB /\ FREE = 0 /\ USED # FREE
  BY SMT DEF USED, FREE, TwoGB
<1>4. /\ Bytes(BaseOf(m)) # Bytes(FREE) /\ Bytes(EntriesOf(m)) # Bytes(FREE)
      /\ Bytes(USED) # Bytes(FREE)
  <2>1. BaseOf(m) # FREE /\ EntriesOf(m) # FREE
    BY <1>2, <1>3, SMT
  <2> QED BY <1>2, <1>3, <2>1, BytesDiffer
<1> QED BY <1>4 DEF Held

(* A word of the bitmap structure, q entries on in the frame bitmap, after some
   entries were filled with USED. *)
LEMMA WordMarked ==
  ASSUME NEW m \in Machines, NEW mem, Kept(m, mem), NEW n \in Nat, NEW q \in Nat,
         NEW c, c = FrameEntriesAt(m) + 4 * q, \A k \in 0..3 : c + k \in StructureBytes(m)
  PROVE  WordAt(Fill(mem, FrameEntriesAt(m), n, USED), c) \in {WordAt(mem, c), Bytes(USED)}
<1>1. FrameEntriesAt(m) \in Nat
  BY Layout, Zenon DEF LaidOut
<1>2. \A b \in DOMAIN mem : b \in Int
  BY StructureInts DEF Kept
<1>3. CASE q < n
  <2>1. \A k \in 0..3 : FrameEntriesAt(m) + 4 * q + k \in DOMAIN mem
    BY DEF Kept
  <2> QED BY <1>1, <1>2, <1>3, <2>1, FilledThere
<1>4. CASE ~(q < n)
  <2>1. c \in Int /\ FrameEntriesAt(m) + 4 * n <= c
    BY <1>1, <1>4, SMT
  <2> QED BY <1>1, <1>2, <2>1, FilledElsewhere
<1> QED BY <1>3, <1>4

(* The bytes of the bitmap structure are kept, and it is made of two entries. *)
LEMMA BitmapEntries ==
  ASSUME NEW m \in Machines
  PROVE  /\ \A k \in 0..3 : HeapBitmapAt(m) + k \in StructureBytes(m)
         /\ \A k \in 0..3 : HeapBitmapAt(m) + 4 + k \in StructureBytes(m)
         /\ \E q \in Nat : /\ HeapBitmapAt(m) = FrameEntriesAt(m) + 4 * q
                           /\ HeapBitmapAt(m) + 4 = FrameEntriesAt(m) + 4 * (q + 1)
<1>1. HeapBitmapAt(m) \in Nat /\ FrameEntriesAt(m) \in Nat
  BY Layout, Zenon DEF LaidOut
<1>2. PICK q \in Nat : HeapBitmapAt(m) = FrameEntriesAt(m) + 4 * q
  BY Layout, Zenon DEF LaidOut
<1>3. HeapBitmapAt(m) + 4 = FrameEntriesAt(m) + 4 * (q + 1)
  BY <1>1, <1>2, SMT
<1>4. \A k \in 0..3 : /\ HeapBitmapAt(m) + k \in HeapBitmapAt(m)..(HeapBitmapAt(m) + 7)
                      /\ HeapBitmapAt(m) + 4 + k \in HeapBitmapAt(m)..(HeapBitmapAt(m) + 7)
  BY <1>1, SMT
<1> QED BY <1>2, <1>3, <1>4, Zenon DEF StructureBytes

(* Marking all frames below the kernel's end. *)
LEMMA HeldMarked ==
  ASSUME NEW m \in Machines, NEW mem, Kept(m, mem), Held(m, mem), NEW n \in Nat
  PROVE  Held(m, Fill(mem, FrameEntriesAt(m), n, USED))
<1> DEFINE new == Fill(mem, FrameEntriesAt(m), n, USED)
<1>1. PICK q \in Nat : /\ HeapBitmapAt(m) = FrameEntriesAt(m) + 4 * q
                       /\ HeapBitmapAt(m) + 4 = FrameEntriesAt(m) + 4 * (q + 1)
  BY BitmapEntries
<1>2. q + 1 \in Nat
  OBVIOUS
<1>3. WordAt(new, HeapBitmapAt(m)) \in {WordAt(mem, HeapBitmapAt(m)), Bytes(USED)}
  BY <1>1, BitmapEntries, WordMarked
<1>4. WordAt(new, HeapBitmapAt(m) + 4) \in {WordAt(mem, HeapBitmapAt(m) + 4), Bytes(USED)}
  <2> DEFINE c == HeapBitmapAt(m) + 4
  <2>1. c = FrameEntriesAt(m) + 4 * (q + 1) /\ \A k \in 0..3 : c + k \in StructureBytes(m)
    BY <1>1, BitmapEntries
  <2> HIDE DEF c
  <2>2. WordAt(Fill(mem, FrameEntriesAt(m), n, USED), c) \in {WordAt(mem, c), Bytes(USED)}
    BY <1>2, <2>1, WordMarked, Zenon
  <2> QED BY <2>2 DEF c
<1> HIDE DEF new
<1> QED BY <1>3, <1>4, Zenon DEF Held, new

(* Marking one free frame: its entry is none of the two. *)
LEMMA HeldTaken ==
  ASSUME NEW m \in Machines, NEW mem, Kept(m, mem), Held(m, mem), NEW f \in Nat,
         WordAt(mem, FrameEntriesAt(m) + 4 * f) = Bytes(FREE)
  PROVE  Held(m, Fill(mem, FrameEntriesAt(m) + 4 * f, 1, USED))
<1>1. PICK q \in Nat : /\ HeapBitmapAt(m) = FrameEntriesAt(m) + 4 * q
                       /\ HeapBitmapAt(m) + 4 = FrameEntriesAt(m) + 4 * (q + 1)
  BY BitmapEntries
<1>2. HeapBitmapAt(m) \in Nat /\ FrameEntriesAt(m) \in Nat
  BY Layout, Zenon DEF LaidOut
<1>3. f # q /\ f # q + 1
  BY <1>1, HeldNotFree, Zenon
<1>4. \A b \in DOMAIN mem : b \in Int
  BY StructureInts DEF Kept
<1> DEFINE a == FrameEntriesAt(m) + 4 * f
<1>5. /\ a \in Int /\ HeapBitmapAt(m) \in Int /\ HeapBitmapAt(m) + 4 \in Int
      /\ HeapBitmapAt(m) + 4 <= a \/ a + 4 * 1 <= HeapBitmapAt(m)
      /\ HeapBitmapAt(m) + 4 + 4 <= a \/ a + 4 * 1 <= HeapBitmapAt(m) + 4
  BY <1>1, <1>2, <1>3, SMT
<1> HIDE DEF a
<1>6. /\ WordAt(Fill(mem, a, 1, USED), HeapBitmapAt(m)) = WordAt(mem, HeapBitmapAt(m))
      /\ WordAt(Fill(mem, a, 1, USED), HeapBitmapAt(m) + 4) = WordAt(mem, HeapBitmapAt(m) + 4)
  BY <1>4, <1>5, FilledElsewhere
<1> QED BY <1>6, Zenon DEF Held, a

(* Behind the bitmap structure nothing is kept. *)
LEMMA FilledBeyond ==
  ASSUME NEW m \in Machines, NEW mem, Kept(m, mem), NEW a \in Int,
         HeapBitmapAt(m) + 8 <= a, NEW n \in Nat, NEW v, NEW c
  PROVE  WordAt(Fill(mem, a, n, v), c) = WordAt(mem, c)
<1>1. /\ HeapBitmapAt(m) \in Nat /\ HeapAt(m) \in Nat
      /\ FrameBitmapAt(m) \in Nat /\ FrameEntriesAt(m) \in Nat
      /\ FrameBitmapAt(m) + 8 <= FrameEntriesAt(m)
      /\ FrameEntriesAt(m) + 8 <= HeapAt(m)
      /\ HeapAt(m) + 5 <= HeapBitmapAt(m)
  BY Layout, Zenon DEF LaidOut
<1>2. ASSUME NEW b \in DOMAIN mem PROVE ~(a <= b /\ b < a + 4 * n)
  <2>1. b \in StructureBytes(m)
    BY DEF Kept
  <2> QED BY <1>1, <2>1, SMT DEF StructureBytes
<1>3. ASSUME NEW b \in DOMAIN mem
      PROVE  b \in DOMAIN Fill(mem, a, n, v) /\ Fill(mem, a, n, v)[b] = mem[b]
  BY <1>2 DEF Fill
<1>4. DOMAIN Fill(mem, a, n, v) = DOMAIN mem
  BY FillDomain
<1> QED BY <1>3, <1>4, Zenon DEF WordAt

(* The words that matter after the boot are the same ones. *)
SameWords(m, old, new) ==
  /\ WordAt(new, HeapAt(m)) = WordAt(old, HeapAt(m))
  /\ WordAt(new, HeapAt(m) + 9) = WordAt(old, HeapAt(m) + 9)
  /\ WordAt(new, HeapBitmapAt(m)) = WordAt(old, HeapBitmapAt(m))
  /\ WordAt(new, HeapBitmapAt(m) + 4) = WordAt(old, HeapBitmapAt(m) + 4)

(* Entries of the frame bitmap in front of the heap structure. *)
LEMMA FilledBefore ==
  ASSUME NEW m \in Machines, NEW mem, Kept(m, mem), NEW a \in Int, NEW n \in Nat,
         a + 4 * n <= HeapAt(m), NEW v
  PROVE  SameWords(m, mem, Fill(mem, a, n, v))
<1>1. /\ HeapBitmapAt(m) \in Nat /\ HeapAt(m) \in Nat /\ HeapAt(m) + 5 <= HeapBitmapAt(m)
  BY Layout, Zenon DEF LaidOut
<1>2. \A b \in DOMAIN mem : b \in Int
  BY StructureInts DEF Kept
<1>3. /\ HeapAt(m) \in Int /\ HeapAt(m) + 9 \in Int /\ HeapBitmapAt(m) \in Int
      /\ HeapBitmapAt(m) + 4 \in Int /\ a + 4 * n <= HeapAt(m) + 9
      /\ a + 4 * n <= HeapBitmapAt(m) /\ a + 4 * n <= HeapBitmapAt(m) + 4
  BY <1>1, SMT
<1> DEFINE new == Fill(mem, a, n, v)
<1>4. /\ WordAt(new, HeapAt(m)) = WordAt(mem, HeapAt(m))
      /\ WordAt(new, HeapAt(m) + 9) = WordAt(mem, HeapAt(m) + 9)
  BY <1>2, <1>3, FilledElsewhere
<1>5. /\ WordAt(new, HeapBitmapAt(m)) = WordAt(mem, HeapBitmapAt(m))
      /\ WordAt(new, HeapBitmapAt(m) + 4) = WordAt(mem, HeapBitmapAt(m) + 4)
  BY <1>2, <1>3, FilledElsewhere
<1> HIDE DEF new
<1> QED BY <1>4, <1>5, Zenon DEF SameWords, new

(* What holds of the heap structure and of its bitmap from heap_create on. *)
AsCreated ==
  /\ Held(machine, memory)
  /\ pc = "mark" \/ FrameEntriesAt(machine) + 4 * marked <= HeapAt(machine) =>
       HeapWords(machine, memory) /\ BitmapWords(machine, memory)

HeapInv == pc \in Steady /\ Fits(machine) => AsCreated

(* Memory in which one more frame is marked, and in which its page is filled as well. *)
FrameMarked(m, mem, f) == Fill(mem, FrameEntriesAt(m) + 4 * f, 1, USED)
FrameCleared(m, mem, f, v) == Fill(FrameMarked(m, mem, f), f * PAGE_SIZE, ENTRY_SIZE, v)

(* What is left of mem in new. *)
HeldIn(m, mem, new, f) ==
  /\ Held(m, new)
  /\ FrameEntriesAt(m) + 4 * (f + 1) <= HeapAt(m) => SameWords(m, mem, new)

LEMMA HeldFrame ==
  ASSUME NEW m \in Machines, NEW mem, Kept(m, mem), Held(m, mem),
         NEW f \in Nat, FirstFrame(m) <= f,
         WordAt(mem, FrameEntriesAt(m) + 4 * f) = Bytes(FREE), NEW v
  PROVE  HeldIn(m, mem, FrameMarked(m, mem, f), f) /\ HeldIn(m, mem, FrameCleared(m, mem, f, v), f)
<1> DEFINE one == FrameMarked(m, mem, f)
           two == Fill(one, f * PAGE_SIZE, ENTRY_SIZE, v)
<1>1. /\ HeapBitmapAt(m) \in Nat /\ HeapEntriesAt(m) \in Nat
      /\ HeapBitmapAt(m) + 8 <= HeapEntriesAt(m) /\ FrameEntriesAt(m) \in Nat
      /\ HeapAt(m) \in Nat
  BY Layout, Zenon DEF LaidOut
<1>2. Held(m, one) /\ Kept(m, one)
  BY HeldTaken, FrameTaken, Zenon DEF FrameMarked
<1>3. /\ f * PAGE_SIZE \in Int /\ HeapBitmapAt(m) + 8 <= f * PAGE_SIZE /\ ENTRY_SIZE \in Nat
  <2>1. f * PAGE_SIZE \in Nat /\ HeapEntriesAt(m) <= f * PAGE_SIZE
    BY PageBehind
  <2>2. ENTRY_SIZE \in Nat
    BY SMT DEF ENTRY_SIZE
  <2> QED BY <1>1, <2>1, <2>2, SMT
<1>4. FrameEntriesAt(m) + 4 * (f + 1) <= HeapAt(m) => SameWords(m, mem, one)
  <2>1. /\ FrameEntriesAt(m) + 4 * f \in Int
        /\ FrameEntriesAt(m) + 4 * (f + 1) <= HeapAt(m) =>
             FrameEntriesAt(m) + 4 * f + 4 * 1 <= HeapAt(m)
    BY <1>1, SMT
  <2>2. 1 \in Nat
    OBVIOUS
  <2> QED BY <2>1, <2>2, FilledBefore, Zenon DEF FrameMarked
<1>4a. two = FrameCleared(m, mem, f, v)
  BY Zenon DEF FrameCleared
<1> HIDE DEF one
<1>5. ASSUME NEW c PROVE WordAt(two, c) = WordAt(one, c)
  BY <1>2, <1>3, FilledBeyond
<1> HIDE DEF two
<1>6. Held(m, two)
  BY <1>2, <1>5, Zenon DEF Held
<1>7. SameWords(m, mem, one) => SameWords(m, mem, two)
  BY <1>5, Zenon DEF SameWords
<1> QED BY <1>2, <1>4, <1>6, <1>7, <1>4a, Zenon DEF one, HeldIn

(* heap_create stores all of the words. *)
LEMMA HeapCreated ==
  ASSUME Stages, heap_create
  PROVE  HeapInv'
<1>1. /\ memory' = HeapMemory(machine, memory)
      /\ DOMAIN memory = FrameBitmapAt(machine)..(FrameBitmapAt(machine) + 7)
      /\ WordAt(memory, FrameBitmapAt(machine)) = Bytes(FrameEntriesAt(machine))
  BY HeapStage
<1>2. machine' = machine /\ pc' = "mark" /\ machine \in Machines
  BY DEF heap_create, Stages
<1>3. HeapWords(machine, memory') /\ (Fits(machine) => BitmapWords(machine, memory'))
  BY <1>1, <1>2, HeapMade, Zenon
<1>4. BitmapWords(machine, memory') => Held(machine, memory')
  BY Zenon DEF BitmapWords, Held
<1> QED BY <1>2, <1>3, <1>4, Zenon DEF HeapInv, AsCreated

(* Words that stay the same say the same. *)
LEMMA SameSaid ==
  ASSUME NEW m, NEW old, NEW new, SameWords(m, old, new),
         HeapWords(m, old), BitmapWords(m, old)
  PROVE  HeapWords(m, new) /\ BitmapWords(m, new)
BY Zenon DEF SameWords, HeapWords, BitmapWords

(* The frames below the kernel's end, *)
LEMMA HeapMarked ==
  ASSUME Stages, HeapInv, MarkKernel
  PROVE  HeapInv'
<1>1. /\ pc = "mark" /\ machine \in Machines /\ Kept(machine, memory) /\ pc \in Steady
      /\ kernel_pointer = LayoutEnd(machine)
  BY Zenon DEF Stages, MarkKernel, Steady, Placed
<1>2. /\ machine' = machine /\ pc' = "directory" /\ marked' = PagesBelow(kernel_pointer)
      /\ memory' = Fill(memory, FrameEntry(0), marked', USED)
  BY DEF MarkKernel
<1>3. /\ FrameEntriesAt(machine) \in Nat /\ FirstFrame(machine) \in Nat
      /\ marked' = FirstFrame(machine)
  BY <1>1, <1>2, Layout, Zenon DEF LaidOut, FirstFrame
<1>4. FrameEntry(0) = FrameEntriesAt(machine)
  <2>1. FrameEntry(0) = FrameEntriesAt(machine) + 4 * 0
    BY <1>1, FrameEntryAt
  <2> QED BY <1>3, <2>1, SMT
<1> DEFINE new == Fill(memory, FrameEntriesAt(machine), marked', USED)
<1>5. ASSUME Fits(machine)
      PROVE  /\ Held(machine, new)
             /\ FrameEntriesAt(machine) + 4 * marked' <= HeapAt(machine) =>
                  HeapWords(machine, new) /\ BitmapWords(machine, new)
  <2>1. Held(machine, memory) /\ HeapWords(machine, memory) /\ BitmapWords(machine, memory)
    BY <1>1, <1>5, Zenon DEF HeapInv, AsCreated
  <2>2. marked' \in Nat /\ FrameEntriesAt(machine) \in Int
    BY <1>3, SMT
  <2>3. Held(machine, new)
    BY <1>1, <2>1, <2>2, HeldMarked
  <2>4. ASSUME FrameEntriesAt(machine) + 4 * marked' <= HeapAt(machine)
        PROVE  HeapWords(machine, new) /\ BitmapWords(machine, new)
    <3>1. SameWords(machine, memory, new)
      BY <1>1, <2>2, <2>4, FilledBefore
    <3> HIDE DEF new
    <3> QED BY <2>1, <3>1, SameSaid
  <2> QED BY <2>3, <2>4
<1>6. memory' = new
  BY <1>2, <1>4
<1> HIDE DEF new
<1> QED BY <1>2, <1>5, <1>6, Zenon DEF HeapInv, AsCreated

(* and any frame after them. *)
LEMMA HeapAfterFrame ==
  ASSUME Stages, HeapInv, pc \in Started, pc' \in Started, machine' = machine,
         NEW mem, Kept(machine, mem), \A c : WordAt(mem, c) = WordAt(memory, c),
         NEW f, FoundFrame(f), marked' = f + 1, NEW v,
         memory' \in {FrameMarked(machine, mem, f), FrameCleared(machine, mem, f, v)}
  PROVE  HeapInv'
<1>1. /\ machine \in Machines /\ pc \in Steady /\ marked \in Nat
      /\ FirstFrame(machine) <= marked /\ pc' # "mark"
  BY Zenon DEF Stages, Steady, Started
<1>2. /\ FrameEntriesAt(machine) \in Nat /\ FirstFrame(machine) \in Nat
      /\ HeapAt(machine) \in Nat
  BY <1>1, Layout, Zenon DEF LaidOut
<1>3. /\ f \in Nat /\ marked <= f
      /\ WordAt(mem, FrameEntriesAt(machine) + 4 * f) = Bytes(FREE)
  BY Zenon DEF FoundFrame
<1>4. FirstFrame(machine) <= f
  BY <1>1, <1>2, <1>3, SMT
<1>5. ASSUME Fits(machine) PROVE AsCreated'
  <2>1. /\ Held(machine, memory)
        /\ FrameEntriesAt(machine) + 4 * marked <= HeapAt(machine) =>
             HeapWords(machine, memory) /\ BitmapWords(machine, memory)
    BY <1>1, <1>5, Zenon DEF HeapInv, AsCreated
  <2>2. /\ Held(machine, mem)
        /\ FrameEntriesAt(machine) + 4 * marked <= HeapAt(machine) =>
             HeapWords(machine, mem) /\ BitmapWords(machine, mem)
    BY <2>1, Zenon DEF Held, HeapWords, BitmapWords
  <2>3. /\ HeldIn(machine, mem, FrameMarked(machine, mem, f), f)
        /\ HeldIn(machine, mem, FrameCleared(machine, mem, f, v), f)
    BY <1>1, <1>3, <1>4, <2>2, HeldFrame
  <2>4. HeldIn(machine, mem, memory', f)
    BY <2>3
  <2>5. ASSUME FrameEntriesAt(machine) + 4 * marked' <= HeapAt(machine)
        PROVE  HeapWords(machine, memory') /\ BitmapWords(machine, memory')
    <3>1. /\ FrameEntriesAt(machine) + 4 * marked <= HeapAt(machine)
          /\ FrameEntriesAt(machine) + 4 * (f + 1) <= HeapAt(machine)
      BY <1>1, <1>2, <1>3, <2>5, SMT
    <3>2. SameWords(machine, mem, memory')
      BY <2>4, <3>1, Zenon DEF HeldIn
    <3> QED BY <2>2, <3>1, <3>2, SameSaid
  <2> QED BY <1>1, <2>4, <2>5, Zenon DEF AsCreated, HeldIn
<1> QED BY <1>5, Zenon DEF HeapInv

(* The pointer of the heap's bitmap leads to its entries, unless its frame was
   marked. *)
LEMMA BitmapPointer ==
  ASSUME Stages, pc \in Steady, Held(machine, memory)
  PROVE  Pointer(heap_bitmap) \in {BaseOf(machine), USED}
<1>1. heap_bitmap = HeapBitmapAt(machine) /\ machine \in Machines
  BY Zenon DEF Stages, Placed
<1>2. /\ BaseOf(machine) \in Nat /\ BaseOf(machine) < TwoGB /\ USED \in Nat /\ USED < TwoGB
  <2>1. LaidOut(machine)
    BY <1>1, Layout
  <2> QED BY <2>1, SMT DEF LaidOut, BaseOf, TwoGB, USED
<1>3. AddressOf(Bytes(BaseOf(machine))) = BaseOf(machine) /\ AddressOf(Bytes(USED)) = USED
  BY <1>2, AddressBack
<1>4. Pointer(heap_bitmap) = AddressOf(WordAt(memory, HeapBitmapAt(machine)))
  BY <1>1, Loads
<1> QED BY <1>3, <1>4, Zenon DEF Held

LEMMA BaseRead ==
  ASSUME Stages, pc \in Started, HeapAsCreated, Held(machine, memory)
  PROVE  Pointer(heap_bitmap) = BaseOf(machine)
<1>1. /\ heap_bitmap = HeapBitmapAt(machine) /\ machine \in Machines /\ pc \in Steady
      /\ Pointer(heap_bitmap) \in heap_bitmap..kernel_pointer
      /\ kernel_pointer = LayoutEnd(machine)
  BY Zenon DEF Stages, Placed, Steady, HeapAsCreated
<1>2. Pointer(heap_bitmap) \in {BaseOf(machine), USED}
  BY <1>1, BitmapPointer
<1>3. /\ HeapBitmapAt(machine) \in Nat /\ HeapAt(machine) \in Nat /\ LayoutEnd(machine) \in Nat
      /\ HeapAt(machine) + 5 <= HeapBitmapAt(machine)
  BY <1>1, Layout, Zenon DEF LaidOut
<1>4. Pointer(heap_bitmap) # USED
  BY <1>1, <1>3, SMT DEF USED
<1> QED BY <1>2, <1>4

(* A free entry of the heap's bitmap is none of its structure's words. *)
LEMMA EntryBeyond ==
  ASSUME Stages, pc \in Started, HeapAsCreated, Held(machine, memory), NEW k \in Nat,
         WordAt(memory, HeapEntry(k)) = Bytes(FREE)
  PROVE  /\ HeapEntry(k) \in Int /\ HeapBitmapAt(machine) + 8 <= HeapEntry(k)
         /\ HeapEntry(k) = BaseOf(machine) + 4 * k
<1>1. machine \in Machines
  BY Zenon DEF Stages
<1>2. /\ HeapBitmapAt(machine) \in Nat /\ HeapEntriesAt(machine) \in Nat
      /\ HeapBitmapAt(machine) + 8 <= HeapEntriesAt(machine)
  BY <1>1, Layout, Zenon DEF LaidOut
<1>3. HeapEntry(k) = BaseOf(machine) + 4 * k
  BY BaseRead, Zenon DEF HeapEntry
<1>4. BaseOf(machine) \in {HeapBitmapAt(machine), HeapEntriesAt(machine)}
  BY DEF BaseOf
<1>5. /\ HeapEntry(k) # HeapBitmapAt(machine)
      /\ HeapEntry(k) # HeapBitmapAt(machine) + 4
  BY <1>1, HeldNotFree
<1> QED BY <1>2, <1>3, <1>4, <1>5, SMT

(* So a page from the heap changes none of them. *)
LEMMA HeapAllocated ==
  ASSUME Stages, HeapInv, heap_alloc
  PROVE  HeapInv'
<1> DEFINE f == frame_find
           k == Index
           m1 == Fill(memory, HeapEntry(k), 1, USED)
<1>1. /\ pc \in Started /\ pc \in Steady /\ pc' \in Started /\ machine \in Machines
      /\ Kept(machine, memory) /\ HeapAsCreated /\ Cardinality(used) < MaxHeapPages
  BY Zenon DEF Stages, heap_alloc, Steady, Started, Placed
<1>2. marked' = f + 1 /\ machine' = machine /\ memory' = frame_alloc(m1, f)
  BY DEF heap_alloc
<1>3. FoundFrame(f) /\ FoundIndex(k)
  BY <1>1, FrameFound, IndexFound
<1>4. k \in Nat /\ WordAt(memory, HeapEntry(k)) = Bytes(FREE)
  BY <1>3, Zenon DEF FoundIndex
<1>5. memory' = FrameMarked(machine, m1, f)
  <2>1. FrameEntry(f) = FrameEntriesAt(machine) + 4 * f
    BY <1>1, FrameEntryAt
  <2> HIDE DEF m1, f
  <2> QED BY <1>2, <2>1, Zenon DEF frame_alloc, FrameMarked
<1>6. CASE Fits(machine)
  <2>1. Held(machine, memory)
    BY <1>1, <1>6, Zenon DEF HeapInv, AsCreated
  <2>2. HeapEntry(k) \in Int /\ HeapBitmapAt(machine) + 8 <= HeapEntry(k)
    BY <1>1, <1>4, <2>1, EntryBeyond
  <2>3. \A c : WordAt(m1, c) = WordAt(memory, c)
    <3> HIDE DEF k
    <3> QED BY <1>1, <2>2, FilledBeyond
  <2>4. Kept(machine, m1)
    <3>1. /\ FrameEntriesAt(machine) \in Nat /\ HeapBitmapAt(machine) \in Nat
          /\ HeapAt(machine) \in Nat /\ FrameEntriesAt(machine) + 8 <= HeapAt(machine)
          /\ HeapAt(machine) + 5 <= HeapBitmapAt(machine)
      BY <1>1, Layout, Zenon DEF LaidOut
    <3> HIDE DEF k
    <3>2. FrameEntriesAt(machine) <= HeapEntry(k) /\ 1 \in Nat
      BY <2>2, <3>1, SMT
    <3> QED BY <1>1, <2>2, <3>2, FilledBehind
  <2> HIDE DEF m1, f
  <2> QED BY <1>1, <1>2, <1>3, <1>5, <2>3, <2>4, HeapAfterFrame
<1>7. CASE ~Fits(machine)
  BY <1>2, <1>7, Zenon DEF HeapInv
<1> QED BY <1>6, <1>7

LEMMA HeapAfterDirectory ==
  ASSUME Stages, HeapInv, directory_create \/ table_create
  PROVE  HeapInv'
<1> DEFINE f == frame_find
<1>1. /\ pc \in Started /\ pc \in Steady /\ pc' \in Started /\ machine \in Machines
      /\ Kept(machine, memory)
  BY Zenon DEF Stages, directory_create, table_create, Steady, Started, Placed
<1>2. /\ marked' = f + 1 /\ machine' = machine
      /\ \E v : memory' = Fill(frame_alloc(memory, f), f * PAGE_SIZE, ENTRY_SIZE, v)
  BY Zenon DEF directory_create, table_create
<1>3. FoundFrame(f)
  BY <1>1, FrameFound
<1>4. FrameEntry(f) = FrameEntriesAt(machine) + 4 * f
  BY <1>1, FrameEntryAt
<1> HIDE DEF f
<1>5. PICK v : memory' = FrameCleared(machine, memory, f, v)
  BY <1>2, <1>4, Zenon DEF frame_alloc, FrameCleared, FrameMarked
<1> QED BY <1>1, <1>2, <1>3, <1>5, HeapAfterFrame

LEMMA HeapInvStep ==
  ASSUME StageInv, HeapInv, [Next]_vars
  PROVE  HeapInv'
<1>1. Stages
  BY DEF StageInv
<1>2. CASE Next
  <2>1. CASE multiboot_print \/ CreateFrameBitmap
    BY <2>1, Zenon DEF multiboot_print, CreateFrameBitmap, HeapInv, Steady, Started
  <2>2. CASE paging_enable \/ Astray
    <3>1. /\ pc # "mark" /\ pc \in Steady /\ pc' # "mark"
          /\ machine' = machine /\ memory' = memory /\ marked' = marked
      BY <2>2, Zenon DEF paging_enable, Astray, Steady, Started
    <3> QED BY <3>1, Zenon DEF HeapInv, AsCreated
  <2>3. CASE heap_alloc_null \/ Stopped
    <3>1. pc' = pc /\ machine' = machine /\ memory' = memory /\ marked' = marked
      BY <2>3, Zenon DEF heap_alloc_null, Stopped, vars
    <3> QED BY <3>1, Zenon DEF HeapInv, AsCreated
  <2> QED BY <1>1, <1>2, <2>1, <2>2, <2>3, HeapCreated, HeapMarked, HeapAfterDirectory,
             HeapAllocated, Zenon DEF Next
<1>3. CASE UNCHANGED vars
  <2>1. pc' = pc /\ machine' = machine /\ memory' = memory /\ marked' = marked
    BY <1>3, Zenon DEF vars
  <2> QED BY <2>1, Zenon DEF HeapInv, AsCreated
<1> QED BY <1>2, <1>3

LEMMA HeapInvariance == Spec => [](StageInv /\ HeapInv)
<1>1. Init => StageInv /\ HeapInv
  BY StageInit, Zenon DEF Init, HeapInv, Steady, Started
<1>2. StageInv /\ HeapInv /\ [Next]_vars => StageInv' /\ HeapInv'
  BY StageStep, HeapInvStep
<1> QED BY <1>1, <1>2, PTL DEF Spec

(* Heap structure and bitmap structure, where they do not mangle each other. *)
LEMMA NotMangled ==
  ASSUME Stages, pc \in Steady, ~Mangled
  PROVE  Fits(machine)
<1>1. /\ heap_bitmap = HeapBitmapAt(machine) /\ kernel_heap = HeapAt(machine)
      /\ machine \in Machines
  BY Zenon DEF Stages, Placed
<1>2. /\ HeapBitmapAt(machine) \in Nat /\ HeapAt(machine) \in Nat
      /\ HeapAt(machine) + 5 <= HeapBitmapAt(machine)
  BY <1>1, Layout, Zenon DEF LaidOut
<1>3. \/ kernel_heap + 13 <= heap_bitmap \/ heap_bitmap + 8 <= kernel_heap
      \/ kernel_heap + 9 = heap_bitmap
  BY Zenon DEF Mangled, Disjoint
<1> QED BY <1>1, <1>2, <1>3, SMT DEF Fits

(* The heap structure as heap_create stored it, read from its words. *)
LEMMA CreatedRead ==
  ASSUME Stages, pc \in Steady, HeapWords(machine, memory), BitmapWords(machine, memory)
  PROVE  HeapAsCreated /\ Pointer(heap_bitmap) = BaseOf(machine)
<1>1. /\ heap_bitmap = HeapBitmapAt(machine) /\ kernel_heap = HeapAt(machine)
      /\ kernel_pointer = LayoutEnd(machine) /\ machine \in Machines
  BY Zenon DEF Stages, Placed
<1>2. Start = StartOf(machine) /\ Entries = EntriesOf(machine)
  BY Zenon DEF Start, StartOf, Entries, EntriesOf
<1>3. /\ Load(kernel_heap) = Bytes(Start) /\ Load(kernel_heap + 9) = Bytes(heap_bitmap)
      /\ Load(heap_bitmap + 4) = Bytes(Entries)
  BY <1>1, <1>2, Loads, Zenon DEF HeapWords, BitmapWords
<1>4. LaidOut(machine)
  BY <1>1, Layout
<1>5. BaseOf(machine) \in Nat /\ BaseOf(machine) < TwoGB
  BY <1>4, SMT DEF LaidOut, BaseOf, TwoGB
<1>6. Pointer(heap_bitmap) = BaseOf(machine)
  <2>1. Pointer(heap_bitmap) = AddressOf(Bytes(BaseOf(machine)))
    BY <1>1, Loads, Zenon DEF BitmapWords
  <2> QED BY <1>5, <2>1, AddressBack
<1>7. BaseOf(machine) \in heap_bitmap..kernel_pointer
  BY <1>1, <1>4, SMT DEF LaidOut, BaseOf
<1> QED BY <1>3, <1>6, <1>7, Zenon DEF HeapAsCreated

(* All of the heap's entries are below the first frame that is handed out. *)
LEMMA EntriesBelow ==
  ASSUME NEW m \in Machines, NEW k \in 0..(StartOf(m) \div PAGE_SIZE)
  PROVE  /\ BaseOf(m) + 4 * k \in Int
         /\ BaseOf(m) + 4 * k + 4 <= PAGE_SIZE * FirstFrame(m)
<1>1. LaidOut(m) /\ EndsBelow(m)
  BY Layout
<1>2. /\ HeapBitmapAt(m) \in Nat /\ HeapEntriesAt(m) \in Nat /\ FirstFrame(m) \in Nat
      /\ StartOf(m) \in Nat /\ HeapBitmapAt(m) + 8 <= HeapEntriesAt(m)
  BY <1>1, Zenon DEF LaidOut
<1>3. HeapEntriesAt(m) + 4 * (StartOf(m) \div PAGE_SIZE) + 4 <= PAGE_SIZE * FirstFrame(m)
  BY <1>1, Zenon DEF EndsBelow
<1>4. BaseOf(m) \in {HeapBitmapAt(m), HeapEntriesAt(m)}
  BY DEF BaseOf
<1> QED BY <1>2, <1>3, <1>4, SMT DEF PAGE_SIZE

(* What the words of the structures say. *)
LEMMA HeapRead ==
  ASSUME StageInv, HeapInv
  PROVE  HeapKept
<1> SUFFICES ASSUME Stages, HeapInv, pc \in {"directory", "map", "running"},
                    ShortOfHeap, ~Mangled
             PROVE  /\ HeapAsCreated
                    /\ \A k \in 0..(Start \div PAGE_SIZE) :
                         HeapEntry(k) + 4 <= PAGE_SIZE * PagesBelow(kernel_pointer)
  BY DEF StageInv, HeapKept
<1>1. /\ pc \in Started /\ pc \in Steady /\ machine \in Machines
      /\ kernel_heap = HeapAt(machine) /\ kernel_pointer = LayoutEnd(machine)
  BY Zenon DEF Stages, Steady, Started, Placed
<1>2. FrameEntriesAt(machine) + 4 * marked <= HeapAt(machine)
  BY <1>1, FrameEntryAt, Zenon DEF ShortOfHeap
<1>3. HeapWords(machine, memory) /\ BitmapWords(machine, memory)
  BY <1>1, <1>2, NotMangled, Zenon DEF HeapInv, AsCreated
<1>4. HeapAsCreated /\ Pointer(heap_bitmap) = BaseOf(machine)
  BY <1>1, <1>3, CreatedRead
<1>5. Start = StartOf(machine) /\ PagesBelow(kernel_pointer) = FirstFrame(machine)
  BY <1>1, Zenon DEF Start, StartOf, FirstFrame
<1>6. ASSUME NEW k \in 0..(Start \div PAGE_SIZE)
      PROVE  HeapEntry(k) + 4 <= PAGE_SIZE * PagesBelow(kernel_pointer)
  <2>1. HeapEntry(k) = BaseOf(machine) + 4 * k
    BY <1>4, Zenon DEF HeapEntry
  <2> QED BY <1>1, <1>5, <2>1, EntriesBelow
<1> QED BY <1>4, <1>6

(* Although the structures lie in one another and in the entries of the bitmaps,
   the heap structure says what heap_create stored until the frames in use reach
   it, and the bitmap it leads to has room for every page of the heap below the
   first frame that is handed out, except on the machines where heap structure
   and bitmap structure mangle each other. *)
THEOREM HeapStructureKept == Spec => []HeapKept
<1>1. StageInv /\ HeapInv => HeapKept
  BY HeapRead
<1> QED BY <1>1, HeapInvariance, PTL

-----------------------------------------------------------------------------
(* Frames and pages.                                                       *)

Early == {"multiboot", "frames", "heap", "mark", "directory"}
Late == {"map", "running", "astray"}

(* There are as many frames as tables and pages, *)
Counted ==
  /\ IsFiniteSet(DOMAIN tables) /\ IsFiniteSet(DOMAIN mapped) /\ IsFiniteSet(Taken)
  /\ Cardinality(Taken) = Cardinality(DOMAIN tables) + Cardinality(DOMAIN mapped)

(* all of them between the frame of the directory and the last one that was marked, *)
Ordered ==
  pc \in Late =>
    /\ directory \in Nat /\ FirstFrame(machine) <= directory /\ directory < marked
    /\ \A f \in Taken : f \in Nat /\ directory < f /\ f < marked

(* and no frame is lost in between but for the entries that hold a structure. *)
Accounted ==
  /\ pc = "directory" => marked = FirstFrame(machine)
  /\ pc \in Late => \A g \in FirstFrame(machine)..(marked - 1) :
                      g = directory \/ g \in Taken \/ Occupied(machine, g)

(* The tables that the kernel, image and structures need, *)
LastTable == (FirstFrame(machine) - 1) \div ENTRY_SIZE
TablesMade ==
  /\ DOMAIN tables \subseteq 0..LastTable
  /\ pc \in {"running", "astray"} => DOMAIN tables = 0..LastTable

(* and the heap's pages: as many as indices, below the start of the heap, *)
PagesMade ==
  /\ pc \in Early => DOMAIN tables = {}
  /\ pc \in Early \cup {"map"} => DOMAIN mapped = {}
  /\ DOMAIN mapped = {PageOfIndex(k) : k \in used}
  /\ Cardinality(used) <= MaxHeapPages
  /\ \A v \in DOMAIN mapped : v \in Int /\ 1 <= v /\ v < ENTRY_SIZE

(* and, while the kernel is followed, none that it needs itself. *)
PagesSpared ==
  pc = "running" => \A v \in DOMAIN mapped :
    /\ v # directory /\ \A d \in DOMAIN tables : v # tables[d]
    /\ v \notin (KernelBase \div PAGE_SIZE)..(FirstFrame(machine) - 1)

Resources == Counted /\ Ordered /\ Accounted /\ TablesMade /\ PagesMade /\ PagesSpared

LEMMA ResourcesInit ==
  ASSUME Init
  PROVE  Resources
<1>1. /\ pc = "multiboot" /\ tables = [d \in {} |-> 0] /\ mapped = [v \in {} |-> 0]
      /\ used = {} /\ marked = 0
  BY DEF Init
<1>2. DOMAIN tables = {} /\ DOMAIN mapped = {} /\ Taken = {}
  BY <1>1 DEF Taken
<1>3. IsFiniteSet({}) /\ Cardinality({}) = 0
  BY FS_EmptySet
<1>4. Counted
  BY <1>2, <1>3, SMT DEF Counted
<1>5. MaxHeapPages \in Nat
  BY BootAssumption
<1>6. PagesMade
  <2>1. DOMAIN mapped = {PageOfIndex(k) : k \in used}
    BY <1>1, <1>2
  <2>2. Cardinality(used) <= MaxHeapPages
    BY <1>1, <1>3, <1>5, SMT
  <2> QED BY <1>1, <1>2, <2>1, <2>2, Zenon DEF PagesMade
<1> QED BY <1>1, <1>2, <1>4, <1>6, Zenon
        DEF Resources, Ordered, Accounted, TablesMade, PagesSpared, Late

(* A function with one more argument, and the frames that it leads to. *)
Extended(t, d, f) == [e \in DOMAIN t \cup {d} |-> IF e = d THEN f ELSE t[e]]
Frames(t) == {t[e] : e \in DOMAIN t}

Extends(n, t, d, f) ==
  /\ DOMAIN n = DOMAIN t \cup {d} /\ n[d] = f /\ \A e \in DOMAIN t : n[e] = t[e]
  /\ Frames(n) = Frames(t) \cup {f}

(* The two functions of frames. *)
LEMMA TakenFrames == Taken = Frames(tables) \cup Frames(mapped)
BY DEF Taken, Frames

LEMMA ExtendedRange ==
  ASSUME NEW t, NEW d, d \notin DOMAIN t, NEW f
  PROVE  Extends(Extended(t, d, f), t, d, f)
<1>1. /\ DOMAIN Extended(t, d, f) = DOMAIN t \cup {d}
      /\ Extended(t, d, f)[d] = f
      /\ \A e \in DOMAIN t : Extended(t, d, f)[e] = t[e]
  BY DEF Extended
<1>2. Frames(Extended(t, d, f)) = Frames(t) \cup {f}
  <2> DEFINE n == Extended(t, d, f)
  <2>1. DOMAIN n = DOMAIN t \cup {d} /\ n[d] = f /\ \A e \in DOMAIN t : n[e] = t[e]
    BY <1>1
  <2> HIDE DEF n
  <2>2. Frames(n) = Frames(t) \cup {f}
    BY <2>1 DEF Frames
  <2> QED BY <2>2 DEF n
<1> QED BY <1>1, <1>2, Zenon DEF Extends

(* The frame that is found next is a new one, and only occupied entries are between
   it and the last one. *)
LEMMA NewFrame ==
  ASSUME Stages, Ordered, Accounted, pc \in Late, NEW f, FoundFrame(f),
         pc' \in Late, marked' = f + 1, machine' = machine, directory' = directory,
         Taken' = Taken \cup {f}
  PROVE  f \notin Taken /\ Ordered' /\ Accounted'
<1>1. /\ marked \in Nat /\ machine \in Machines
  BY Zenon DEF Stages, Late, Started
<1>2. f \in Nat /\ marked <= f /\ \A g \in marked..(f - 1) : Occupied(machine, g)
  BY Zenon DEF FoundFrame
<1>3. /\ directory \in Nat /\ FirstFrame(machine) <= directory /\ directory < marked
      /\ \A g \in Taken : g \in Nat /\ directory < g /\ g < marked
  BY Zenon DEF Ordered
<1>4. f \notin Taken
  BY <1>1, <1>2, <1>3, SMT
<1>5. Ordered'
  <2>1. directory < marked' /\ directory < f /\ f < marked'
    BY <1>1, <1>2, <1>3, SMT
  <2>2. ASSUME NEW g \in Taken PROVE g \in Nat /\ directory < g /\ g < marked'
    BY <1>1, <1>2, <1>3, SMT
  <2>3. \A g \in Taken' : g \in Nat /\ directory < g /\ g < marked'
    BY <1>2, <2>1, <2>2
  <2> QED BY <1>3, <2>1, <2>3, Zenon DEF Ordered
<1>6. Accounted'
  <2>1. FirstFrame(machine) \in Nat
    BY <1>1, Layout, Zenon DEF LaidOut
  <2>2. ASSUME NEW g \in FirstFrame(machine)..(marked' - 1)
        PROVE  g = directory \/ g \in Taken' \/ Occupied(machine, g)
    <3>1. g \in FirstFrame(machine)..(marked - 1) \/ g \in marked..(f - 1) \/ g = f
      BY <1>1, <1>2, <2>1, <2>2, SMT
    <3>2. CASE g \in FirstFrame(machine)..(marked - 1)
      BY <3>2 DEF Accounted
    <3> QED BY <1>2, <3>1, <3>2
  <2>3. pc' = "directory" => marked' = FirstFrame(machine)
    BY Zenon DEF Late
  <2> QED BY <2>2, <2>3, Zenon DEF Accounted
<1> QED BY <1>4, <1>5, <1>6

(* Steps that take no frame. *)
LEMMA ResourcesStay ==
  ASSUME Resources, machine' = machine, tables' = tables, mapped' = mapped, used' = used
  PROVE  /\ Counted'
         /\ pc' \in {"running", "astray"} \/ (pc \in Early /\ pc' \in Early \cup {"map"}) => PagesMade'
<1>1. Taken' = Taken
  BY DEF Taken
<1>2. Counted'
  BY <1>1, Zenon DEF Resources, Counted
<1>3. \A k : PageOfIndex(k)' = PageOfIndex(k)
  BY DEF PageOfIndex, Start
<1>4. {PageOfIndex(k)' : k \in used} = {PageOfIndex(k) : k \in used}
  BY <1>3
<1>5. DOMAIN mapped' = {PageOfIndex(k)' : k \in used}
  BY <1>4 DEF Resources, PagesMade
<1>6. pc' \in {"running", "astray"} \/ (pc \in Early /\ pc' \in Early \cup {"map"}) => PagesMade'
  <2>1. CASE pc' \in {"running", "astray"}
    <3>1. pc' \notin Early \cup {"map"}
      BY <2>1 DEF Early
    <3> QED BY <1>5, <3>1, Zenon DEF Resources, PagesMade
  <2>2. CASE pc \in Early /\ pc' \in Early \cup {"map"}
    BY <1>5, <2>2, Zenon DEF Resources, PagesMade
  <2> QED BY <2>1, <2>2
<1> QED BY <1>2, <1>6

(* Before the directory is made there are no frames. *)
LEMMA EarlyResources ==
  ASSUME Stages, Resources, multiboot_print \/ CreateFrameBitmap \/ heap_create \/ MarkKernel
  PROVE  Resources'
<1>1. /\ pc \in Early /\ pc' \in Early /\ machine' = machine /\ tables' = tables
      /\ mapped' = mapped /\ used' = used
  BY Zenon DEF multiboot_print, CreateFrameBitmap, heap_create, MarkKernel, Early
<1>2. pc' \notin Late /\ pc' \notin {"running", "astray"} /\ pc' # "running"
  BY <1>1, Zenon DEF Early, Late
<1>3. Counted' /\ PagesMade'
  BY <1>1, ResourcesStay, Zenon
<1>4. pc' = "directory" => marked' = FirstFrame(machine)
  <2>1. CASE MarkKernel
    <3>1. kernel_pointer = LayoutEnd(machine) /\ marked' = PagesBelow(kernel_pointer)
      BY <2>1, Zenon DEF MarkKernel, Stages, Steady, Placed
    <3> QED BY <3>1, Zenon DEF FirstFrame
  <2> QED BY <2>1, Zenon DEF multiboot_print, CreateFrameBitmap, heap_create
<1>5. DOMAIN tables = {}
  BY <1>1, Zenon DEF Resources, PagesMade
<1> QED BY <1>1, <1>2, <1>3, <1>4, <1>5, Zenon
        DEF Resources, Ordered, Accounted, TablesMade, PagesSpared

(* The directory takes the first frame. *)
LEMMA DirectoryResources ==
  ASSUME Stages, Resources, directory_create
  PROVE  Resources'
<1> DEFINE f == frame_find
<1>1. /\ pc = "directory" /\ pc \in Started /\ pc' = "map" /\ machine' = machine
      /\ tables' = tables /\ mapped' = mapped /\ used' = used
      /\ directory' = f /\ marked' = f + 1
  BY DEF directory_create, Started
<1>2. FoundFrame(f)
  BY <1>1, FrameFound
<1> HIDE DEF f
<1>3. /\ f \in Nat /\ marked <= f /\ \A g \in marked..(f - 1) : Occupied(machine, g)
  BY <1>2, Zenon DEF FoundFrame
<1>4. marked = FirstFrame(machine) /\ FirstFrame(machine) \in Nat
  BY <1>1, Layout, Zenon DEF Resources, Accounted, Stages, LaidOut
<1>5. Counted' /\ PagesMade'
  BY <1>1, ResourcesStay, Zenon DEF Early
<1>6. /\ DOMAIN tables = {} /\ DOMAIN mapped = {} /\ Taken' = {}
  BY <1>1 DEF Resources, PagesMade, Early, Taken
<1>7. Ordered'
  <2>1. directory' \in Nat /\ FirstFrame(machine) <= directory' /\ directory' < marked'
    BY <1>1, <1>3, <1>4, SMT
  <2> QED BY <1>1, <1>6, <2>1, Zenon DEF Ordered
<1>8. Accounted'
  <2>1. ASSUME NEW g \in FirstFrame(machine)..(marked' - 1)
        PROVE  g = directory' \/ Occupied(machine, g)
    <3>1. g \in marked..(f - 1) \/ g = f
      BY <1>1, <1>3, <1>4, <2>1, SMT
    <3> QED BY <1>1, <1>3, <3>1
  <2> QED BY <1>1, <2>1, Zenon DEF Accounted
<1> QED BY <1>1, <1>5, <1>6, <1>7, <1>8, Zenon DEF Resources, TablesMade, PagesSpared

(* One more table, which the loop asked for. *)
LEMMA TableResources ==
  ASSUME Stages, Resources, table_create
  PROVE  Resources'
<1> DEFINE f == frame_find
           d == CHOOSE x \in Unmapped : \A e \in Unmapped : x <= e
<1>1. /\ pc = "map" /\ pc' = "map" /\ pc \in Started /\ pc \in Late /\ pc' \in Late
      /\ machine' = machine /\ mapped' = mapped /\ used' = used
      /\ directory' = directory /\ marked' = f + 1 /\ Unmapped # {}
      /\ tables' = Extended(tables, d, f)
  BY DEF table_create, Started, Late, Extended
<1>2. FoundFrame(f)
  BY <1>1, FrameFound
<1>3. Unmapped = (0..LastTable) \ DOMAIN tables
  <2>1. kernel_pointer = LayoutEnd(machine)
    BY <1>1, Zenon DEF Stages, Steady, Placed
  <2> QED BY <2>1, Zenon DEF Unmapped, LastTable, FirstFrame
<1>4. d \in 0..LastTable /\ d \notin DOMAIN tables
  <2>1. Unmapped \in SUBSET Nat
    BY <1>3, SMT
  <2>2. \E x \in Unmapped : \A e \in Unmapped : x <= e
    BY <1>1, <2>1, LeastElement
  <2>3. d \in Unmapped
    BY <2>2, Zenon
  <2> HIDE DEF d
  <2> QED BY <1>3, <2>3
<1> HIDE DEF f, d
<1>5. DOMAIN tables' = DOMAIN tables \cup {d} /\ Taken' = Taken \cup {f}
  <2>1. /\ DOMAIN Extended(tables, d, f) = DOMAIN tables \cup {d}
        /\ Frames(Extended(tables, d, f)) = Frames(tables) \cup {f}
    <3>1. d \notin DOMAIN tables
      BY <1>4
    <3>2. Extends(Extended(tables, d, f), tables, d, f)
      BY <3>1, ExtendedRange, Zenon
    <3> QED BY <3>2, Zenon DEF Extends
  <2>2. Frames(mapped') = Frames(mapped)
    BY <1>1
  <2>3. Taken' = Frames(tables') \cup Frames(mapped')
    BY DEF Taken, Frames
  <2> QED BY <1>1, <2>1, <2>2, <2>3, TakenFrames
<1>6. f \notin Taken /\ Ordered' /\ Accounted'
  BY <1>1, <1>2, <1>5, NewFrame, Zenon DEF Resources
<1>7. Counted'
  <2>1. Counted
    BY DEF Resources
  <2>2. /\ IsFiniteSet(Taken') /\ Cardinality(Taken') = Cardinality(Taken) + 1
        /\ IsFiniteSet(DOMAIN tables')
        /\ Cardinality(DOMAIN tables') = Cardinality(DOMAIN tables) + 1
    BY <1>4, <1>5, <1>6, <2>1, FS_AddElement DEF Counted
  <2>3. /\ Cardinality(DOMAIN tables) \in Nat /\ Cardinality(DOMAIN mapped) \in Nat
    BY <2>1, FS_CardinalityType DEF Counted
  <2>4. /\ IsFiniteSet(DOMAIN mapped')
        /\ Cardinality(DOMAIN mapped') = Cardinality(DOMAIN mapped)
    BY <1>1, <2>1, Zenon DEF Counted
  <2>5. Cardinality(Taken') = Cardinality(DOMAIN tables') + Cardinality(DOMAIN mapped')
    <3>1. Cardinality(Taken) = Cardinality(DOMAIN tables) + Cardinality(DOMAIN mapped)
      BY <2>1, Zenon DEF Counted
    <3> QED BY <2>2, <2>3, <2>4, <3>1, SMT
  <2> QED BY <2>2, <2>4, <2>5, Zenon DEF Counted
<1>8. TablesMade'
  <2>1. LastTable' = LastTable
    BY <1>1, Zenon DEF LastTable
  <2>2. DOMAIN tables \subseteq 0..LastTable
    BY Zenon DEF Resources, TablesMade
  <2>3. DOMAIN tables' \subseteq 0..LastTable
    BY <1>4, <1>5, <2>2, Zenon
  <2> QED BY <1>1, <2>1, <2>3, Zenon DEF TablesMade
<1>9. PagesMade'
  <2>1. \A k : PageOfIndex(k)' = PageOfIndex(k)
    BY <1>1 DEF PageOfIndex, Start
  <2>2. {PageOfIndex(k)' : k \in used} = {PageOfIndex(k) : k \in used}
    BY <2>1
  <2>3. DOMAIN mapped' = {PageOfIndex(k)' : k \in used}
    BY <1>1, <2>2 DEF Resources, PagesMade
  <2> QED BY <1>1, <2>3, Zenon DEF Resources, PagesMade, Early
<1> QED BY <1>1, <1>6, <1>7, <1>8, <1>9, Zenon DEF Resources, PagesSpared

(* The page that an index of the heap stands for. *)
LEMMA PagesDiffer ==
  ASSUME Stages
  PROVE  /\ Start \div PAGE_SIZE \in Nat /\ Start \div PAGE_SIZE < ENTRY_SIZE
         /\ \A k \in Nat : PageOfIndex(k) \in Int
         /\ \A k, l \in Nat : PageOfIndex(k) = PageOfIndex(l) => k = l
         /\ \A k \in Nat : ~NoMemory(PageOfIndex(k)) =>
              1 <= PageOfIndex(k) /\ PageOfIndex(k) < ENTRY_SIZE
<1>1. machine \in Machines /\ Start = StartOf(machine)
  BY DEF Stages, Start, StartOf
<1>2. StartOf(machine) \in Nat /\ StartOf(machine) \div PAGE_SIZE < ENTRY_SIZE
  BY <1>1, Layout, Zenon DEF LaidOut, EndsBelow
<1> DEFINE s == Start \div PAGE_SIZE
<1>3. s \in Nat /\ s < ENTRY_SIZE /\ ENTRY_SIZE \in Nat
  BY <1>1, <1>2, SMT DEF PAGE_SIZE, ENTRY_SIZE
<1>4. \A k : PageOfIndex(k) = s - k
  BY DEF PageOfIndex
<1> HIDE DEF s
<1> QED BY <1>3, <1>4, SMT DEF NoMemory, s

(* A page from the heap, with a frame of its own. *)
LEMMA AllocResources ==
  ASSUME Stages, Resources, heap_alloc
  PROVE  Resources'
<1> DEFINE f == frame_find
           k == Index
           v == PageOfIndex(Index)
<1>1. /\ pc = "running" /\ pc' \in {"running", "astray"} /\ pc \in Started /\ pc \in Late
      /\ pc' \in Late /\ machine' = machine /\ tables' = tables
      /\ used' = used \cup {k} /\ directory' = directory /\ marked' = f + 1
      /\ HeapAsCreated /\ Cardinality(used) < MaxHeapPages /\ ~NoMemory(v)
      /\ mapped' = Extended(mapped, v, f)
      /\ pc' = "running" => v \notin {directory} \cup KernelPages
  BY DEF heap_alloc, Started, Late, Extended
<1>2. FoundFrame(f) /\ FoundIndex(k)
  BY <1>1, FrameFound, IndexFound
<1>3. k \in Nat /\ k \notin used /\ used \in SUBSET Nat /\ IsFiniteSet(used) /\ v = PageOfIndex(k)
  BY <1>2, Zenon DEF FoundIndex, Stages
<1> HIDE DEF f, k, v
<1>4. v \notin DOMAIN mapped
  <2>1. DOMAIN mapped = {PageOfIndex(l) : l \in used}
    BY Zenon DEF Resources, PagesMade
  <2>2. \A l \in used : PageOfIndex(l) # v
    BY <1>3, PagesDiffer
  <2> QED BY <2>1, <2>2
<1>5. DOMAIN mapped' = DOMAIN mapped \cup {v} /\ Taken' = Taken \cup {f}
  <2>1. Extends(Extended(mapped, v, f), mapped, v, f)
    BY <1>4, ExtendedRange, Zenon
  <2>2. DOMAIN mapped' = DOMAIN mapped \cup {v} /\ Frames(mapped') = Frames(mapped) \cup {f}
    BY <1>1, <2>1, Zenon DEF Extends
  <2>3. Frames(tables') = Frames(tables)
    BY <1>1
  <2>4. Taken' = Frames(tables') \cup Frames(mapped')
    BY DEF Taken, Frames
  <2> QED BY <2>2, <2>3, <2>4, TakenFrames
<1>6. f \notin Taken /\ Ordered' /\ Accounted'
  BY <1>1, <1>2, <1>5, NewFrame, Zenon DEF Resources
<1>7. Counted'
  <2>1. Counted
    BY DEF Resources
  <2>2. /\ IsFiniteSet(Taken') /\ Cardinality(Taken') = Cardinality(Taken) + 1
        /\ IsFiniteSet(DOMAIN mapped')
        /\ Cardinality(DOMAIN mapped') = Cardinality(DOMAIN mapped) + 1
    BY <1>4, <1>5, <1>6, <2>1, FS_AddElement DEF Counted
  <2>3. /\ Cardinality(DOMAIN tables) \in Nat /\ Cardinality(DOMAIN mapped) \in Nat
    BY <2>1, FS_CardinalityType DEF Counted
  <2>4. /\ IsFiniteSet(DOMAIN tables')
        /\ Cardinality(DOMAIN tables') = Cardinality(DOMAIN tables)
    BY <1>1, <2>1, Zenon DEF Counted
  <2>5. Cardinality(Taken') = Cardinality(DOMAIN tables') + Cardinality(DOMAIN mapped')
    <3>1. Cardinality(Taken) = Cardinality(DOMAIN tables) + Cardinality(DOMAIN mapped)
      BY <2>1, Zenon DEF Counted
    <3> QED BY <2>2, <2>3, <2>4, <3>1, SMT
  <2> QED BY <2>2, <2>4, <2>5, Zenon DEF Counted
<1>8. TablesMade'
  <2>1. LastTable' = LastTable
    BY <1>1, Zenon DEF LastTable
  <2>2. DOMAIN tables = 0..LastTable
    BY <1>1, Zenon DEF Resources, TablesMade
  <2> QED BY <1>1, <2>1, <2>2, Zenon DEF TablesMade
<1>9. PagesMade'
  <2>1. \A l : PageOfIndex(l)' = PageOfIndex(l)
    BY <1>1 DEF PageOfIndex, Start
  <2>2. {PageOfIndex(l)' : l \in used'} = {PageOfIndex(l) : l \in used} \cup {v}
    BY <1>1, <1>3, <2>1
  <2>3. DOMAIN mapped' = {PageOfIndex(l)' : l \in used'}
    BY <1>5, <2>2 DEF Resources, PagesMade
  <2>4. Cardinality(used') <= MaxHeapPages
    <3>1. Cardinality(used \cup {k}) = Cardinality(used) + 1
      BY <1>3, FS_AddElement
    <3>2. Cardinality(used) \in Nat /\ MaxHeapPages \in Nat
      BY <1>3, FS_CardinalityType, BootAssumption
    <3> QED BY <1>1, <3>1, <3>2, SMT
  <2>5. v \in Int /\ 1 <= v /\ v < ENTRY_SIZE
    BY <1>1, <1>3, PagesDiffer
  <2>6. \A w \in DOMAIN mapped' : w \in Int /\ 1 <= w /\ w < ENTRY_SIZE
    BY <1>5, <2>5 DEF Resources, PagesMade
  <2>7. pc' \notin Early \cup {"map"}
    BY <1>1 DEF Early
  <2> QED BY <2>3, <2>4, <2>6, <2>7, Zenon DEF PagesMade
<1>10. PagesSpared'
  <2> SUFFICES ASSUME pc' = "running", NEW w \in DOMAIN mapped'
               PROVE  /\ w # directory /\ \A d \in DOMAIN tables : w # tables[d]
                      /\ w \notin (KernelBase \div PAGE_SIZE)..(FirstFrame(machine) - 1)
    BY <1>1, Zenon DEF PagesSpared
  <2>1. CASE w \in DOMAIN mapped
    BY <1>1, <2>1, Zenon DEF Resources, PagesSpared
  <2>2. CASE w = v
    <3>1. v \notin {directory} \cup (KernelBase \div PAGE_SIZE)..(marked - 1)
      BY <1>1, Zenon DEF KernelPages
    <3>2. /\ directory \in Nat /\ FirstFrame(machine) <= directory /\ directory < marked
          /\ \A g \in Taken : g \in Nat /\ directory < g /\ g < marked
      BY <1>1, Zenon DEF Resources, Ordered
    <3>3. FirstFrame(machine) \in Nat /\ KernelBase \div PAGE_SIZE <= FirstFrame(machine)
      BY Layout, Zenon DEF Stages, LaidOut, EndsBelow
    <3>4. KernelBase \div PAGE_SIZE \in Nat /\ marked \in Nat
      BY <1>1, SMT DEF KernelBase, PAGE_SIZE, Stages
    <3>5. v \notin (KernelBase \div PAGE_SIZE)..(FirstFrame(machine) - 1)
      BY <3>1, <3>2, <3>3, <3>4
    <3>6. ASSUME NEW d \in DOMAIN tables PROVE v # tables[d]
      <4>1. tables[d] \in Taken
        BY DEF Taken
      <4>2. tables[d] \in (KernelBase \div PAGE_SIZE)..(marked - 1)
        BY <3>2, <3>3, <3>4, <4>1
      <4> QED BY <3>1, <4>2
    <3> QED BY <2>2, <3>1, <3>5, <3>6
  <2> QED BY <1>5, <2>1, <2>2
<1> QED BY <1>6, <1>7, <1>8, <1>9, <1>10, Zenon DEF Resources

(* Turning paging on, or leaving the model. *)
LEMMA QuietResources ==
  ASSUME Stages, Resources, paging_enable \/ Astray
  PROVE  Resources'
<1>1. /\ pc \in Late /\ pc' \in {"running", "astray"} /\ machine' = machine
      /\ tables' = tables /\ mapped' = mapped /\ used' = used
      /\ directory' = directory /\ marked' = marked
  BY DEF paging_enable, Astray, Late
<1>2. Taken' = Taken
  BY <1>1 DEF Taken
<1>3. Counted' /\ PagesMade'
  BY <1>1, ResourcesStay, Zenon DEF Early
<1>4. Ordered' /\ Accounted'
  BY <1>1, <1>2, Zenon DEF Resources, Ordered, Accounted
<1>5. TablesMade'
  <2>1. LastTable' = LastTable
    BY <1>1, Zenon DEF LastTable
  <2>2. DOMAIN tables = 0..LastTable
    <3>1. CASE paging_enable
      <4>1. Unmapped = {} /\ kernel_pointer = LayoutEnd(machine)
        BY <3>1, Zenon DEF paging_enable, Stages, Steady, Started, Placed
      <4>2. Unmapped = (0..LastTable) \ DOMAIN tables
        BY <4>1, Zenon DEF Unmapped, LastTable, FirstFrame
      <4>3. DOMAIN tables \subseteq 0..LastTable
        BY Zenon DEF Resources, TablesMade
      <4> HIDE DEF Unmapped
      <4> QED BY <4>1, <4>2, <4>3
    <3>2. CASE Astray
      BY <3>2, Zenon DEF Astray, Resources, TablesMade
    <3> QED BY <3>1, <3>2
  <2> QED BY <1>1, <2>1, <2>2, Zenon DEF TablesMade
<1>6. PagesSpared'
  <2>1. CASE paging_enable
    <3>1. DOMAIN mapped' = {}
      BY <1>1, <2>1, Zenon DEF paging_enable, Resources, PagesMade
    <3> QED BY <3>1, Zenon DEF PagesSpared
  <2>2. CASE Astray
    BY <2>2, Zenon DEF Astray, PagesSpared
  <2> QED BY <2>1, <2>2
<1> QED BY <1>3, <1>4, <1>5, <1>6, Zenon DEF Resources

LEMMA StutterResources ==
  ASSUME Resources, UNCHANGED vars
  PROVE  Resources'
<1>1. /\ pc' = pc /\ machine' = machine /\ tables' = tables /\ mapped' = mapped
      /\ used' = used /\ directory' = directory /\ marked' = marked
  BY DEF vars
<1>2. Taken' = Taken
  BY <1>1 DEF Taken
<1>3. \A k : PageOfIndex(k)' = PageOfIndex(k)
  BY <1>1 DEF PageOfIndex, Start
<1>4. {PageOfIndex(k)' : k \in used'} = {PageOfIndex(k) : k \in used}
  BY <1>1, <1>3
<1>5. DOMAIN mapped' = {PageOfIndex(k)' : k \in used'}
  BY <1>1, <1>4 DEF Resources, PagesMade
<1>6. PagesMade'
  BY <1>1, <1>5, Zenon DEF Resources, PagesMade
<1> QED BY <1>1, <1>2, <1>6, Zenon
        DEF Resources, Counted, Ordered, Accounted, TablesMade, PagesSpared, LastTable

LEMMA ResourcesStep ==
  ASSUME StageInv, Resources, [Next]_vars
  PROVE  Resources'
<1>1. Stages
  BY DEF StageInv
<1>2. CASE heap_alloc_null \/ Stopped \/ UNCHANGED vars
  BY <1>2, StutterResources DEF heap_alloc_null, Stopped
<1> QED BY <1>1, <1>2, EarlyResources, DirectoryResources, TableResources,
           QuietResources, AllocResources, Zenon DEF Next

BootInv == StageInv /\ HeapInv /\ Resources

LEMMA BootInvariance == Spec => []BootInv
<1>1. Init => BootInv
  BY StageInit, ResourcesInit, Zenon DEF Init, HeapInv, Steady, Started, BootInv
<1>2. BootInv /\ [Next]_vars => BootInv'
  BY StageStep, HeapInvStep, ResourcesStep DEF BootInv
<1> QED BY <1>1, <1>2, PTL DEF Spec

(* Directory, tables and the heap's pages have a frame each, which is none of the
   kernel, the image or the structures. *)
LEMMA Distinct ==
  ASSUME Stages, Resources
  PROVE  FramesDistinct
<1> SUFFICES ASSUME pc \in {"map", "running"}
             PROVE  /\ Cardinality(Taken) = Cardinality(DOMAIN tables) + Cardinality(DOMAIN mapped)
                    /\ directory \notin Taken
                    /\ \A f \in Taken \cup {directory} : f >= PagesBelow(kernel_pointer)
  BY DEF FramesDistinct
<1>1. /\ directory \in Nat /\ FirstFrame(machine) <= directory
      /\ \A f \in Taken : f \in Nat /\ directory < f
  BY Zenon DEF Resources, Ordered, Late
<1>2. FirstFrame(machine) \in Nat
  BY Layout, Zenon DEF Stages, LaidOut
<1>3. PagesBelow(kernel_pointer) = FirstFrame(machine)
  BY Zenon DEF Stages, Steady, Started, Placed, FirstFrame
<1>4. directory \notin Taken /\ \A f \in Taken \cup {directory} : f >= FirstFrame(machine)
  BY <1>1, <1>2
<1> QED BY <1>3, <1>4, Zenon DEF Resources, Counted

(* Directory, tables and the pages from the heap never share a frame, on any machine
   and after any number of pages, although structures that lie in the frame bitmap
   look like frames in use to frame_find. *)
THEOREM FramesAreDistinct == Spec => []FramesDistinct
<1>1. BootInv => FramesDistinct
  BY Distinct DEF BootInv, StageInv
<1> QED BY <1>1, BootInvariance, PTL

(* And where the heap structure is whole none of them holds an entry of the heap's
   bitmap, even when the word that points to it was marked as a frame in use. *)
THEOREM FramesAreApart == Spec => [](~Mangled => FramesApart)
<1>1. BootInv => (~Mangled => FramesApart)
  <2> SUFFICES ASSUME Stages, HeapInv, Resources, ~Mangled, pc \in {"map", "running"},
                      NEW f \in Taken \cup {directory}, NEW k \in 0..(Start \div PAGE_SIZE)
               PROVE  Disjoint(Page(f), Entry(HeapEntry(k)))
    BY Distinct DEF BootInv, StageInv, FramesApart
  <2>1. /\ pc \in Steady /\ pc \in Late /\ machine \in Machines /\ Start = StartOf(machine)
    BY Zenon DEF Stages, Steady, Started, Late, Start, StartOf
  <2>2. Held(machine, memory)
    BY <2>1, NotMangled, Zenon DEF HeapInv, AsCreated
  <2>3. Pointer(heap_bitmap) \in {BaseOf(machine), USED}
    BY <2>1, <2>2, BitmapPointer
  <2>4. LaidOut(machine) /\ EndsBelow(machine)
    BY <2>1, Layout
  <2>5. /\ HeapBitmapAt(machine) \in Nat /\ HeapEntriesAt(machine) \in Nat
        /\ HeapAt(machine) \in Nat /\ FrameEntriesAt(machine) \in Nat
        /\ FirstFrame(machine) \in Nat
        /\ HeapAt(machine) + 5 <= HeapBitmapAt(machine)
        /\ HeapBitmapAt(machine) + 8 <= HeapEntriesAt(machine)
    BY <2>4, Zenon DEF LaidOut
  <2>6. /\ BaseOf(machine) \in Int
        /\ USED <= BaseOf(machine)
    BY <2>5, SMT DEF BaseOf, USED
  <2>7. /\ BaseOf(machine) + 4 * k \in Int
        /\ BaseOf(machine) + 4 * k + 4 <= PAGE_SIZE * FirstFrame(machine)
    BY <2>1, EntriesBelow
  <2>8. f \in Nat /\ FirstFrame(machine) <= f
    <3>1. /\ directory \in Nat /\ FirstFrame(machine) <= directory
          /\ \A g \in Taken : g \in Nat /\ directory < g
      BY <2>1, Zenon DEF Resources, Ordered
    <3> QED BY <2>5, <3>1
  <2>9. HeapEntry(k) \in Int /\ HeapEntry(k) + 4 <= PAGE_SIZE * FirstFrame(machine)
    <3>1. HeapEntry(k) = Pointer(heap_bitmap) + 4 * k
      BY Zenon DEF HeapEntry
    <3>2. k \in Int
      BY SMT
    <3>3. CASE Pointer(heap_bitmap) = BaseOf(machine)
      BY <2>7, <3>1, <3>3
    <3>4. CASE Pointer(heap_bitmap) = USED
      <4>1. PAGE_SIZE * FirstFrame(machine) \in Nat
        BY <2>5, SMT DEF PAGE_SIZE
      <4>2. HeapEntry(k) = USED + 4 * k
        BY <3>1, <3>4
      <4> QED BY <2>6, <2>7, <3>2, <4>1, <4>2, SMT DEF USED
    <3> QED BY <2>3, <3>3, <3>4
  <2>10. PAGE_SIZE * FirstFrame(machine) <= f * PAGE_SIZE
    BY <2>1, <2>8, PageBehind
  <2>11. HeapEntry(k) + 4 <= f * PAGE_SIZE
    <3>1. f * PAGE_SIZE \in Nat /\ PAGE_SIZE * FirstFrame(machine) \in Nat
      BY <2>5, <2>8, SMT DEF PAGE_SIZE
    <3> QED BY <2>9, <2>10, <3>1, SMT
  <2> QED BY <2>11 DEF Disjoint, Page, Entry
<1> QED BY <1>1, BootInvariance, PTL

-----------------------------------------------------------------------------
(* Everything is in the memory there is, and mapped where it is expected.  *)

(* What is kept are bytes, which storing and filling do not change. *)
AllBytes(m) == \A b \in DOMAIN m : m[b] \in 0..255

LEMMA StoreBytes ==
  ASSUME NEW m, AllBytes(m), NEW a \in Int, NEW v \in Nat
  PROVE  AllBytes(Store(m, a, v))
<1> SUFFICES ASSUME NEW b \in DOMAIN Store(m, a, v) PROVE Store(m, a, v)[b] \in 0..255
  BY DEF AllBytes
<1>1. CASE b \in a..(a + 3)
  <2>1. Store(m, a, v)[b] = ByteOf(v, b - a)
    BY <1>1 DEF Store
  <2>2. b - a \in 0..3
    BY <1>1, SMT
  <2> QED BY <2>1, <2>2, ByteRange
<1>2. CASE b \notin a..(a + 3)
  BY <1>2 DEF Store, AllBytes
<1> QED BY <1>1, <1>2

LEMMA FillBytes ==
  ASSUME NEW m, AllBytes(m), \A b \in DOMAIN m : b \in Int, NEW a \in Int, NEW n,
         NEW v \in Nat
  PROVE  AllBytes(Fill(m, a, n, v))
<1> SUFFICES ASSUME NEW b \in DOMAIN m PROVE Fill(m, a, n, v)[b] \in 0..255
  BY DEF AllBytes, Fill
<1>1. (b - a) % 4 \in 0..3
  BY SMT
<1>2. Fill(m, a, n, v)[b] = ByteOf(v, (b - a) % 4) \/ Fill(m, a, n, v)[b] = m[b]
  BY DEF Fill
<1>3. ByteOf(v, (b - a) % 4) \in 0..255
  BY <1>1, ByteRange
<1>4. m[b] \in 0..255
  BY DEF AllBytes
<1> QED BY <1>2, <1>3, <1>4

LEMMA CreateBytes ==
  ASSUME NEW m, AllBytes(m), \A b \in DOMAIN m : b \in Int, NEW p, NEW size \in Nat,
         BitmapAt(p) \in Nat, EntriesAt(p) \in Nat
  PROVE  AllBytes(bitmap_create(m, p, size))
<1> DEFINE a == BitmapAt(p)
           e == EntriesAt(p)
           m1 == Store(m, a + 4, size)
           m2 == Store(m1, a, e)
<1>1. a \in Int /\ a + 4 \in Int /\ e \in Int /\ e \in Nat
  BY SMT
<1>2. bitmap_create(m, p, size) = Fill(m2, e, size, FREE) /\ FREE \in Nat
  BY SMT DEF bitmap_create, FREE
<1> HIDE DEF a, e
<1>3. AllBytes(m1)
  BY <1>1, StoreBytes
<1>4. DOMAIN m2 = (DOMAIN m \cup (a + 4)..(a + 4 + 3)) \cup a..(a + 3)
  BY StoreDomain
<1>5. \A b \in DOMAIN m2 : b \in Int
  BY <1>1, <1>4
<1> HIDE DEF m1
<1>6. AllBytes(m2)
  BY <1>1, <1>3, StoreBytes
<1> HIDE DEF m2
<1> QED BY <1>1, <1>2, <1>5, <1>6, FillBytes

(* The two fills of a step that takes a frame. *)
LEMMA TwoFills ==
  ASSUME NEW m, AllBytes(m), \A b \in DOMAIN m : b \in Int, NEW a \in Int, NEW c \in Int,
         NEW k, NEW n, NEW v \in Nat
  PROVE  AllBytes(Fill(Fill(m, a, k, USED), c, n, v))
<1>1. USED \in Nat
  BY SMT DEF USED
<1>2. AllBytes(Fill(m, a, k, USED))
  BY <1>1, FillBytes
<1>3. \A b \in DOMAIN Fill(m, a, k, USED) : b \in Int
  BY FillDomain
<1> QED BY <1>2, <1>3, FillBytes

LEMMA CreatedBytes ==
  ASSUME Stages, AllBytes(memory), CreateFrameBitmap \/ heap_create
  PROVE  AllBytes(memory')
<1>1. /\ machine \in Machines /\ LaidOut(machine) /\ Entries = EntriesOf(machine)
  BY Layout, Zenon DEF Stages, Entries, EntriesOf
<1>2. /\ FrameBitmapAt(machine) \in Nat /\ FrameEntriesAt(machine) \in Nat
      /\ HeapAt(machine) \in Nat /\ HeapBitmapAt(machine) \in Nat
      /\ HeapEntriesAt(machine) \in Nat /\ EntriesOf(machine) \in Nat
      /\ StartOf(machine) \in Nat
      /\ FrameBitmapAt(machine) + 8 <= FrameEntriesAt(machine)
      /\ FrameEntriesAt(machine) + 8 <= HeapAt(machine)
  BY <1>1, Zenon DEF LaidOut
<1>3. CASE CreateFrameBitmap
  <2> DEFINE p == machine.end_kernel + machine.image
  <2>1. /\ kernel_pointer = p /\ DOMAIN memory = {}
        /\ memory' = bitmap_create(memory, kernel_pointer, Entries)
    BY <1>3, Zenon DEF CreateFrameBitmap, Stages, BeforeFrames
  <2>2. BitmapAt(p) \in Nat /\ EntriesAt(p) \in Nat
    BY <1>2, Zenon DEF FrameBitmapAt, FrameEntriesAt
  <2> HIDE DEF p
  <2>3. \A b \in DOMAIN memory : b \in Int
    BY <2>1
  <2>4. AllBytes(bitmap_create(memory, p, Entries))
    BY <1>1, <1>2, <2>2, <2>3, CreateBytes
  <2> QED BY <2>1, <2>4
<1>4. CASE heap_create
  <2> DEFINE h == HeapAt(machine)
             m1 == Store(memory, h + 8, 1)
             m2 == Store(m1, h, StartOf(machine))
             m3 == Store(m2, h + 4, 0)
             m4 == bitmap_create(m3, h + 4, EntriesOf(machine))
             m5 == Store(m4, h + 9, HeapBitmapAt(machine))
  <2>1. /\ memory' = HeapMemory(machine, memory)
        /\ DOMAIN memory = FrameBitmapAt(machine)..(FrameBitmapAt(machine) + 7)
        /\ WordAt(memory, FrameBitmapAt(machine)) = Bytes(FrameEntriesAt(machine))
    BY <1>4, HeapStage
  <2>2. m3 = HeapStores(machine, memory) /\ m5 = HeapMemory(machine, memory)
    BY Zenon DEF HeapMemory, HeapStores
  <2>3. DOMAIN m3 = (FrameBitmapAt(machine)..(FrameBitmapAt(machine) + 7)) \cup (h..(h + 11))
    BY <1>1, <2>1, <2>2, HeapStored, Zenon
  <2>4. /\ h \in Int /\ h + 4 \in Int /\ h + 8 \in Int /\ h + 9 \in Int
        /\ 0 \in Nat /\ 1 \in Nat
    BY <1>2, SMT
  <2>5. BitmapAt(h + 4) \in Nat /\ EntriesAt(h + 4) \in Nat
    BY <1>2, Zenon DEF HeapBitmapAt, HeapEntriesAt
  <2> HIDE DEF h
  <2>6. AllBytes(m1)
    BY <2>4, StoreBytes
  <2>7. AllBytes(m2)
    <3> HIDE DEF m1
    <3> QED BY <1>2, <2>4, <2>6, StoreBytes
  <2>8. AllBytes(m3)
    <3> HIDE DEF m2
    <3> QED BY <2>4, <2>7, StoreBytes
  <2> HIDE DEF m3
  <2>9. \A b \in DOMAIN m3 : b \in Int
    BY <1>2, <2>3, <2>4, SMT
  <2>10. AllBytes(m4)
    BY <1>2, <2>5, <2>8, <2>9, CreateBytes
  <2> HIDE DEF m4
  <2>11. AllBytes(m5)
    BY <1>2, <2>4, <2>10, StoreBytes
  <2> QED BY <2>1, <2>2, <2>11
<1> QED BY <1>3, <1>4

LEMMA BytesStep ==
  ASSUME Stages, AllBytes(memory), [Next]_vars
  PROVE  AllBytes(memory')
<1>1. CASE multiboot_print \/ paging_enable \/ Astray \/ heap_alloc_null \/ Stopped
           \/ UNCHANGED vars
  <2>1. memory' = memory
    BY <1>1, Zenon DEF multiboot_print, paging_enable, Astray, heap_alloc_null, Stopped, vars
  <2> QED BY <2>1
<1>2. pc \in Steady => /\ machine \in Machines /\ \A b \in DOMAIN memory : b \in Int
                       /\ FrameEntriesAt(machine) \in Nat
  <2>1. pc \in Steady => machine \in Machines /\ DOMAIN memory = StructureBytes(machine)
    BY Zenon DEF Stages, Placed, Kept
  <2> QED BY <2>1, StructureInts, Layout, Zenon DEF LaidOut
<1>3. USED \in Nat /\ 2 \in Nat /\ 0 \in Nat
  BY SMT DEF USED
<1>4. CASE MarkKernel
  <2>1. pc \in Steady /\ memory' = Fill(memory, FrameEntry(0), marked', USED)
    BY <1>4, Zenon DEF MarkKernel, Steady
  <2>2. FrameEntry(0) \in Int
    <3>1. FrameEntry(0) = FrameEntriesAt(machine) + 4 * 0
      BY <2>1, FrameEntryAt
    <3> QED BY <1>2, <2>1, <3>1, SMT
  <2> QED BY <1>2, <1>3, <2>1, <2>2, FillBytes
<1>5. CASE directory_create \/ table_create
  <2> DEFINE f == frame_find
  <2>1. /\ pc \in Steady /\ pc \in Started
        /\ \E v \in Nat :
             memory' = Fill(Fill(memory, FrameEntry(f), 1, USED), f * PAGE_SIZE, ENTRY_SIZE, v)
    BY <1>3, <1>5, Zenon DEF directory_create, table_create, Steady, Started, frame_alloc
  <2>2. f \in Nat
    BY <2>1, FrameFound, Zenon DEF FoundFrame
  <2>3. FrameEntry(f) = FrameEntriesAt(machine) + 4 * f
    BY <2>1, FrameEntryAt
  <2> HIDE DEF f
  <2>4. FrameEntry(f) \in Int /\ f * PAGE_SIZE \in Int
    BY <1>2, <2>1, <2>2, <2>3, SMT DEF PAGE_SIZE
  <2> QED BY <1>2, <2>1, <2>4, TwoFills
<1>6. CASE heap_alloc
  <2> DEFINE f == frame_find
             k == Index
  <2>1. /\ pc \in Steady /\ pc \in Started /\ HeapAsCreated /\ Cardinality(used) < MaxHeapPages
        /\ memory' = Fill(Fill(memory, HeapEntry(k), 1, USED), FrameEntry(f), 1, USED)
    BY <1>6, Zenon DEF heap_alloc, Steady, Started, frame_alloc
  <2>2. f \in Nat /\ k \in Nat
    BY <2>1, FrameFound, IndexFound, Zenon DEF FoundFrame, FoundIndex
  <2>3. FrameEntry(f) = FrameEntriesAt(machine) + 4 * f
    BY <2>1, FrameEntryAt
  <2>4. HeapEntry(k) \in Int
    BY <2>1, <2>2, HeapEntryBehind
  <2> HIDE DEF f, k
  <2>5. FrameEntry(f) \in Int
    BY <1>2, <2>1, <2>2, <2>3, SMT
  <2> QED BY <1>2, <1>3, <2>1, <2>4, <2>5, TwoFills
<1> QED BY <1>1, <1>4, <1>5, <1>6, CreatedBytes, Zenon DEF Next

(* Two sets that cover a third one. *)
LEMMA CoverBound ==
  ASSUME NEW S, NEW A, NEW B, IsFiniteSet(A), IsFiniteSet(B), S \subseteq A \cup B
  PROVE  /\ IsFiniteSet(S) /\ Cardinality(S) \in Nat /\ Cardinality(A) \in Nat
         /\ Cardinality(B) \in Nat /\ Cardinality(S) <= Cardinality(A) + Cardinality(B)
<1>1. /\ IsFiniteSet(A \cup B)
      /\ Cardinality(A \cup B) = Cardinality(A) + Cardinality(B) - Cardinality(A \cap B)
  BY FS_Union
<1>2. IsFiniteSet(A \cap B)
  BY FS_Subset
<1>3. S \in SUBSET (A \cup B)
  OBVIOUS
<1>4. IsFiniteSet(S) /\ Cardinality(S) <= Cardinality(A \cup B)
  BY <1>1, <1>3, FS_Subset
<1>5. /\ Cardinality(S) \in Nat /\ Cardinality(A) \in Nat /\ Cardinality(B) \in Nat
      /\ Cardinality(A \cap B) \in Nat /\ Cardinality(A \cup B) \in Nat
  BY <1>1, <1>2, <1>4, FS_CardinalityType
<1> QED BY <1>1, <1>4, <1>5, SMT

(* As many pages as indices. *)
LEMMA MappedBound ==
  ASSUME Stages, Resources
  PROVE  /\ IsFiniteSet(DOMAIN mapped) /\ Cardinality(DOMAIN mapped) \in Nat
         /\ Cardinality(DOMAIN mapped) <= MaxHeapPages
<1> DEFINE g == [k \in used |-> PageOfIndex(k)]
<1>1. /\ DOMAIN mapped = {PageOfIndex(k) : k \in used} /\ IsFiniteSet(used)
      /\ IsFiniteSet(DOMAIN mapped) /\ Cardinality(used) <= MaxHeapPages
  BY Zenon DEF Stages, Resources, PagesMade, Counted
<1>2. g \in Surjection(used, DOMAIN mapped)
  BY <1>1 DEF Surjection
<1>3. Cardinality(DOMAIN mapped) <= Cardinality(used)
  <2> HIDE DEF g
  <2> QED BY <1>1, <1>2, FS_Surjection
<1>4. Cardinality(DOMAIN mapped) \in Nat /\ Cardinality(used) \in Nat /\ MaxHeapPages \in Nat
  BY <1>1, FS_CardinalityType, BootAssumption
<1> QED BY <1>1, <1>3, <1>4, SMT

(* No more than six entries hold a byte of the heap structure or of its bitmap. *)
LEMMA OccupiedBound ==
  ASSUME NEW m \in Machines
  PROVE  \E S : /\ IsFiniteSet(S) /\ Cardinality(S) <= 6
                /\ \A g \in Nat : Occupied(m, g) => g \in S
<1> DEFINE a == (HeapAt(m) - FrameEntriesAt(m)) \div 4
<1>1. /\ HeapBitmapAt(m) \in Nat /\ HeapAt(m) \in Nat /\ FrameEntriesAt(m) \in Nat
      /\ FrameEntriesAt(m) + 8 <= HeapAt(m)
  BY Layout, Zenon DEF LaidOut
<1>2. PICK q \in Nat : HeapBitmapAt(m) = FrameEntriesAt(m) + 4 * q
  BY Layout, Zenon DEF LaidOut
<1>3. ASSUME NEW g \in Nat, Occupied(m, g) PROVE g \in (a..(a + 3)) \cup (q..(q + 1))
  BY <1>1, <1>2, <1>3, SMT DEF Occupied
<1>4. a \in Int /\ a + 3 \in Int /\ q \in Int /\ q + 1 \in Int
      /\ ~(a > a + 3) /\ ~(q > q + 1) /\ a + 3 - a + 1 = 4 /\ q + 1 - q + 1 = 2
  BY <1>1, SMT
<1> HIDE DEF a
<1>5. /\ IsFiniteSet(a..(a + 3)) /\ Cardinality(a..(a + 3)) = 4
      /\ IsFiniteSet(q..(q + 1)) /\ Cardinality(q..(q + 1)) = 2
  BY <1>4, FS_Interval
<1> DEFINE S == (a..(a + 3)) \cup (q..(q + 1))
<1>6. IsFiniteSet(S) /\ Cardinality(S) <= 6
  <2>1. IsFiniteSet(S) /\ Cardinality(S) <= Cardinality(a..(a + 3)) + Cardinality(q..(q + 1))
    BY <1>5, CoverBound
  <2> HIDE DEF S
  <2> QED BY <1>5, <2>1
<1> QED BY <1>3, <1>6

(* The frames that were marked are the ones that are needed. *)
LEMMA MarkedBound ==
  ASSUME Stages, Resources, pc \in Started
  PROVE  marked <= FramesNeeded(machine)
<1>1. /\ machine \in Machines /\ marked \in Nat /\ FirstFrame(machine) <= marked
      /\ FirstFrame(machine) \in Nat /\ KernelBase \div PAGE_SIZE <= FirstFrame(machine)
  BY Layout, Zenon DEF Stages, LaidOut, EndsBelow
<1>2. MaxHeapPages \in Nat /\ 1 <= FirstFrame(machine) /\ LastTable \in Nat
  <2>1. 1 <= FirstFrame(machine)
    BY <1>1, SMT DEF KernelBase, PAGE_SIZE
  <2> QED BY <1>1, <2>1, BootAssumption, SMT DEF LastTable, ENTRY_SIZE
<1>3. FramesNeeded(machine) = FirstFrame(machine) + 1 + (LastTable + 1) + MaxHeapPages + 6
  BY Zenon DEF FramesNeeded, FirstFrame, LastTable
<1>4. CASE pc = "directory"
  <2>1. marked = FirstFrame(machine)
    BY <1>4, Zenon DEF Resources, Accounted
  <2> QED BY <1>1, <1>2, <1>3, <2>1, SMT
<1>5. CASE pc \in Late
  <2> DEFINE S == FirstFrame(machine)..(marked - 1)
  <2>1. PICK O : /\ IsFiniteSet(O) /\ Cardinality(O) <= 6
                 /\ \A g \in Nat : Occupied(machine, g) => g \in O
    BY <1>1, OccupiedBound
  <2>2. \A g \in S : g = directory \/ g \in Taken \/ Occupied(machine, g)
    BY <1>5, Zenon DEF Resources, Accounted
  <2>3. S \subseteq ({directory} \cup Taken) \cup O
    <3>1. S \subseteq Nat
      BY <1>1, SMT
    <3> HIDE DEF S
    <3> QED BY <2>1, <2>2, <3>1
  <2>4. /\ IsFiniteSet(Taken) /\ IsFiniteSet(DOMAIN tables)
        /\ Cardinality(Taken) = Cardinality(DOMAIN tables) + Cardinality(DOMAIN mapped)
    BY Zenon DEF Resources, Counted
  <2>5. IsFiniteSet({directory}) /\ Cardinality({directory}) = 1
    BY FS_Singleton
  <2>6. /\ IsFiniteSet({directory} \cup Taken) /\ Cardinality({directory} \cup Taken) \in Nat
        /\ Cardinality(Taken) \in Nat /\ Cardinality({directory} \cup Taken) <= 1 + Cardinality(Taken)
    BY <2>4, <2>5, CoverBound
  <2>7. Cardinality(S) = marked - FirstFrame(machine)
    <3>1. FirstFrame(machine) \in Int /\ marked - 1 \in Int
      BY <1>1, SMT
    <3>2. Cardinality(S) = IF FirstFrame(machine) > marked - 1 THEN 0
                           ELSE (marked - 1) - FirstFrame(machine) + 1
      BY <3>1, FS_Interval
    <3> HIDE DEF S
    <3> QED BY <1>1, <3>2, SMT
  <2> HIDE DEF S
  <2>8. /\ Cardinality(S) <= Cardinality({directory} \cup Taken) + Cardinality(O)
        /\ Cardinality(O) \in Nat
    BY <2>1, <2>3, <2>6, CoverBound
  <2>9. Cardinality(DOMAIN tables) <= LastTable + 1 /\ Cardinality(DOMAIN tables) \in Nat
    <3>1. DOMAIN tables \in SUBSET (0..LastTable)
      BY Zenon DEF Resources, TablesMade
    <3>2. IsFiniteSet(0..LastTable) /\ Cardinality(0..LastTable) = LastTable + 1
      <4>1. /\ IsFiniteSet(0..LastTable)
            /\ Cardinality(0..LastTable) = IF 0 > LastTable THEN 0 ELSE LastTable - 0 + 1
        BY <1>2, FS_Interval, SMT
      <4> QED BY <1>2, <4>1, SMT
    <3>3. Cardinality(DOMAIN tables) <= Cardinality(0..LastTable)
      BY <3>1, <3>2, FS_Subset
    <3> QED BY <2>4, <3>2, <3>3, FS_CardinalityType
  <2>10. Cardinality(DOMAIN mapped) <= MaxHeapPages /\ Cardinality(DOMAIN mapped) \in Nat
    BY MappedBound
  <2> QED BY <1>1, <1>2, <1>3, <2>1, <2>4, <2>6, <2>7, <2>8, <2>9, <2>10, SMT
<1> QED BY <1>4, <1>5 DEF Started, Late

(* The kinds of values of the variables. *)
LEMMA TypesRight ==
  ASSUME StageInv, Resources, AllBytes(memory), pc \notin Started => marked = 0
  PROVE  TypeOK
<1>1. Stages /\ Behind /\ machine \in Machines
  BY DEF StageInv, Stages
<1>2. LaidOut(machine) /\ EndsBelow(machine) /\ Entries = EntriesOf(machine)
  BY <1>1, Layout, Zenon DEF Entries, EntriesOf
<1>3. /\ HeapAt(machine) \in Nat /\ LayoutEnd(machine) \in Nat /\ EntriesOf(machine) \in Nat
      /\ FrameEntriesAt(machine) \in Nat /\ HeapEntriesAt(machine) \in Nat
      /\ FirstFrame(machine) \in Nat /\ FrameBitmapAt(machine) \in Nat
      /\ HeapEntriesAt(machine) = HeapBitmapAt(machine) + PAGE_SIZE
      /\ KernelBase \div PAGE_SIZE <= FirstFrame(machine)
  BY <1>2, Zenon DEF LaidOut, EndsBelow
<1>4. kernel_pointer \in Nat
  <2>1. machine.end_kernel \in Nat /\ machine.image \in Nat
    BY <1>1, MachineSizes, SMT
  <2>2. machine.end_kernel + machine.image \in Nat
    BY <2>1
  <2>3. kernel_pointer \in {machine.end_kernel, machine.end_kernel + machine.image,
                            HeapAt(machine), LayoutEnd(machine)}
    BY <1>1, Zenon DEF Stages, BeforeFrames, BeforeHeap, Placed
  <2> QED BY <1>3, <2>1, <2>2, <2>3
<1>5. \A p \in wrote : p[1] < p[2]
  BY <1>1, Zenon DEF Behind
<1>6. pc \in Started => /\ marked \in Nat /\ marked <= EntriesOf(machine)
                       /\ FrameEntriesAt(machine) + 4 * marked <= HeapEntriesAt(machine)
  <2> SUFFICES ASSUME pc \in Started
               PROVE  /\ marked \in Nat /\ marked <= EntriesOf(machine)
                      /\ FrameEntriesAt(machine) + 4 * marked <= HeapEntriesAt(machine)
    OBVIOUS
  <2>1. marked \in Nat /\ marked <= FramesNeeded(machine)
    BY <1>1, MarkedBound, Zenon DEF Stages
  <2>2. /\ FramesNeeded(machine) <= EntriesOf(machine)
        /\ FrameEntriesAt(machine) + 4 * FramesNeeded(machine) <= HeapEntriesAt(machine)
    BY <1>1, RoomAssumption, Zenon DEF EntriesOf, FrameEntriesAt, HeapEntriesAt
  <2>3. FramesNeeded(machine) \in Int
    <3>1. LastTable \in Int /\ MaxHeapPages \in Nat
      BY <1>3, BootAssumption, SMT DEF LastTable, ENTRY_SIZE
    <3>2. FramesNeeded(machine) = FirstFrame(machine) + 1 + (LastTable + 1) + MaxHeapPages + 6
      BY Zenon DEF FramesNeeded, FirstFrame, LastTable
    <3> QED BY <1>3, <3>1, <3>2, SMT
  <2> QED BY <1>3, <2>1, <2>2, <2>3, SMT
<1>7. marked \in 0..Entries
  BY <1>2, <1>3, <1>6, SMT
<1>8. pc \in {"map", "running", "astray"} => FrameEntry(marked) <= heap_bitmap + PAGE_SIZE
  <2> SUFFICES ASSUME pc \in {"map", "running", "astray"}
               PROVE  FrameEntry(marked) <= heap_bitmap + PAGE_SIZE
    OBVIOUS
  <2>1. pc \in Started /\ pc \in Steady /\ heap_bitmap = HeapBitmapAt(machine)
    BY <1>1, Zenon DEF Started, Steady, Stages, Placed
  <2>2. FrameEntry(marked) = FrameEntriesAt(machine) + 4 * marked
    BY <1>1, <2>1, FrameEntryAt
  <2>3. FrameEntry(marked) <= HeapEntriesAt(machine)
    BY <1>6, <2>1, <2>2
  <2> QED BY <1>3, <2>1, <2>3
<1>9. ASSUME NEW v \in DOMAIN mapped
      PROVE  v \in 1..(ENTRY_SIZE - 1) /\ mapped[v] \in 1..Entries
  <2>1. v \in Int /\ 1 <= v /\ v < ENTRY_SIZE
    BY <1>9, Zenon DEF Resources, PagesMade
  <2>2. pc \in Late
    <3>1. pc \notin Early
      BY <1>9, Zenon DEF Resources, PagesMade
    <3> QED BY <1>1, <3>1 DEF Stages, Steady, Started, Early, Late
  <2>3. mapped[v] \in Taken
    BY <1>9 DEF Taken
  <2>4. /\ directory \in Nat /\ mapped[v] \in Nat /\ directory < mapped[v]
        /\ mapped[v] < marked
    BY <2>2, <2>3, Zenon DEF Resources, Ordered
  <2>5. v \in 1..(ENTRY_SIZE - 1)
    BY <2>1, SMT DEF ENTRY_SIZE
  <2>6. mapped[v] \in 1..Entries
    BY <1>2, <1>3, <1>7, <2>4, SMT
  <2> QED BY <2>5, <2>6
<1>10. pc \in {"multiboot", "frames", "heap", "mark", "directory", "map", "running", "astray"}
  BY <1>1 DEF Stages, Steady, Started
<1>11. \A b \in DOMAIN memory : memory[b] \in 0..255
  BY DEF AllBytes
<1> QED BY <1>4, <1>5, <1>7, <1>8, <1>9, <1>10, <1>11, Zenon DEF TypeOK

(* Directory and tables are where page_map looks for them, *)
LEMMA Reachable ==
  ASSUME Stages, Resources
  PROVE  TablesReachable
<1> SUFFICES ASSUME pc = "running", NEW f \in {directory} \cup {tables[d] : d \in DOMAIN tables},
                    f < ENTRY_SIZE
             PROVE  Mapping(f) = f
  BY Zenon DEF TablesReachable
<1>1. f \notin DOMAIN mapped
  BY DEF Resources, PagesSpared
<1>2. f \in Nat
  <2>1. f = directory \/ f \in Taken
    BY DEF Taken
  <2> QED BY <2>1, Zenon DEF Resources, Ordered, Late
<1>3. DOMAIN tables = 0..LastTable /\ LastTable \in Nat
  <2>1. FirstFrame(machine) \in Nat /\ KernelBase \div PAGE_SIZE <= FirstFrame(machine)
    BY Layout, Zenon DEF Stages, LaidOut, EndsBelow
  <2>2. LastTable \in Nat
    BY <2>1, SMT DEF LastTable, KernelBase, PAGE_SIZE, ENTRY_SIZE
  <2> QED BY <2>2, Zenon DEF Resources, TablesMade
<1>4. f \div ENTRY_SIZE \in DOMAIN tables
  <2>1. f \div ENTRY_SIZE = 0
    BY <1>2, SMT DEF ENTRY_SIZE
  <2> QED BY <1>3, <2>1
<1>5. TableEntry(f) = f
  BY <1>2, SMT DEF TableEntry, ENTRY_SIZE
<1> QED BY <1>1, <1>4, <1>5, Zenon DEF Mapping

(* and the pages of the kernel, image and structures where they are. *)
LEMMA KernelStays ==
  ASSUME Stages, Resources, pc = "running", NEW v \in KernelPages,
         v < PagesBelow(kernel_pointer)
  PROVE  Mapping(v) = v
<1>1. /\ FirstFrame(machine) \in Nat /\ marked \in Nat
      /\ KernelBase \div PAGE_SIZE <= FirstFrame(machine)
      /\ PagesBelow(kernel_pointer) = FirstFrame(machine)
  BY Layout, Zenon DEF Stages, LaidOut, EndsBelow, Steady, Started, Placed, FirstFrame
<1>2. v \in Nat /\ v \in (KernelBase \div PAGE_SIZE)..(FirstFrame(machine) - 1)
  BY <1>1, SMT DEF KernelPages, KernelBase, PAGE_SIZE
<1>3. v \notin DOMAIN mapped
  BY <1>2, Zenon DEF Resources, PagesSpared
<1>4. v \div ENTRY_SIZE \in DOMAIN tables
  <2>1. DOMAIN tables = 0..LastTable
    BY Zenon DEF Resources, TablesMade
  <2>2. v \div ENTRY_SIZE \in 0..LastTable
    BY <1>1, <1>2, SMT DEF LastTable, ENTRY_SIZE
  <2> QED BY <2>1, <2>2
<1> QED BY <1>3, <1>4, Zenon DEF Mapping

(* With the heap below the kernel the kernel is followed until the frames in use
   reach the heap structure, or it was mangled from the start. *)
Followed == pc = "astray" /\ Start < KernelBase => ~ShortOfHeap \/ Mangled

LEMMA FollowedStep ==
  ASSUME BootInv, Followed, [Next]_vars
  PROVE  Followed'
<1>1. StageInv /\ Stages /\ HeapInv /\ Resources
  BY DEF BootInv, StageInv
<1>2. CASE multiboot_print \/ CreateFrameBitmap \/ heap_create \/ MarkKernel
           \/ directory_create \/ table_create \/ paging_enable
  <2>1. pc' # "astray"
    BY <1>2, Zenon DEF multiboot_print, CreateFrameBitmap, heap_create, MarkKernel,
                       directory_create, table_create, paging_enable
  <2> QED BY <2>1, Zenon DEF Followed
<1>3. CASE heap_alloc
  <2> SUFFICES ASSUME pc' = "astray", Start' < KernelBase PROVE FALSE
    BY Zenon DEF Followed
  <2> DEFINE k == Index
             v == PageOfIndex(Index)
  <2>1. /\ v \in {directory} \cup KernelPages /\ pc \in Started /\ pc \in Late
        /\ HeapAsCreated /\ Cardinality(used) < MaxHeapPages /\ machine' = machine
    BY <1>3, Zenon DEF heap_alloc, Started, Late
  <2>2. k \in Nat /\ v = PageOfIndex(k)
    BY <1>1, <2>1, IndexFound, Zenon DEF FoundIndex
  <2>3. Start < KernelBase
    BY <2>1 DEF Start
  <2>4. Start \in Nat
    <3>1. StartOf(machine) \in Nat
      BY <1>1, Layout, Zenon DEF Stages, LaidOut
    <3> QED BY <3>1, Zenon DEF Start, StartOf
  <2> HIDE DEF k, v
  <2>5. v < KernelBase \div PAGE_SIZE
    <3>1. v = Start \div PAGE_SIZE - k
      BY <2>2, Zenon DEF PageOfIndex
    <3>2. Start \div PAGE_SIZE < KernelBase \div PAGE_SIZE
      BY <2>3, <2>4, SMT DEF KernelBase, PAGE_SIZE
    <3>3. Start \div PAGE_SIZE \in Nat /\ KernelBase \div PAGE_SIZE \in Nat
      BY <2>4, SMT DEF KernelBase, PAGE_SIZE
    <3> HIDE DEF v
    <3> QED BY <2>2, <3>1, <3>2, <3>3, SMT
  <2>6. /\ directory \in Nat /\ KernelBase \div PAGE_SIZE <= directory
        /\ KernelBase \div PAGE_SIZE \in Nat /\ marked \in Nat
    <3>1. /\ FirstFrame(machine) \in Nat /\ KernelBase \div PAGE_SIZE <= FirstFrame(machine)
          /\ directory \in Nat /\ FirstFrame(machine) <= directory /\ marked \in Nat
      BY <1>1, <2>1, Layout, Zenon DEF Stages, LaidOut, EndsBelow, Resources, Ordered
    <3>2. KernelBase \div PAGE_SIZE \in Nat
      BY SMT DEF KernelBase, PAGE_SIZE
    <3> QED BY <3>1, <3>2, SMT
  <2> QED BY <2>1, <2>5, <2>6, SMT DEF KernelPages
<1>4. CASE Astray
  <2>1. pc = "running" /\ ~HeapAsCreated
    BY <1>4 DEF Astray
  <2>2. ~ShortOfHeap \/ Mangled
    BY <1>1, <2>1, HeapRead, Zenon DEF HeapKept
  <2>3. /\ memory' = memory /\ frame_bitmap' = frame_bitmap /\ marked' = marked
        /\ kernel_heap' = kernel_heap /\ heap_bitmap' = heap_bitmap
    BY <1>4 DEF Astray
  <2>4. ShortOfHeap' = ShortOfHeap /\ Mangled' = Mangled
    BY <2>3 DEF ShortOfHeap, Mangled, FrameEntry, Pointer, Load
  <2> QED BY <2>2, <2>4, Zenon DEF Followed
<1>5. CASE heap_alloc_null \/ Stopped \/ UNCHANGED vars
  <2>1. UNCHANGED vars
    BY <1>5 DEF heap_alloc_null, Stopped
  <2>2. /\ memory' = memory /\ frame_bitmap' = frame_bitmap /\ marked' = marked
        /\ kernel_heap' = kernel_heap /\ heap_bitmap' = heap_bitmap /\ pc' = pc
        /\ machine' = machine
    BY <2>1 DEF vars
  <2>3. ShortOfHeap' = ShortOfHeap /\ Mangled' = Mangled /\ Start' = Start
    BY <2>2 DEF ShortOfHeap, Mangled, FrameEntry, Pointer, Load, Start
  <2> QED BY <2>2, <2>3, Zenon DEF Followed
<1> QED BY <1>2, <1>3, <1>4, <1>5, Zenon DEF Next

(* Frames are marked from MarkKernel on. *)
Unmarked == pc \notin Started => marked = 0

LEMMA UnmarkedStep ==
  ASSUME Unmarked, [Next]_vars
  PROVE  Unmarked'
<1>1. CASE multiboot_print \/ CreateFrameBitmap \/ heap_create
  <2>1. pc \notin Started /\ marked' = marked
    BY <1>1, Zenon DEF multiboot_print, CreateFrameBitmap, heap_create, Started
  <2> QED BY <2>1, Zenon DEF Unmarked
<1>2. CASE MarkKernel \/ directory_create \/ table_create \/ paging_enable \/ heap_alloc \/ Astray
  <2>1. pc' \in Started
    BY <1>2 DEF MarkKernel, directory_create, table_create, paging_enable, heap_alloc, Astray,
                Started
  <2> QED BY <2>1 DEF Unmarked
<1>3. CASE heap_alloc_null \/ Stopped \/ UNCHANGED vars
  <2>1. pc' = pc /\ marked' = marked
    BY <1>3, Zenon DEF heap_alloc_null, Stopped, vars
  <2> QED BY <2>1, Zenon DEF Unmarked
<1> QED BY <1>1, <1>2, <1>3, Zenon DEF Next

MappingInv == BootInv /\ Followed /\ Unmarked /\ AllBytes(memory)

LEMMA MappingInvariance == Spec => []MappingInv
<1>1. Init => MappingInv
  <2> SUFFICES ASSUME Init PROVE MappingInv
    OBVIOUS
  <2>1. pc = "multiboot" /\ marked = 0 /\ DOMAIN memory = {}
    BY DEF Init
  <2>2. BootInv
    BY StageInit, ResourcesInit, Zenon DEF Init, HeapInv, Steady, Started, BootInv
  <2>3. AllBytes(memory)
    BY <2>1 DEF AllBytes
  <2>4. Followed
    BY <2>1 DEF Followed
  <2> QED BY <2>1, <2>2, <2>3, <2>4, Zenon DEF MappingInv, Unmarked
<1>2. MappingInv /\ [Next]_vars => MappingInv'
  <2> SUFFICES ASSUME MappingInv, [Next]_vars PROVE MappingInv'
    OBVIOUS
  <2>1. BootInv /\ Followed /\ Unmarked /\ AllBytes(memory) /\ StageInv /\ Stages
    BY Zenon DEF MappingInv, BootInv, StageInv
  <2>2. BootInv'
    BY <2>1, StageStep, HeapInvStep, ResourcesStep, Zenon DEF BootInv
  <2>3. AllBytes(memory)'
    <3>1. AllBytes(memory')
      BY <2>1, BytesStep
    <3> QED BY <3>1
  <2> QED BY <2>1, <2>2, <2>3, FollowedStep, UnmarkedStep, Zenon DEF MappingInv
<1> QED BY <1>1, <1>2, PTL DEF Spec

(* After the boot and after any number of pages from the heap, directory, tables,
   kernel, image and structures are mapped to where they are used, and all frames
   and pages are in the memory there is. *)
THEOREM MappingsAreRight == Spec => []MappingsRight
<1>1. MappingInv => MappingsRight
  <2> SUFFICES ASSUME MappingInv PROVE MappingsRight
    OBVIOUS
  <2>1. /\ BootInv /\ Followed /\ AllBytes(memory) /\ StageInv /\ Stages /\ Resources
        /\ pc \notin Started => marked = 0
    BY Zenon DEF MappingInv, BootInv, StageInv, Unmarked
  <2>2. TypeOK
    BY <2>1, TypesRight
  <2>3. TablesReachable
    BY <2>1, Reachable
  <2>4. pc = "running" => \A v \in KernelPages : v < PagesBelow(kernel_pointer) => Mapping(v) = v
    BY <2>1, KernelStays
  <2>5. KernelMapped
    BY <2>1, <2>4, Zenon DEF KernelMapped, Followed
  <2> QED BY <2>2, <2>3, <2>5, Zenon DEF MappingsRight
<1> QED BY <1>1, MappingInvariance, PTL
=============================================================================
