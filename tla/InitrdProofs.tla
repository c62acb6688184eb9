---------------------------- MODULE InitrdProofs ----------------------------
(***************************************************************************)
(* Reading, looking up and listing return what the image holds, for every  *)
(* image that ImageAssumption describes: any number of files and           *)
(* directories, any block size, any garbage in fresh nodes.                *)
(***************************************************************************)
EXTENDS Initrd, TLAPS

-----------------------------------------------------------------------------
(* From numbers to addresses.                                              *)

(* ext2_inode_get finds an inode of the one group where the format has it. *)
LEMMA InodeGet ==
  ASSUME NEW n \in DOMAIN Stat
  PROVE  ext2_inode_get(n) = InodeAt(n)
<1> DEFINE g == (n - 1) \div inode_per_group
<1>1. n \in Nat /\ 1 <= n /\ n <= inode_total /\ inode_total <= inode_per_group
  BY InitrdAssumption, ImageAssumption
<1>2. g = 0 /\ (n - 1) % inode_per_group = n - 1
  BY <1>1, InitrdAssumption
<1>3. 0 <= block_total \div block_per_group
  BY InitrdAssumption
<1>4. ext2_bg_des_get(0) = addr + 2 * BlockSize
  BY InitrdAssumption, ImageAssumption DEF ext2_bg_des_get, superblock
<1>5. /\ ~(n > inode_total \/ n = 0 \/ g > block_total \div block_per_group)
      /\ ext2_bg_des_get(g) = addr + 2 * BlockSize
  BY <1>1, <1>2, <1>3, <1>4, InitrdAssumption
<1> HIDE DEF g
<1>6. ext2_inode_get(n) = superblock
         + BlockSize * Image[addr + 2 * BlockSize].inode_table_addr
         - EXT2_SUPERBLOCK_OFFSET + inode_size * (n - 1)
  BY <1>2, <1>5, Zenon DEF ext2_inode_get, g
<1>7. BlockSize * Image[addr + 2 * BlockSize].inode_table_addr \in Int
  BY InitrdAssumption, ImageAssumption
<1>8. inode_size * (n - 1) \in Int
  BY <1>1, InitrdAssumption
<1> QED BY <1>6, <1>7, <1>8, InitrdAssumption DEF InodeAt, superblock

(* The address of a numbered block. *)
LEMMA BlockGet ==
  ASSUME NEW b \in Nat \ {0}
  PROVE  /\ ext2_block_get(b) = addr + BlockSize * b
         /\ ext2_block_get(b) \in Nat \ {0}
<1>1. BlockSize * b \in Nat
  BY InitrdAssumption
<1> QED BY <1>1, InitrdAssumption DEF ext2_block_get, superblock, NULL

(* ext2_inodeblock_get finds every block of a file, whether the inode names it
   or the indirect block. *)
LEMMA InodeBlockGet ==
  ASSUME NEW n \in DOMAIN Stat, NEW b \in 0..(Len(Layout[n]) - 1)
  PROVE  /\ ext2_inodeblock_get(b, Image[InodeAt(n)])
              = addr + BlockSize * Layout[n][b + 1]
         /\ ext2_inodeblock_get(b, Image[InodeAt(n)]) \in Nat \ {0}
<1> DEFINE inode == Image[InodeAt(n)]
           last  == EXT2_INODE_BLOCK_TOTAL
<1>1. HasBlocks(n)
  BY ImageAssumption
<1>2. Layout[n][b + 1] \in Nat \ {0} /\ Len(Layout[n]) \in Nat /\ b \in Nat
  BY <1>1 DEF HasBlocks
<1>3. BlockNumber(n, b) = Layout[n][b + 1]
  BY <1>1 DEF HasBlocks
<1>4. /\ ext2_block_get(Layout[n][b + 1]) = addr + BlockSize * Layout[n][b + 1]
      /\ ext2_block_get(Layout[n][b + 1]) \in Nat \ {0}
  BY <1>2, BlockGet
<1>5. CASE b < EXT2_INODE_BLOCK_TOTAL
  <2>1. inode.block[b] = Layout[n][b + 1]
    BY <1>3, <1>5 DEF BlockNumber
  <2>2. ext2_inodeblock_get(b, inode) = ext2_block_get(Layout[n][b + 1])
    BY <1>2, <1>5, <2>1 DEF ext2_inodeblock_get
  <2> QED BY <1>4, <2>2
<1>6. CASE ~ (b < EXT2_INODE_BLOCK_TOTAL)
  <2>1. b < EXT2_INODE_BLOCK_TOTAL + BlockSize \div Word
    BY <1>1, <1>2, InitrdAssumption DEF HasBlocks
  <2>2. inode.block[last] \in Nat \ {0}
    BY <1>1, <1>2, <1>6, InitrdAssumption DEF HasBlocks
  <2>3. ext2_block_get(inode.block[last]) = addr + BlockSize * inode.block[last]
    BY <2>2, BlockGet
  <2>4. Image[ext2_block_get(inode.block[last]) + Word * (b - last)] = Layout[n][b + 1]
    BY <1>3, <1>6, <2>3 DEF BlockNumber
  <2>5. ext2_inodeblock_get(b, inode) = ext2_block_get(Layout[n][b + 1])
    BY <1>2, <1>6, <2>1, <2>4 DEF ext2_inodeblock_get
  <2> QED BY <1>4, <2>5
<1> QED BY <1>5, <1>6

(* Taking the first kind whose bits are all set, in the order of the tests, finds
   the kind whose bits are exactly those of the type field. *)
LEMMA FirstKind ==
  ASSUME NEW bits, NEW k \in DOMAIN Kinds, Kinds[k][1] = bits \cap (12..15)
  PROVE  LET hits == {j \in DOMAIN Kinds : Kinds[j][1] \subseteq bits} IN
         /\ hits # {}
         /\ (CHOOSE j \in hits : \A l \in hits : j <= l) = k
<1> DEFINE hits == {j \in DOMAIN Kinds : Kinds[j][1] \subseteq bits}
<1>1. DOMAIN Kinds = 1..6
  BY DEF Kinds
<1>2. k \in hits
  BY DEF Kinds
<1>3. \A j \in hits : k <= j
  <2> SUFFICES ASSUME NEW j \in hits PROVE k <= j
    OBVIOUS
  <2>1. /\ Kinds[1][1] = {15, 13} /\ Kinds[2][1] = {15} /\ Kinds[3][1] = {14, 13}
        /\ Kinds[4][1] = {14} /\ Kinds[5][1] = {13} /\ Kinds[6][1] = {12}
    BY DEF Kinds
  <2>2. \A x \in Kinds[j][1] : x \in bits /\ x \in 12..15
    BY <1>1, <2>1
  <2>3. \A x \in Kinds[j][1] : x \in Kinds[k][1]
    BY <2>2
  <2>4. j \in {1, 2, 3, 4, 5, 6} /\ k \in {1, 2, 3, 4, 5, 6}
    BY <1>1
  <2> QED BY <2>1, <2>3, <2>4
<1>4. \A j \in hits : (\A l \in hits : j <= l) => j = k
  BY <1>1, <1>2, <1>3
<1> HIDE DEF hits
<1>5. (CHOOSE j \in hits : \A l \in hits : j <= l) = k
  BY <1>2, <1>3, <1>4
<1> QED BY <1>2, <1>5 DEF hits

(* ext2_inode_typetofile gives every file its type. *)
LEMMA TypeGet ==
  ASSUME NEW n \in DOMAIN Stat
  PROVE  ext2_inode_typetofile(Image[InodeAt(n)]) = Stat[n].type
<1> DEFINE bits == Image[InodeAt(n)].type
<1>1. PICK k \in DOMAIN Kinds : Kinds[k] = <<bits \cap (12..15), Stat[n].type>>
  BY ImageAssumption DEF HasStat
<1>2. Kinds[k][1] = bits \cap (12..15) /\ Kinds[k][2] = Stat[n].type
  BY <1>1
<1> QED BY <1>2, FirstKind DEF ext2_inode_typetofile

(* The inode behind a node, and its size. *)
LEMMA NodeInode ==
  ASSUME NEW node, node.inode \in DOMAIN Stat
  PROVE  /\ InodeOf(node) = Image[InodeAt(node.inode)]
         /\ InodeOf(node).size = Stat[node.inode].size
         /\ Stat[node.inode].size \in Nat
<1>1. ext2_inode_get(node.inode) = InodeAt(node.inode)
  BY InodeGet
<1>2. HasStat(node.inode)
  BY ImageAssumption
<1> QED BY <1>1, <1>2 DEF InodeOf, HasStat

(* Every type has a bit that no other bits can take away. *)
LEMMA TypeBits ==
  ASSUME NEW n \in DOMAIN Stat
  PROVE  /\ Stat[n].type \subseteq {0, 1, 2} /\ Stat[n].type # {}
         /\ Stat[n].type = FS_DIRECTORY => 14 \in Image[InodeAt(n)].type
<1> DEFINE bits == Image[InodeAt(n)].type \cap (12..15)
<1>1. PICK k \in DOMAIN Kinds : Kinds[k] = <<bits, Stat[n].type>>
  BY ImageAssumption DEF HasStat
<1>2. Kinds[k][1] = bits /\ Kinds[k][2] = Stat[n].type
  BY <1>1
<1>3. k \in {1, 2, 3, 4, 5, 6}
  BY DEF Kinds
<1>4. /\ Kinds[1][2] = {1, 2} /\ Kinds[2][2] = {0} /\ Kinds[3][2] = {2}
      /\ Kinds[4][2] = {1} /\ Kinds[5][2] = {0, 1} /\ Kinds[6][2] = {0, 2}
  BY DEF Kinds, FS_SYMLINK, FS_FILE, FS_BLOCKDEVICE, FS_DIRECTORY, FS_CHARDEVICE, FS_PIPE
<1>5. Kinds[4][1] = {14}
  BY DEF Kinds
<1>6. Stat[n].type \subseteq {0, 1, 2} /\ Stat[n].type # {}
  BY <1>2, <1>3, <1>4
<1>7. ASSUME Stat[n].type = FS_DIRECTORY PROVE 14 \in bits
  <2>1. k = 4
    BY <1>2, <1>3, <1>4, <1>7 DEF FS_DIRECTORY
  <2> QED BY <1>2, <1>5, <2>1
<1> QED BY <1>6, <1>7

-----------------------------------------------------------------------------
(* The inductive invariant.                                                *)

Booting == pc \in {"clean", "ignore", "remount", "panic", "halted"}

(* Every field of the record, and nothing else. *)
Shaped(c) ==
  c = [op |-> c.op, node |-> c.node, name |-> c.name, index |-> c.index, i |-> c.i,
       block |-> c.block, offset |-> c.offset, size |-> c.size, left |-> c.left]

(* The node stands for a file of the image. *)
IsNode(node) ==
  /\ node.inode \in DOMAIN Stat /\ node.size = Stat[node.inode].size
  /\ \E junk \in Garbage : node.flag = junk \cup Stat[node.inode].type

RootOK ==
  /\ ~root.reads
  /\ IF Booting THEN root.inode \in {0, EXT2_INODE_ROOT} /\ file = NoNode /\ call = NoCall
     ELSE root.inode = EXT2_INODE_ROOT /\ IsNode(root)

FileOK == file = NoNode \/ (IsNode(file) /\ file.reads)

CallOK ==
  /\ Shaped(call)
  /\ call.op \in {"none", "finddir", "readdir", "read", "write"}
  /\ call.op \in {"finddir", "readdir", "read"} => IsNode(call.node)
  /\ call.index \in Nat /\ call.offset \in Nat /\ call.block \in Nat /\ call.i \in Nat
  /\ call.size \in Nat /\ call.left \in 0..call.size
  /\ call.op = "read" => call.size \in ReadSizes

(* vfs_finddir is at entry j, and no entry before it has a matching name. *)
FindingAt(j) ==
  LET entries == Listing[call.node.inode] IN
  /\ call.index = Starts[call.node.inode][j]
  /\ \A k \in 1..(j - 1) : entries[k].name.len # call.name.len

Finding ==
  pc = "find" =>
    /\ call.op = "finddir" /\ IsDirectory(call.node) /\ ret = NullRet
    /\ \E j \in 1..(Len(Listing[call.node.inode]) + 1) : FindingAt(j)

(* vfs_readdir is in the first block, at the entry it has counted to, or behind
   that block. *)
CountingInv ==
  pc = "count" =>
    /\ call.op = "readdir" /\ IsDirectory(call.node) /\ call.i \in 0..call.index
    /\ \/ call.offset >= BlockSize
       \/ /\ call.block = 0
          /\ call.i + 1 \in 1..Len(Listing[call.node.inode])
          /\ call.offset = Starts[call.node.inode][call.i + 1]

(* vfs_read has copied nothing yet, or its bytes do not lie in one block. *)
Reading ==
  pc = "read" =>
    /\ call.op = "read" /\ call.node.reads /\ call.offset < BlockSize
    /\ \/ /\ call.left = call.size /\ call.block = call.index \div BlockSize
          /\ call.offset = call.index % BlockSize
       \/ call.size > BlockSize - (call.index % BlockSize)

Kept == DOMAIN buffer = Positions /\ BufferKept

Inv ==
  /\ pc \in {"clean", "ignore", "remount", "panic", "halted", "idle", "find", "count", "read"}
  /\ ret.kind \in {"null", "file", "entry", "junk", "size"}
  /\ RootOK /\ FileOK /\ CallOK /\ Finding /\ CountingInv /\ Reading /\ Kept
  /\ BytesRight /\ FoundEntry /\ NeverMissed /\ ListedRight
-----------------------------------------------------------------------------
(* Nodes and entries.                                                      *)

(* Whatever a fresh node held: what looks like a directory is one, and its first
   block is there. *)
LEMMA Directory ==
  ASSUME NEW node, IsNode(node), IsDirectory(node)
  PROVE  /\ Stat[node.inode].type = FS_DIRECTORY /\ node.inode \in DOMAIN Listing
         /\ EntriesOf(node) = Listing[node.inode]
         /\ 14 \in InodeOf(node).type
         /\ ext2_inodeblock_get(0, InodeOf(node)) # NULL
         /\ ext2_inodeblock_get(0, InodeOf(node)) = addr + BlockSize * Layout[node.inode][1]
<1> DEFINE n == node.inode
<1>1. n \in DOMAIN Stat
  BY DEF IsNode
<1>2. PICK junk \in Garbage : node.flag = junk \cup Stat[n].type
  BY DEF IsNode
<1>3. Stat[n].type = FS_DIRECTORY
  <2>1. node.flag \cap {0, 1, 2} = {1}
    BY DEF IsDirectory, FS_DIRECTORY
  <2>2. \A x \in Stat[n].type : x = 1
    BY <1>1, <1>2, <2>1, TypeBits
  <2> QED BY <1>1, <2>2, TypeBits DEF FS_DIRECTORY
<1>4. n \in DOMAIN Listing
  BY <1>1, <1>3, ImageAssumption
<1>5. InodeOf(node) = Image[InodeAt(n)]
  BY <1>1, NodeInode
<1>6. 0 \in 0..(Len(Layout[n]) - 1)
  <2>1. HasBlocks(n) /\ HasEntries(n) /\ HasStat(n)
    BY <1>1, <1>4, ImageAssumption
  <2>2. BlockSize <= BlockSize * Len(Layout[n]) /\ Len(Layout[n]) \in Nat
    BY <2>1, InitrdAssumption, SMTT(40) DEF HasBlocks, HasEntries, HasStat
  <2>3. Len(Layout[n]) # 0
    BY <2>2, InitrdAssumption
  <2> QED BY <2>2, <2>3
<1>7. /\ ext2_inodeblock_get(0, Image[InodeAt(n)]) = addr + BlockSize * Layout[n][0 + 1]
      /\ ext2_inodeblock_get(0, Image[InodeAt(n)]) \in Nat \ {0}
  BY <1>1, <1>6, InodeBlockGet
<1>8. 14 \in Image[InodeAt(n)].type
  BY <1>1, <1>3, TypeBits
<1> QED BY <1>3, <1>4, <1>5, <1>7, <1>8 DEF EntriesOf, NULL

(* What lies at the offsets at which the entries of a directory begin. *)
LEMMA Entries ==
  ASSUME NEW n \in DOMAIN Listing
  PROVE  /\ n \in DOMAIN Stat /\ Len(Listing[n]) \in Nat
         /\ DOMAIN Listing[n] = 1..Len(Listing[n])
         /\ Stat[n].size \in Nat /\ BlockSize <= Stat[n].size
         /\ Starts[n][1] = 0 /\ Starts[n][Len(Listing[n]) + 1] = Stat[n].size
         /\ \A k \in 1..Len(Listing[n]) :
              /\ Starts[n][k] \in Nat /\ Starts[n][k] < Stat[n].size
              /\ Starts[n][k + 1] = Starts[n][k] + Listing[n][k].rec_len
              /\ Starts[n][k + 1] \in Nat
              /\ Image[addr + BlockSize * Layout[n][1] + Starts[n][k]] = Listing[n][k]
              /\ Listing[n][k].inode \in DOMAIN Stat
              /\ Listing[n][k].name.len \in Nat
<1>1. HasEntries(n) /\ n \in DOMAIN Stat
  BY ImageAssumption
<1>2. HasStat(n)
  BY <1>1, ImageAssumption
<1>3. Stat[n].size \in Nat
  BY <1>2 DEF HasStat
<1>4. ASSUME NEW k \in 1..Len(Listing[n]) PROVE Starts[n][k + 1] \in Nat
  <2>1. CASE k = Len(Listing[n])
    BY <1>1, <1>3, <2>1 DEF HasEntries
  <2>2. CASE k # Len(Listing[n])
    <3>0. Len(Listing[n]) \in Nat
      BY <1>1 DEF HasEntries
    <3>1. k + 1 \in 1..Len(Listing[n])
      BY <2>2, <3>0
    <3>2. \A l \in 1..Len(Listing[n]) : Starts[n][l] \in 0..(Stat[n].size - 1)
      BY <1>1 DEF HasEntries
    <3>3. Starts[n][k + 1] \in 0..(Stat[n].size - 1)
      BY <3>1, <3>2, Zenon
    <3> QED BY <1>3, <3>3
  <2> QED BY <2>1, <2>2
<1>5. ASSUME NEW k \in 1..Len(Listing[n])
      PROVE  Starts[n][k] \in Nat /\ Starts[n][k] < Stat[n].size
  <2>1. Starts[n][k] \in 0..(Stat[n].size - 1)
    BY <1>1 DEF HasEntries
  <2> QED BY <1>3, <2>1
<1>6. /\ Len(Listing[n]) \in Nat /\ DOMAIN Listing[n] = 1..Len(Listing[n])
      /\ BlockSize <= Stat[n].size
      /\ Starts[n][1] = 0 /\ Starts[n][Len(Listing[n]) + 1] = Stat[n].size
  BY <1>1, <1>3, InitrdAssumption DEF HasEntries
<1>7. \A k \in 1..Len(Listing[n]) :
        /\ Starts[n][k + 1] = Starts[n][k] + Listing[n][k].rec_len
        /\ Image[addr + BlockSize * Layout[n][1] + Starts[n][k]] = Listing[n][k]
        /\ Listing[n][k].inode \in DOMAIN Stat
        /\ Listing[n][k].name.len \in Nat
  BY <1>1, Zenon DEF HasEntries
<1> QED BY <1>1, <1>3, <1>4, <1>5, <1>6, <1>7

-----------------------------------------------------------------------------
(* What most steps have in common.                                         *)

(* The properties are about calls that have returned. *)
LEMMA NotReturned ==
  ASSUME pc' # "idle"
  PROVE  BytesRight' /\ FoundEntry' /\ NeverMissed' /\ ListedRight'
BY DEF BytesRight, ReadReturned, FoundEntry, NeverMissed, ListedRight

(* A step that leaves a call and nodes alone, inside one loop or at its end. *)
LEMMA SameNodes ==
  ASSUME Inv, UNCHANGED <<root, file>>, ~Booting, ~Booting'
  PROVE  RootOK' /\ FileOK'
<1>1. root' = root /\ file' = file
  OBVIOUS
<1>2. /\ ~root.reads /\ root.inode = EXT2_INODE_ROOT /\ IsNode(root)
      /\ file = NoNode \/ (IsNode(file) /\ file.reads)
  BY DEF Inv, RootOK, FileOK
<1>3. /\ ~root'.reads /\ root'.inode = EXT2_INODE_ROOT /\ IsNode(root')
      /\ file' = NoNode \/ (IsNode(file') /\ file'.reads)
  BY <1>1, <1>2
<1> QED BY <1>3 DEF RootOK, FileOK

(* A new call finds an empty buffer. *)
LEMMA FreshBuffer ==
  ASSUME buffer' = Fresh
  PROVE  Kept'
BY DEF Kept, BufferKept, Fresh

(* The buffer of another call than a read. *)
LEMMA SameBuffer ==
  ASSUME Inv, UNCHANGED buffer, call.op # "read", call'.op = call.op
  PROVE  Kept'
BY DEF Inv, Kept, BufferKept

(* The nodes a call may be made on. *)
LEMMA Held ==
  ASSUME Inv, pc = "idle", NEW node \in Nodes
  PROVE  IsNode(node) /\ (node.reads => node = file)
BY DEF Inv, RootOK, FileOK, Nodes, Booting

-----------------------------------------------------------------------------
(* The boot.                                                               *)

(* The invariant holds before the image is looked at. *)
LEMMA InvInit == Init => Inv
<1> SUFFICES ASSUME Init PROVE Inv
  OBVIOUS
<1>1. pc # "idle" /\ pc # "find" /\ pc # "count" /\ pc # "read" /\ Booting
  BY DEF Init, Booting
<1>2. BytesRight /\ FoundEntry /\ NeverMissed /\ ListedRight
  BY <1>1 DEF BytesRight, ReadReturned, FoundEntry, NeverMissed, ListedRight
<1>3. Finding /\ CountingInv /\ Reading
  BY <1>1 DEF Finding, CountingInv, Reading
<1>4. RootOK /\ FileOK
  BY <1>1 DEF Init, RootOK, FileOK, NoNode
<1>5. CallOK
  BY DEF Init, CallOK, NoCall, Shaped
<1>6. Kept
  BY DEF Init, Kept, BufferKept, Fresh
<1>7. ret.kind = "null"
  BY DEF Init, NullRet
<1> QED BY <1>1, <1>2, <1>3, <1>4, <1>5, <1>6, <1>7 DEF Inv, Init

(* The halt for a panic changes nothing. *)
LEMMA ErrorStep ==
  ASSUME Inv, ext2_error
  PROVE  Inv'
<1>1. /\ pc' = "halted" /\ root' = root /\ file' = file /\ call' = call
      /\ ret' = ret /\ buffer' = buffer
  BY DEF ext2_error
<1>2. Booting /\ Booting'
  BY <1>1 DEF ext2_error, Booting
<1>3. BytesRight' /\ FoundEntry' /\ NeverMissed' /\ ListedRight'
  BY <1>1, NotReturned
<1>4. Finding' /\ CountingInv' /\ Reading'
  BY <1>1 DEF Finding, CountingInv, Reading
<1>5. RootOK'
  BY <1>1, <1>2 DEF Inv, RootOK
<1>6. FileOK'
  BY <1>1, <1>2 DEF Inv, FileOK, RootOK
<1>7. CallOK'
  BY <1>1, <1>2 DEF Inv, RootOK, NoCall, CallOK, Shaped
<1>8. Kept'
  BY <1>1 DEF Inv, Kept, BufferKept
<1> QED BY <1>1, <1>3, <1>4, <1>5, <1>6, <1>7, <1>8 DEF Inv

(* The node of the root stands for the root directory. *)
LEMMA InitializeStep ==
  ASSUME Inv, initrd_initialize
  PROVE  Inv'
<1>1. /\ pc' = "idle" /\ file' = file /\ call' = call
      /\ ret' = ret /\ buffer' = buffer
  BY DEF initrd_initialize
<1>2. Booting /\ ~Booting'
  BY <1>1 DEF initrd_initialize, Booting
<1>3. file = NoNode /\ call = NoCall
  BY <1>2 DEF Inv, RootOK
<1>4. call'.op = "none"
  BY <1>1, <1>3 DEF NoCall
<1>5. BytesRight' /\ FoundEntry' /\ NeverMissed' /\ ListedRight'
  BY <1>4 DEF BytesRight, ReadReturned, FoundEntry, NeverMissed, ListedRight
<1>6. Finding' /\ CountingInv' /\ Reading'
  BY <1>1 DEF Finding, CountingInv, Reading
<1>7. RootOK'
  <2> DEFINE n == EXT2_INODE_ROOT
  <2>1. PICK junk \in Garbage :
          root' = [inode |-> n, size |-> Image[ext2_inode_get(n)].size,
                   name |-> [id |-> "/", len |-> 1],
                   flag |-> junk \cup ext2_inode_typetofile(Image[ext2_inode_get(n)]),
                   reads |-> FALSE]
    BY DEF initrd_initialize
  <2>2. n \in DOMAIN Stat
    BY ImageAssumption
  <2>3. ext2_inode_get(n) = InodeAt(n)
    BY <2>2, InodeGet
  <2>4. /\ ext2_inode_typetofile(Image[InodeAt(n)]) = Stat[n].type
        /\ Image[InodeAt(n)].size = Stat[n].size
    BY <2>2, TypeGet, ImageAssumption DEF HasStat
  <2>5. /\ root'.inode = n /\ root'.size = Stat[n].size /\ ~root'.reads
        /\ root'.flag = junk \cup Stat[n].type
    BY <2>1, <2>3, <2>4
  <2>6. IsNode(root')
    BY <2>2, <2>5 DEF IsNode
  <2> QED BY <1>2, <2>5, <2>6 DEF RootOK
<1>8. FileOK'
  BY <1>1, <1>3 DEF FileOK
<1>9. CallOK'
  BY <1>1, <1>3 DEF NoCall, CallOK, Shaped
<1>10. Kept'
  BY <1>1 DEF Inv, Kept, BufferKept
<1> QED BY <1>1, <1>5, <1>6, <1>7, <1>8, <1>9, <1>10 DEF Inv

-----------------------------------------------------------------------------
(* Calls that begin.                                                       *)

(* A search begins at the first entry, or the node is no directory. *)
LEMMA FindDirStep ==
  ASSUME Inv, NEW node \in Nodes, NEW name \in Names, vfs_finddir(node, name)
  PROVE  Inv'
<1>1. /\ pc = "idle" /\ root' = root /\ file' = file /\ buffer' = Fresh
      /\ call' = [NoCall EXCEPT !.op = "finddir", !.node = node, !.name = name]
  BY DEF vfs_finddir
<1>2. /\ ret' = NullRet /\ pc' \in {"find", "idle"}
      /\ pc' = "find" => IsDirectory(node)
      /\ pc' = "idle" =>
           ~ (/\ IsDirectory(node) /\ 14 \in InodeOf(node).type
              /\ ext2_inodeblock_get(0, InodeOf(node)) # NULL)
  BY DEF vfs_finddir, Return
<1>3. IsNode(node)
  BY <1>1, Held
<1>4. /\ call'.op = "finddir" /\ call'.node = node /\ call'.name = name
      /\ call'.index = 0 /\ call'.offset = 0 /\ call'.block = 0 /\ call'.i = 0
      /\ call'.size = 0 /\ call'.left = 0 /\ Shaped(call')
  BY <1>1 DEF NoCall, Shaped
<1>5. CallOK'
  BY <1>3, <1>4 DEF CallOK
<1>6. ~Booting /\ ~Booting'
  BY <1>1, <1>2 DEF Booting
<1>7. RootOK' /\ FileOK'
  BY <1>1, <1>6, SameNodes
<1>8. Kept'
  BY <1>1, FreshBuffer
<1>9. ret'.kind = "null"
  BY <1>2 DEF NullRet
<1>10. CountingInv' /\ Reading'
  BY <1>2 DEF CountingInv, Reading
<1>11. Finding'
  <2> SUFFICES ASSUME pc' = "find"
               PROVE  /\ IsDirectory(call'.node)
                      /\ \E j \in 1..(Len(Listing[call'.node.inode]) + 1) : FindingAt(j)'
    BY <1>2, <1>4 DEF Finding
  <2>1. IsDirectory(node)
    BY <1>2
  <2>2. node.inode \in DOMAIN Listing
    BY <1>3, <2>1, Directory
  <2>3. Len(Listing[node.inode]) \in Nat /\ Starts[node.inode][1] = 0
    BY <2>2, Entries
  <2>4. FindingAt(1)'
    BY <1>4, <2>3 DEF FindingAt
  <2>5. 1 \in 1..(Len(Listing[call'.node.inode]) + 1)
    BY <1>4, <2>3
  <2> QED BY <1>4, <2>1, <2>4, <2>5
<1>12. BytesRight' /\ FoundEntry' /\ NeverMissed' /\ ListedRight'
  <2>1. BytesRight' /\ ListedRight'
    BY <1>4 DEF BytesRight, ReadReturned, ListedRight
  <2>2. FoundEntry'
    BY <1>9 DEF FoundEntry
  <2>3. NeverMissed'
    <3>1. pc' = "idle" => ~IsDirectory(call'.node)
      BY <1>2, <1>3, <1>4, Directory
    <3> QED BY <3>1 DEF NeverMissed
  <2> QED BY <2>1, <2>2, <2>3
<1> QED BY <1>2, <1>5, <1>7, <1>8, <1>9, <1>10, <1>11, <1>12 DEF Inv

(* Counting begins at the first entry of the first block. *)
LEMMA ReadDirStep ==
  ASSUME Inv, NEW node \in Nodes, NEW index \in Indices, vfs_readdir(node, index)
  PROVE  Inv'
<1>1. /\ pc = "idle" /\ root' = root /\ file' = file /\ buffer' = Fresh
      /\ call' = [NoCall EXCEPT !.op = "readdir", !.node = node, !.index = index]
  BY DEF vfs_readdir
<1>2. /\ ret' = NullRet /\ pc' \in {"count", "idle"}
      /\ pc' = "count" <=> IsDirectory(node)
  BY DEF vfs_readdir, Return
<1>3. IsNode(node)
  BY <1>1, Held
<1>4. /\ call'.op = "readdir" /\ call'.node = node
      /\ call'.index = index /\ call'.offset = 0 /\ call'.block = 0 /\ call'.i = 0
      /\ call'.size = 0 /\ call'.left = 0 /\ Shaped(call')
  BY <1>1 DEF NoCall, Shaped
<1>5. index \in Nat
  BY InitrdAssumption
<1>6. CallOK'
  BY <1>3, <1>4, <1>5 DEF CallOK
<1>7. ~Booting /\ ~Booting'
  BY <1>1, <1>2 DEF Booting
<1>8. RootOK' /\ FileOK'
  BY <1>1, <1>7, SameNodes
<1>9. Kept'
  BY <1>1, FreshBuffer
<1>10. ret'.kind = "null"
  BY <1>2 DEF NullRet
<1>11. Finding' /\ Reading'
  BY <1>2 DEF Finding, Reading
<1>12. CountingInv'
  <2> SUFFICES ASSUME pc' = "count"
               PROVE  /\ IsDirectory(node) /\ 0 \in 0..index
                      /\ 0 + 1 \in 1..Len(Listing[node.inode])
                      /\ 0 = Starts[node.inode][0 + 1]
    BY <1>4 DEF CountingInv
  <2>1. IsDirectory(node)
    BY <1>2
  <2>2. node.inode \in DOMAIN Listing
    BY <1>3, <2>1, Directory
  <2>3. /\ Len(Listing[node.inode]) \in Nat /\ Starts[node.inode][1] = 0
        /\ Starts[node.inode][Len(Listing[node.inode]) + 1] = Stat[node.inode].size
        /\ Stat[node.inode].size \in Nat /\ BlockSize <= Stat[node.inode].size
    BY <2>2, Entries
  <2>4. Len(Listing[node.inode]) # 0
    BY <2>3, InitrdAssumption
  <2> QED BY <1>5, <2>1, <2>3, <2>4
<1>13. BytesRight' /\ FoundEntry' /\ NeverMissed' /\ ListedRight'
  <2>1. BytesRight' /\ FoundEntry' /\ NeverMissed'
    BY <1>4 DEF BytesRight, ReadReturned, FoundEntry, NeverMissed
  <2>2. ListedRight'
    <3>1. pc' = "idle" => ~IsDirectory(call'.node)
      BY <1>2, <1>4
    <3> QED BY <3>1 DEF ListedRight
  <2> QED BY <2>1, <2>2
<1> QED BY <1>2, <1>6, <1>8, <1>9, <1>10, <1>11, <1>12, <1>13 DEF Inv

(* A read begins in the block that holds its first byte. *)
LEMMA ReadStep ==
  ASSUME Inv, NEW node \in Nodes, NEW offset \in Offsets, NEW size \in ReadSizes,
         vfs_read(node, offset, size)
  PROVE  Inv'
<1>1. /\ pc = "idle" /\ root' = root /\ file' = file /\ buffer' = Fresh
      /\ call' = [NoCall EXCEPT !.op = "read", !.node = node, !.index = offset,
                                !.size = size, !.block = offset \div BlockSize,
                                !.offset = offset % BlockSize, !.left = size]
  BY DEF vfs_read
<1>2. ret' = NullRet /\ pc' \in {"read", "idle"} /\ (pc' = "read" => node.reads)
  BY DEF vfs_read, Return
<1>3. IsNode(node)
  BY <1>1, Held
<1>4. /\ call'.op = "read" /\ call'.node = node /\ call'.index = offset
      /\ call'.offset = offset % BlockSize /\ call'.block = offset \div BlockSize
      /\ call'.i = 0 /\ call'.size = size /\ call'.left = size /\ Shaped(call')
  BY <1>1 DEF NoCall, Shaped
<1>5. /\ offset \in Nat /\ size \in Nat /\ offset \div BlockSize \in Nat
      /\ offset % BlockSize \in Nat /\ offset % BlockSize < BlockSize
  BY InitrdAssumption
<1>6. CallOK'
  BY <1>3, <1>4, <1>5 DEF CallOK
<1>7. ~Booting /\ ~Booting'
  BY <1>1, <1>2 DEF Booting
<1>8. RootOK' /\ FileOK'
  BY <1>1, <1>7, SameNodes
<1>9. Kept'
  BY <1>1, FreshBuffer
<1>10. ret'.kind = "null"
  BY <1>2 DEF NullRet
<1>11. Finding' /\ CountingInv'
  BY <1>2 DEF Finding, CountingInv
<1>12. Reading'
  BY <1>2, <1>4, <1>5 DEF Reading
<1>13. BytesRight' /\ FoundEntry' /\ NeverMissed' /\ ListedRight'
  BY <1>4, <1>10 DEF BytesRight, ReadReturned, FoundEntry, NeverMissed, ListedRight
<1> QED BY <1>2, <1>6, <1>8, <1>9, <1>10, <1>11, <1>12, <1>13 DEF Inv

(* vfs_write returns at once. *)
LEMMA WriteStep ==
  ASSUME Inv, vfs_write
  PROVE  Inv'
<1>1. /\ pc = "idle" /\ pc' = "idle" /\ root' = root /\ file' = file /\ buffer' = Fresh
      /\ call' = [NoCall EXCEPT !.op = "write"] /\ ret' = NullRet
  BY DEF vfs_write
<1>2. call'.op = "write" /\ CallOK'
  BY <1>1 DEF NoCall, CallOK, Shaped
<1>3. RootOK' /\ FileOK'
  BY <1>1, SameNodes DEF Booting
<1>4. Kept'
  BY <1>1, FreshBuffer
<1>5. Finding' /\ CountingInv' /\ Reading'
  BY <1>1 DEF Finding, CountingInv, Reading
<1>6. BytesRight' /\ FoundEntry' /\ NeverMissed' /\ ListedRight'
  BY <1>2 DEF BytesRight, ReadReturned, FoundEntry, NeverMissed, ListedRight
<1>7. ret'.kind = "null"
  BY <1>1 DEF NullRet
<1> QED BY <1>1, <1>2, <1>3, <1>4, <1>5, <1>6, <1>7 DEF Inv

-----------------------------------------------------------------------------
(* The search for a name.                                                  *)

(* Where the search is: at entry j of the directory, or at its end. *)
LEMMA FindPlace ==
  ASSUME Inv, pc = "find"
  PROVE  /\ call.op = "finddir" /\ IsNode(call.node) /\ IsDirectory(call.node)
         /\ call.node.inode \in DOMAIN Listing
         /\ EntriesOf(call.node) = Listing[call.node.inode]
         /\ \E j \in 1..(Len(Listing[call.node.inode]) + 1) :
              /\ FindingAt(j)
              /\ call.index >= InodeOf(call.node).size =>
                   j = Len(Listing[call.node.inode]) + 1
              /\ call.index < InodeOf(call.node).size =>
                   /\ j \in 1..Len(Listing[call.node.inode])
                   /\ Image[FindEntry] = Listing[call.node.inode][j]
<1> DEFINE n == call.node.inode
           last == Len(Listing[n])
<1>1. call.op = "finddir" /\ IsDirectory(call.node)
  BY DEF Inv, Finding
<1>2. IsNode(call.node)
  BY <1>1 DEF Inv, CallOK
<1>3. n \in DOMAIN Listing /\ EntriesOf(call.node) = Listing[n]
  BY <1>1, <1>2, Directory
<1>4. ext2_inodeblock_get(0, InodeOf(call.node)) = addr + BlockSize * Layout[n][1]
  BY <1>1, <1>2, Directory
<1>5. InodeOf(call.node).size = Stat[n].size
  BY <1>2, NodeInode DEF IsNode
<1>6. PICK j \in 1..(last + 1) : FindingAt(j)
  BY DEF Inv, Finding
<1>7. call.index = Starts[n][j]
  BY <1>6 DEF FindingAt
<1>8. /\ last \in Nat /\ Stat[n].size \in Nat /\ Starts[n][last + 1] = Stat[n].size
      /\ \A k \in 1..last :
           /\ Starts[n][k] \in Nat /\ Starts[n][k] < Stat[n].size
           /\ Image[addr + BlockSize * Layout[n][1] + Starts[n][k]] = Listing[n][k]
  BY <1>3, Entries
<1>9. FindEntry = addr + BlockSize * Layout[n][1] + call.index
  BY <1>4 DEF FindEntry
<1>10. j \in 1..last \/ j = last + 1
  BY <1>8
<1>11. CASE j = last + 1
  <2>1. call.index = Stat[n].size
    BY <1>7, <1>8, <1>11
  <2>2. ~(call.index < InodeOf(call.node).size)
    BY <1>5, <1>8, <2>1
  <2> QED BY <1>1, <1>2, <1>3, <1>6, <1>11, <2>2
<1>12. CASE j \in 1..last
  <2>1. call.index \in Nat /\ call.index < Stat[n].size
    BY <1>7, <1>8, <1>12
  <2>2. Image[FindEntry] = Listing[n][j]
    BY <1>7, <1>8, <1>9, <1>12
  <2>3. ~(call.index >= InodeOf(call.node).size)
    BY <1>5, <1>8, <2>1
  <2> QED BY <1>1, <1>2, <1>3, <1>6, <1>12, <2>2, <2>3
<1> QED BY <1>10, <1>11, <1>12

(* A search that returns without a node has passed every entry with another
   length, or the name is too long for a node. *)
LEMMA FindFails ==
  ASSUME Inv, pc = "find", pc' = "idle", ret' = NullRet,
         UNCHANGED <<root, file, call, buffer>>,
         \A k \in DOMAIN EntriesOf(call.node) :
            EntriesOf(call.node)[k].name = call.name => call.name.len >= NameMax
  PROVE  Inv'
<1>1. call.op = "finddir"
  BY DEF Inv, Finding
<1>2. call' = call /\ root' = root /\ file' = file /\ buffer' = buffer
  OBVIOUS
<1>3. CallOK'
  BY <1>2 DEF Inv, CallOK
<1>4. RootOK' /\ FileOK'
  BY SameNodes DEF Booting
<1>5. Kept'
  BY <1>1, <1>2, SameBuffer
<1>6. Finding' /\ CountingInv' /\ Reading'
  BY DEF Finding, CountingInv, Reading
<1>7. ret'.kind = "null"
  BY DEF NullRet
<1>8. BytesRight' /\ FoundEntry' /\ ListedRight'
  BY <1>1, <1>2, <1>7 DEF BytesRight, ReadReturned, FoundEntry, ListedRight
<1>9. NeverMissed'
  BY <1>2 DEF NeverMissed
<1> QED BY <1>3, <1>4, <1>5, <1>6, <1>7, <1>8, <1>9 DEF Inv

(* At the end of the directory no entry matched. *)
LEMMA FindEndStep ==
  ASSUME Inv, FindEnd
  PROVE  Inv'
<1> DEFINE entries == Listing[call.node.inode]
<1>1. /\ pc = "find" /\ pc' = "idle" /\ ret' = NullRet
      /\ UNCHANGED <<root, file, call, buffer>>
      /\ call.index >= InodeOf(call.node).size
  BY DEF FindEnd, Return
<1>2. call.node.inode \in DOMAIN Listing /\ EntriesOf(call.node) = entries
  BY <1>1, FindPlace
<1>3. FindingAt(Len(entries) + 1)
  BY <1>1, FindPlace
<1>4. Len(entries) \in Nat /\ DOMAIN entries = 1..Len(entries)
  BY <1>2, Entries
<1>5. \A k \in DOMAIN entries : entries[k].name.len # call.name.len
  BY <1>3, <1>4 DEF FindingAt
<1>6. \A k \in DOMAIN EntriesOf(call.node) :
        EntriesOf(call.node)[k].name = call.name => call.name.len >= NameMax
  BY <1>2, <1>5
<1> QED BY <1>1, <1>6, FindFails

(* An entry whose name has another length is passed over. *)
LEMMA FindNextStep ==
  ASSUME Inv, FindNext
  PROVE  Inv'
<1> DEFINE n == call.node.inode
           entries == Listing[n]
<1>1. /\ pc = "find" /\ pc' = pc /\ root' = root /\ file' = file
      /\ ret' = ret /\ buffer' = buffer
      /\ call' = [call EXCEPT !.index = @ + Image[FindEntry].rec_len]
      /\ call.index < InodeOf(call.node).size /\ ~Matches(Image[FindEntry])
  BY DEF FindNext
<1>2. /\ call.op = "finddir" /\ IsNode(call.node) /\ IsDirectory(call.node)
      /\ n \in DOMAIN Listing
  BY <1>1, FindPlace
<1>3. PICK j \in 1..Len(entries) : FindingAt(j) /\ Image[FindEntry] = entries[j]
  BY <1>1, FindPlace
<1>4. /\ Len(entries) \in Nat
      /\ Starts[n][j + 1] = Starts[n][j] + entries[j].rec_len /\ Starts[n][j + 1] \in Nat
  BY <1>2, Entries
<1>5. call.index = Starts[n][j]
  BY <1>3 DEF FindingAt
<1>6. /\ call'.index = Starts[n][j + 1]
      /\ call'.op = call.op /\ call'.node = call.node /\ call'.name = call.name
      /\ call'.i = call.i /\ call'.block = call.block /\ call'.offset = call.offset
      /\ call'.size = call.size /\ call'.left = call.left /\ Shaped(call')
  <2>1. Shaped(call)
    BY DEF Inv, CallOK
  <2>2. Image[FindEntry].rec_len = entries[j].rec_len
    BY <1>3
  <2> QED BY <1>1, <1>4, <1>5, <2>1, <2>2 DEF Shaped
<1>7. CallOK'
  BY <1>2, <1>4, <1>6 DEF Inv, CallOK
<1>8. RootOK' /\ FileOK'
  BY <1>1, SameNodes DEF Booting
<1>9. Kept'
  BY <1>1, <1>2, <1>6, SameBuffer
<1>10. CountingInv' /\ Reading'
  BY <1>1 DEF CountingInv, Reading
<1>11. Finding'
  <2>1. \A k \in 1..(j + 1 - 1) : entries[k].name.len # call.name.len
    <3>1. entries[j].name.len # call.name.len
      BY <1>1, <1>3 DEF Matches
    <3>2. \A k \in 1..(j - 1) : entries[k].name.len # call.name.len
      BY <1>3 DEF FindingAt
    <3>3. ASSUME NEW k \in 1..(j + 1 - 1) PROVE k = j \/ k \in 1..(j - 1)
      OBVIOUS
    <3> QED BY <3>1, <3>2, <3>3
  <2>2. FindingAt(j + 1)'
    BY <1>6, <2>1 DEF FindingAt
  <2>3. j + 1 \in 1..(Len(Listing[call'.node.inode]) + 1)
    BY <1>4, <1>6
  <2>4. ret' = NullRet
    BY <1>1 DEF Inv, Finding
  <2> QED BY <1>2, <1>6, <2>2, <2>3, <2>4 DEF Finding
<1>12. BytesRight' /\ FoundEntry' /\ NeverMissed' /\ ListedRight'
  BY <1>1, NotReturned
<1>13. pc' = "find" /\ ret'.kind = "null"
  BY <1>1 DEF Inv, Finding, NullRet
<1> QED BY <1>7, <1>8, <1>9, <1>10, <1>11, <1>12, <1>13 DEF Inv

(* A name of the right length: its file, unless the name is too long. *)
LEMMA FindMatchStep ==
  ASSUME Inv, FindMatch
  PROVE  Inv'
<1> DEFINE n == call.node.inode
           entries == Listing[n]
<1>1. /\ pc = "find" /\ pc' = "idle" /\ root' = root /\ call' = call /\ buffer' = buffer
      /\ call.index < InodeOf(call.node).size /\ Matches(Image[FindEntry])
  BY DEF FindMatch, Return
<1>2. /\ call.op = "finddir" /\ IsNode(call.node) /\ IsDirectory(call.node)
      /\ n \in DOMAIN Listing /\ EntriesOf(call.node) = entries
  BY <1>1, FindPlace
<1>3. PICK j \in 1..Len(entries) : FindingAt(j) /\ Image[FindEntry] = entries[j]
  BY <1>1, FindPlace
<1>4. entries[j].name.len = call.name.len
  BY <1>1, <1>3 DEF Matches
<1>5. /\ entries[j].inode \in DOMAIN Stat /\ entries[j].name.len \in Nat
      /\ DOMAIN entries = 1..Len(entries)
  BY <1>2, Entries
<1>6. CASE strlen(FindEntry) > NameMax /\ ret' = NullRet /\ file' = file
  <2>1. strlen(FindEntry) \in {call.name.len, call.name.len + 1}
    BY <1>3, <1>4, <1>5 DEF strlen
  <2>2. call.name.len >= NameMax
    BY <1>4, <1>5, <1>6, <2>1, InitrdAssumption
  <2>3. UNCHANGED <<root, file, call, buffer>>
    BY <1>1, <1>6
  <2> QED BY <1>1, <1>6, <2>2, <2>3, FindFails
<1>7. CASE /\ ret' = FileRet
           /\ \E junk \in Garbage :
                LET ent   == Image[FindEntry]
                    inode == Image[ext2_inode_get(ent.inode)] IN
                file' = [inode |-> ent.inode, size |-> inode.size,
                         name |-> CopiedName(FindEntry, junk), reads |-> TRUE,
                         flag |-> junk \cup ext2_inode_typetofile(inode)]
  <2> DEFINE m == entries[j].inode
  <2>1. ext2_inode_get(m) = InodeAt(m)
    BY <1>5, InodeGet
  <2>2. /\ ext2_inode_typetofile(Image[InodeAt(m)]) = Stat[m].type
        /\ Image[InodeAt(m)].size = Stat[m].size
    BY <1>5, TypeGet, ImageAssumption DEF HasStat
  <2>3. PICK junk \in Garbage :
          /\ file'.inode = m /\ file'.size = Stat[m].size /\ file'.reads
          /\ file'.flag = junk \cup Stat[m].type
    <3>1. PICK junk \in Garbage :
            file' = [inode |-> m, size |-> Stat[m].size,
                     name |-> CopiedName(FindEntry, junk), reads |-> TRUE,
                     flag |-> junk \cup Stat[m].type]
      BY <1>3, <1>7, <2>1, <2>2, Zenon
    <3> QED BY <3>1
  <2>4. IsNode(file')
    BY <1>5, <2>3 DEF IsNode
  <2>5. FileOK'
    BY <2>3, <2>4 DEF FileOK
  <2>6. RootOK'
    BY <1>1 DEF Inv, RootOK, Booting
  <2>7. CallOK'
    BY <1>1 DEF Inv, CallOK
  <2>8. Kept'
    BY <1>1, <1>2, SameBuffer
  <2>9. Finding' /\ CountingInv' /\ Reading'
    BY <1>1 DEF Finding, CountingInv, Reading
  <2>10. ret'.kind = "file"
    BY <1>7 DEF FileRet, NullRet
  <2>11. BytesRight' /\ NeverMissed' /\ ListedRight'
    BY <1>1, <1>2, <2>10 DEF BytesRight, ReadReturned, NeverMissed, ListedRight
  <2>12. FoundEntry'
    <3>1. j \in DOMAIN EntriesOf(call'.node)
      BY <1>1, <1>2, <1>5
    <3>2. /\ EntriesOf(call'.node)[j].name.len = call'.name.len
          /\ EntriesOf(call'.node)[j].inode = file'.inode
      BY <1>1, <1>2, <1>4, <2>3
    <3>3. \A k \in 1..(j - 1) : EntriesOf(call'.node)[k].name.len # call'.name.len
      BY <1>1, <1>2, <1>3 DEF FindingAt
    <3>4. /\ file'.size = Stat[file'.inode].size
          /\ file'.flag = junk \cup Stat[file'.inode].type
      BY <2>3
    <3> QED BY <3>1, <3>2, <3>3, <3>4 DEF FoundEntry
  <2> QED BY <1>1, <2>5, <2>6, <2>7, <2>8, <2>9, <2>10, <2>11, <2>12 DEF Inv
<1> QED BY <1>6, <1>7 DEF FindMatch, Return

-----------------------------------------------------------------------------
(* Counting entries.                                                       *)

(* While the count is in the first block, it is at an entry of the directory. *)
LEMMA CountPlace ==
  ASSUME Inv, pc = "count", call.offset < BlockSize
  PROVE  LET n == call.node.inode IN
         /\ call.block = 0 /\ call.i + 1 \in 1..Len(Listing[n])
         /\ call.offset = Starts[n][call.i + 1]
         /\ Image[EntryAt] = Listing[n][call.i + 1]
<1> DEFINE n == call.node.inode
<1>1. call.op = "readdir" /\ IsDirectory(call.node)
  BY DEF Inv, CountingInv
<1>2. IsNode(call.node) /\ call.offset \in Nat
  BY <1>1 DEF Inv, CallOK
<1>3. n \in DOMAIN Listing
  BY <1>1, <1>2, Directory
<1>4. /\ call.block = 0 /\ call.i + 1 \in 1..Len(Listing[n])
      /\ call.offset = Starts[n][call.i + 1]
  BY <1>2, InitrdAssumption DEF Inv, CountingInv
<1>5. ext2_inodeblock_get(0, InodeOf(call.node)) = addr + BlockSize * Layout[n][1]
  BY <1>1, <1>2, Directory
<1>6. EntryAt = addr + BlockSize * Layout[n][1] + Starts[n][call.i + 1]
  BY <1>4, <1>5 DEF EntryAt
<1>7. Image[EntryAt] = Listing[n][call.i + 1]
  BY <1>3, <1>4, <1>6, Entries
<1> QED BY <1>4, <1>7

(* Behind the first block the count goes on for ever or returns nothing. *)
LEMMA CountBlockStep ==
  ASSUME Inv, CountBlock
  PROVE  Inv'
<1> DEFINE n == call.node.inode
<1>1. /\ pc = "count" /\ root' = root /\ file' = file /\ buffer' = buffer
      /\ call.offset > InodeOf(call.node).size \/ call.offset >= BlockSize
  BY DEF CountBlock, Counting
<1>2. call.op = "readdir" /\ IsDirectory(call.node) /\ call.i \in 0..call.index
  BY <1>1 DEF Inv, CountingInv
<1>3. IsNode(call.node) /\ Shaped(call) /\ call.offset \in Nat /\ call.block \in Nat
  BY <1>2 DEF Inv, CallOK
<1>4. call.offset >= BlockSize
  <2>1. n \in DOMAIN Listing /\ n \in DOMAIN Stat
    BY <1>2, <1>3, Directory DEF IsNode
  <2>2. BlockSize <= Stat[n].size /\ Stat[n].size \in Nat
    BY <2>1, Entries
  <2>3. InodeOf(call.node).size = Stat[n].size
    BY <2>1, NodeInode
  <2> QED BY <1>1, <1>3, <2>2, <2>3, InitrdAssumption
<1>5. \/ pc' = "idle" /\ ret' = NullRet /\ call' = call
      \/ /\ pc' = "count" /\ ret' = ret
         /\ call' = [call EXCEPT !.block = (@ + 1) % UINT_RANGE]
  BY <1>1 DEF CountBlock, Return
<1>6. /\ call'.op = call.op /\ call'.node = call.node /\ call'.name = call.name
      /\ call'.i = call.i /\ call'.index = call.index /\ call'.offset = call.offset
      /\ call'.size = call.size /\ call'.left = call.left /\ Shaped(call')
      /\ call'.block = call.block \/ call'.block = (call.block + 1) % UINT_RANGE
  BY <1>3, <1>5 DEF Shaped
<1>7. call'.block \in Nat
  BY <1>3, <1>6, InitrdAssumption
<1>8. CallOK'
  BY <1>2, <1>3, <1>6, <1>7 DEF Inv, CallOK
<1>9. RootOK' /\ FileOK'
  BY <1>1, <1>5, SameNodes DEF Booting
<1>10. Kept'
  BY <1>1, <1>2, <1>6, SameBuffer
<1>11. Finding' /\ Reading'
  BY <1>5 DEF Finding, Reading
<1>12. CountingInv'
  BY <1>2, <1>4, <1>6 DEF CountingInv
<1>13. BytesRight' /\ FoundEntry' /\ NeverMissed'
  BY <1>2, <1>6 DEF BytesRight, ReadReturned, FoundEntry, NeverMissed
<1>14. ListedRight'
  BY <1>4, <1>6 DEF ListedRight
<1>15. ret'.kind \in {"null", "file", "entry", "junk", "size"}
  BY <1>5 DEF Inv, NullRet
<1>16. pc' \in {"idle", "count"}
  BY <1>5
<1> QED BY <1>8, <1>9, <1>10, <1>11, <1>12, <1>13, <1>14, <1>15, <1>16 DEF Inv

(* An entry of the first block is passed over. *)
LEMMA CountEntryStep ==
  ASSUME Inv, CountEntry
  PROVE  Inv'
<1> DEFINE n == call.node.inode
<1>1. /\ pc = "count" /\ pc' = pc /\ root' = root /\ file' = file
      /\ buffer' = buffer /\ ret' = ret
      /\ call.i < call.index /\ call.offset < BlockSize
      /\ call' = [call EXCEPT !.offset = @ + Image[EntryAt].rec_len, !.i = @ + 1]
  BY DEF CountEntry, Counting
<1>2. call.op = "readdir" /\ IsDirectory(call.node) /\ call.i \in 0..call.index
  BY <1>1 DEF Inv, CountingInv
<1>3. /\ IsNode(call.node) /\ Shaped(call) /\ call.offset \in Nat /\ call.index \in Nat
      /\ call.i \in Nat
  BY <1>2 DEF Inv, CallOK
<1>4. /\ call.block = 0 /\ call.i + 1 \in 1..Len(Listing[n])
      /\ call.offset = Starts[n][call.i + 1]
      /\ Image[EntryAt] = Listing[n][call.i + 1]
  BY <1>1, CountPlace
<1>5. n \in DOMAIN Listing
  BY <1>2, <1>3, Directory
<1>6. Len(Listing[n]) \in Nat
  BY <1>5, Entries
<1>7. Starts[n][call.i + 1 + 1] = Starts[n][call.i + 1] + Listing[n][call.i + 1].rec_len
  BY <1>4, <1>5, Entries
<1>8. Starts[n][call.i + 1 + 1] \in Nat
  BY <1>4, <1>5, Entries
<1>9. /\ call'.op = call.op /\ call'.node = call.node /\ call'.name = call.name
      /\ call'.i = call.i + 1 /\ call'.index = call.index /\ call'.block = call.block
      /\ call'.offset = Starts[n][call.i + 1 + 1]
      /\ call'.size = call.size /\ call'.left = call.left /\ Shaped(call')
  BY <1>1, <1>3, <1>4, <1>7 DEF Shaped
<1>10. CallOK'
  BY <1>2, <1>3, <1>8, <1>9 DEF Inv, CallOK
<1>11. RootOK' /\ FileOK'
  BY <1>1, SameNodes DEF Booting
<1>12. Kept'
  BY <1>1, <1>2, <1>9, SameBuffer
<1>13. Finding' /\ Reading'
  BY <1>1 DEF Finding, Reading
<1>14. CountingInv'
  <2>1. call'.i \in 0..call'.index
    BY <1>1, <1>3, <1>9
  <2>2. CASE call.i + 1 = Len(Listing[n])
    <3>1. Starts[n][call.i + 1 + 1] = Stat[n].size /\ BlockSize <= Stat[n].size
      BY <1>5, <2>2, Entries
    <3>2. call'.offset >= BlockSize
      BY <1>8, <1>9, <3>1, InitrdAssumption
    <3> QED BY <1>2, <1>9, <2>1, <3>2 DEF CountingInv
  <2>3. CASE call.i + 1 # Len(Listing[n])
    <3>1. call'.i + 1 \in 1..Len(Listing[n])
      BY <1>3, <1>4, <1>6, <1>9, <2>3
    <3>2. call'.offset = Starts[call'.node.inode][call'.i + 1] /\ call'.block = 0
      BY <1>4, <1>9
    <3>3. call'.i + 1 \in 1..Len(Listing[call'.node.inode])
      BY <1>9, <3>1
    <3> QED BY <1>2, <1>9, <2>1, <3>2, <3>3 DEF CountingInv
  <2> QED BY <2>2, <2>3
<1>15. BytesRight' /\ FoundEntry' /\ NeverMissed' /\ ListedRight'
  BY <1>1, NotReturned
<1>16. pc' = "count" /\ ret'.kind \in {"null", "file", "entry", "junk", "size"}
  BY <1>1 DEF Inv
<1> QED BY <1>10, <1>11, <1>12, <1>13, <1>14, <1>15, <1>16 DEF Inv

(* The entry that was counted to is the one that was asked for. *)
LEMMA CountDoneStep ==
  ASSUME Inv, CountDone
  PROVE  Inv'
<1> DEFINE n == call.node.inode
<1>1. /\ pc = "count" /\ pc' = "idle" /\ root' = root /\ file' = file
      /\ buffer' = buffer /\ call' = call /\ call.i = call.index
      /\ ret' = IF call.offset < BlockSize THEN EntryRet(Image[EntryAt]) ELSE JunkRet
  BY DEF CountDone, Return
<1>2. call.op = "readdir" /\ IsDirectory(call.node)
  BY <1>1 DEF Inv, CountingInv
<1>3. IsNode(call.node) /\ call.offset \in Nat
  BY <1>2 DEF Inv, CallOK
<1>4. CallOK'
  BY <1>1 DEF Inv, CallOK
<1>5. RootOK' /\ FileOK'
  BY <1>1, SameNodes DEF Booting
<1>6. Kept'
  BY <1>1, <1>2, SameBuffer
<1>7. Finding' /\ CountingInv' /\ Reading'
  BY <1>1 DEF Finding, CountingInv, Reading
<1>8. BytesRight' /\ FoundEntry' /\ NeverMissed'
  BY <1>1, <1>2 DEF BytesRight, ReadReturned, FoundEntry, NeverMissed
<1>9. CASE call.offset < BlockSize
  <2>1. /\ call.i + 1 \in 1..Len(Listing[n])
        /\ Image[EntryAt] = Listing[n][call.i + 1]
    BY <1>1, <1>9, CountPlace
  <2>2. n \in DOMAIN Listing /\ EntriesOf(call.node) = Listing[n]
    BY <1>2, <1>3, Directory
  <2>3. DOMAIN Listing[n] = 1..Len(Listing[n])
    BY <2>2, Entries
  <2>4. ret' = EntryRet(Listing[n][call.index + 1])
    BY <1>1, <1>9, <2>1
  <2>5. /\ ret'.kind = "entry" /\ ret'.name = Listing[n][call.index + 1].name
        /\ ret'.inode = Listing[n][call.index + 1].inode
    BY <2>4 DEF EntryRet
  <2>6. ListedRight'
    BY <1>1, <2>1, <2>2, <2>3, <2>5 DEF ListedRight
  <2> QED BY <1>1, <1>4, <1>5, <1>6, <1>7, <1>8, <2>5, <2>6 DEF Inv
<1>10. CASE ~(call.offset < BlockSize)
  <2>1. ret'.kind = "junk"
    BY <1>1, <1>10 DEF JunkRet, NullRet
  <2>2. call'.offset >= BlockSize
    BY <1>1, <1>3, <1>10, InitrdAssumption
  <2>3. ListedRight'
    BY <2>2 DEF ListedRight
  <2> QED BY <1>1, <1>4, <1>5, <1>6, <1>7, <1>8, <2>1, <2>3 DEF Inv
<1> QED BY <1>9, <1>10

-----------------------------------------------------------------------------
(* Reading.                                                                *)

(* A number is made of its quotient and its remainder. *)
LEMMA Parts ==
  ASSUME NEW x \in Nat
  PROVE  /\ x \div BlockSize \in Nat /\ x % BlockSize \in Nat /\ x % BlockSize < BlockSize
         /\ BlockSize * (x \div BlockSize) \in Nat
         /\ x = BlockSize * (x \div BlockSize) + (x % BlockSize)
BY InitrdAssumption

(* A larger block number is at least one block further. *)
LEMMA Multiples ==
  ASSUME NEW u \in Nat, NEW v \in Nat, u < v
  PROVE  BlockSize * u + BlockSize <= BlockSize * v
<1>1. BlockSize \in Nat
  BY InitrdAssumption
<1>2. PICK d \in Nat : v = u + 1 + d
  <2>1. v - u - 1 \in Nat /\ v = u + 1 + (v - u - 1)
    OBVIOUS
  <2> QED BY <2>1
<1>3. BlockSize * d \in Nat /\ BlockSize * u \in Nat
  BY <1>1
<1>4. BlockSize * v = BlockSize * u + BlockSize + BlockSize * d
  BY <1>1, <1>2
<1> QED BY <1>1, <1>3, <1>4

(* It is made of no others. *)
LEMMA PartsUnique ==
  ASSUME NEW q \in Nat, NEW r \in Nat, r < BlockSize
  PROVE  (BlockSize * q + r) \div BlockSize = q /\ (BlockSize * q + r) % BlockSize = r
<1> DEFINE a == BlockSize * q + r
           q2 == a \div BlockSize
           r2 == a % BlockSize
<1>1. BlockSize * q \in Nat /\ a \in Nat /\ BlockSize \in Nat \ {0}
  BY InitrdAssumption
<1>2. /\ q2 \in Nat /\ r2 \in Nat /\ r2 < BlockSize /\ BlockSize * q2 \in Nat
      /\ a = BlockSize * q2 + r2
  BY <1>1, Parts, Zenon
<1>3. a = BlockSize * q + r
  OBVIOUS
<1> HIDE DEF a, q2, r2
<1>5. ~(q < q2)
  <2> SUFFICES ASSUME q < q2 PROVE FALSE
    OBVIOUS
  <2>1. BlockSize * q + BlockSize <= BlockSize * q2
    BY <1>2, Multiples
  <2> QED BY <1>1, <1>2, <1>3, <2>1
<1>6. ~(q2 < q)
  <2> SUFFICES ASSUME q2 < q PROVE FALSE
    OBVIOUS
  <2>1. BlockSize * q2 + BlockSize <= BlockSize * q
    BY <1>2, Multiples
  <2> QED BY <1>1, <1>2, <1>3, <2>1
<1>7. q2 = q
  BY <1>2, <1>5, <1>6
<1>8. r2 = r
  BY <1>1, <1>2, <1>3, <1>7
<1> QED BY <1>7, <1>8 DEF a, q2, r2

(* Bytes of one block lie side by side. *)
LEMMA OneBlock ==
  ASSUME NEW x \in Nat, NEW s \in Nat \ {0},
         x \div BlockSize = (x + s - 1) \div BlockSize
  PROVE  /\ s <= BlockSize - (x % BlockSize)
         /\ \A p \in 0..(s - 1) : /\ (x + p) \div BlockSize = x \div BlockSize
                                  /\ (x + p) % BlockSize = (x % BlockSize) + p
<1> DEFINE q == x \div BlockSize
           r == x % BlockSize
           c == BlockSize * q
           r2 == (x + s - 1) % BlockSize
<1>1. q \in Nat /\ r \in Nat /\ r < BlockSize /\ c \in Nat /\ x = c + r
  BY Parts, Zenon
<1>2. r2 \in Nat /\ r2 < BlockSize /\ x + s - 1 = c + r2
  <2>1. x + s - 1 \in Nat
    OBVIOUS
  <2>2. /\ r2 \in Nat /\ r2 < BlockSize
        /\ x + s - 1 = BlockSize * ((x + s - 1) \div BlockSize) + r2
    BY <2>1, Parts, Zenon
  <2> QED BY <2>2, Zenon
<1> HIDE DEF q, r, c, r2
<1>3. r + s - 1 = r2
  BY <1>1, <1>2
<1>4. s <= BlockSize - r
  BY <1>1, <1>2, <1>3, InitrdAssumption
<1>5. ASSUME NEW p \in 0..(s - 1)
      PROVE  (x + p) \div BlockSize = q /\ (x + p) % BlockSize = r + p
  <2>1. r + p \in Nat /\ r + p < BlockSize /\ x + p = c + (r + p)
    BY <1>1, <1>4, InitrdAssumption
  <2>2. x + p = BlockSize * q + (r + p)
    BY <2>1 DEF c
  <2> QED BY <1>1, <2>1, <2>2, PartsUnique
<1> QED BY <1>4, <1>5 DEF q, r

(* The largest read fits into the positions of a buffer. *)
LEMMA PositionsOf ==
  ASSUME NEW size \in ReadSizes
  PROVE  \A p \in 0..(size - 1) : p \in Positions
<1> DEFINE most == CHOOSE n \in ReadSizes : \A m \in ReadSizes : m <= n
<1>1. most \in ReadSizes /\ \A m \in ReadSizes : m <= most
  BY InitrdAssumption
<1> HIDE DEF most
<1>2. most \in Nat /\ size \in Nat /\ size <= most
  BY <1>1, InitrdAssumption
<1>3. \A p \in 0..(size - 1) : p \in 0..most
  BY <1>2
<1> QED BY <1>3 DEF Positions, most

(* A copy into the buffer of a read: not more bytes than it has left. *)
LEMMA Copy ==
  ASSUME Inv, pc = "read", NEW from, NEW n \in Int, n <= call.left,
         memcpy(from, n), call'.op = call.op, call'.size = call.size
  PROVE  /\ Kept'
         /\ \A p \in Positions : p < n => buffer'[p] = from + p
<1>1. buffer' = [p \in Positions |-> IF p < n THEN from + p ELSE buffer[p]]
  BY DEF memcpy
<1>2. call.op = "read" /\ call.size \in Nat /\ call.left \in 0..call.size
  BY DEF Inv, Reading, CallOK
<1>3. \A p \in Positions : p >= call.size => buffer[p] = Old
  BY <1>2 DEF Inv, Kept, BufferKept
<1>4. \A p \in Positions : p \in Int
  BY DEF Positions
<1>5. n <= call.size
  BY <1>2
<1>6. \A p \in Positions : p >= call.size => ~(p < n)
  BY <1>2, <1>4, <1>5
<1>7. \A p \in Positions : p >= call.size => buffer'[p] = Old
  BY <1>1, <1>3, <1>6
<1>8. DOMAIN buffer' = Positions
  BY <1>1
<1>9. Kept'
  BY <1>2, <1>7, <1>8 DEF Kept, BufferKept
<1>10. \A p \in Positions : p < n => buffer'[p] = from + p
  BY <1>1
<1> QED BY <1>9, <1>10

(* A byte of a file lies in one of its blocks. *)
LEMMA BlockOfByte ==
  ASSUME NEW n \in DOMAIN Stat, NEW x \in Nat, x < Stat[n].size
  PROVE  x \div BlockSize \in 0..(Len(Layout[n]) - 1)
<1> DEFINE q == x \div BlockSize
           last == Len(Layout[n])
<1>1. HasBlocks(n) /\ HasStat(n)
  BY ImageAssumption
<1>2. last \in Nat /\ Stat[n].size \in Nat /\ Stat[n].size <= BlockSize * last
  BY <1>1 DEF HasBlocks, HasStat
<1>3. q \in Nat /\ x % BlockSize \in Nat /\ BlockSize * q \in Nat
      /\ x = BlockSize * q + (x % BlockSize)
  BY Parts, Zenon
<1>4. BlockSize * last \in Nat /\ BlockSize \in Nat \ {0}
  BY <1>2, InitrdAssumption
<1> HIDE DEF q, last
<1>5. BlockSize * q < BlockSize * last
  BY <1>2, <1>3, <1>4
<1>6. q # last
  BY <1>3, <1>4, <1>5
<1>7. ~(last < q)
  <2> SUFFICES ASSUME last < q PROVE FALSE
    OBVIOUS
  <2>1. BlockSize * last + BlockSize <= BlockSize * q
    BY <1>2, <1>3, Multiples
  <2> QED BY <1>3, <1>4, <1>5, <2>1
<1> QED BY <1>2, <1>3, <1>6, <1>7 DEF q, last

(* What the copy of a read inside one block leaves in the buffer. *)
LEMMA ReadDelivers ==
  ASSUME Inv, ReadLast, call.size > 0,
         call.index + call.size <= Stat[call.node.inode].size,
         call.index \div BlockSize = (call.index + call.size - 1) \div BlockSize
  PROVE  \A p \in 0..(call.size - 1) :
            buffer'[p] = ByteOf(call.node.inode, call.index + p)
<1> DEFINE n == call.node.inode
           x == call.index
           size == call.size
<1>1. pc = "read" /\ memcpy(BlockAt, call.left) /\ call' = call
  BY DEF ReadLast
<1>2. call.op = "read"
  BY <1>1 DEF Inv, Reading
<1>3. /\ x \in Nat /\ size \in Nat \ {0} /\ size \in ReadSizes /\ IsNode(call.node)
      /\ call.left \in 0..size
  BY <1>2 DEF Inv, CallOK
<1>4. n \in DOMAIN Stat
  BY <1>3 DEF IsNode
<1>5. /\ size <= BlockSize - (x % BlockSize)
      /\ \A p \in 0..(size - 1) : /\ (x + p) \div BlockSize = x \div BlockSize
                                  /\ (x + p) % BlockSize = (x % BlockSize) + p
  BY <1>3, OneBlock, Zenon
<1>6. call.left = size /\ call.block = x \div BlockSize /\ call.offset = x % BlockSize
  <2>1. x % BlockSize \in Nat
    BY <1>3, Parts, Zenon
  <2>2. ~(size > BlockSize - (x % BlockSize))
    BY <1>3, <1>5, <2>1, InitrdAssumption
  <2> QED BY <1>1, <2>2 DEF Inv, Reading
<1>7. x \div BlockSize \in 0..(Len(Layout[n]) - 1)
  <2>1. Stat[n].size \in Nat
    BY <1>4, NodeInode
  <2>2. x < Stat[n].size
    BY <1>3, <2>1
  <2> QED BY <1>3, <1>4, <2>2, BlockOfByte
<1>8. InodeOf(call.node) = Image[InodeAt(n)]
  BY <1>4, NodeInode
<1>9. /\ ext2_inodeblock_get(call.block, InodeOf(call.node))
           = addr + BlockSize * Layout[n][x \div BlockSize + 1]
      /\ addr + BlockSize * Layout[n][x \div BlockSize + 1] \in Nat
  <2>1. /\ ext2_inodeblock_get(x \div BlockSize, Image[InodeAt(n)])
             = addr + BlockSize * Layout[n][x \div BlockSize + 1]
        /\ ext2_inodeblock_get(x \div BlockSize, Image[InodeAt(n)]) \in Nat \ {0}
    BY <1>4, <1>7, InodeBlockGet, Zenon
  <2> QED BY <1>6, <1>8, <2>1
<1> DEFINE base == addr + BlockSize * Layout[n][x \div BlockSize + 1]
<1>10. BlockAt = base + (x % BlockSize) /\ base \in Nat
  BY <1>6, <1>9 DEF BlockAt
<1>11. \A p \in Positions : p < call.left => buffer'[p] = BlockAt + p
  <2>1. call.left \in Int /\ call.left <= call.left
    BY <1>3
  <2> QED BY <1>1, <2>1, Copy
<1> SUFFICES ASSUME NEW p \in 0..(size - 1)
             PROVE  buffer'[p] = ByteOf(n, x + p)
  OBVIOUS
<1>12. p \in Positions /\ p \in Nat /\ p < call.left
  BY <1>3, <1>6, PositionsOf
<1>13. buffer'[p] = base + (x % BlockSize) + p
  BY <1>10, <1>11, <1>12
<1>14. ByteOf(n, x + p) = base + ((x % BlockSize) + p)
  BY <1>5, Zenon DEF ByteOf
<1>15. x % BlockSize \in Nat
  BY <1>3, Parts, Zenon
<1> HIDE DEF base, x
<1> QED BY <1>10, <1>12, <1>13, <1>14, <1>15

(* The last copy of a read, and its return. *)
LEMMA ReadLastStep ==
  ASSUME Inv, ReadLast
  PROVE  Inv'
<1>1. /\ pc = "read" /\ pc' = "idle" /\ root' = root /\ file' = file /\ call' = call
      /\ memcpy(BlockAt, call.left) /\ ret' = SizeRet(call.size)
  BY DEF ReadLast, Return
<1>2. call.op = "read"
  BY <1>1 DEF Inv, Reading
<1>3. CallOK'
  BY <1>1 DEF Inv, CallOK
<1>4. RootOK' /\ FileOK'
  BY <1>1, SameNodes DEF Booting
<1>5. Kept'
  <2>1. call.left \in Int /\ call.left <= call.left
    BY DEF Inv, CallOK
  <2> QED BY <1>1, <2>1, Copy
<1>6. Finding' /\ CountingInv' /\ Reading'
  BY <1>1 DEF Finding, CountingInv, Reading
<1>7. ret'.kind = "size"
  BY <1>1 DEF SizeRet, NullRet
<1>8. FoundEntry' /\ NeverMissed' /\ ListedRight'
  BY <1>1, <1>2 DEF FoundEntry, NeverMissed, ListedRight
<1>9. BytesRight'
  <2> SUFFICES ASSUME call.size > 0,
                      call.index + call.size <= Stat[call.node.inode].size,
                      call.index \div BlockSize = (call.index + call.size - 1) \div BlockSize
               PROVE  \A p \in 0..(call.size - 1) :
                        buffer'[p] = ByteOf(call.node.inode, call.index + p)
    BY <1>1 DEF BytesRight, ReadReturned, Delivered
  <2> QED BY ReadDelivers
<1> QED BY <1>1, <1>3, <1>4, <1>5, <1>6, <1>7, <1>8, <1>9 DEF Inv

(* A copy of the rest of a block, after which more is left. *)
LEMMA ReadBlockStep ==
  ASSUME Inv, ReadBlock
  PROVE  Inv'
<1>1. /\ pc = "read" /\ pc' = pc /\ root' = root /\ file' = file /\ ret' = ret
      /\ call.left > InBlock /\ memcpy(BlockAt, InBlock)
      /\ call' = [call EXCEPT !.block = @ + 1, !.left = @ - InBlock, !.offset = 0]
  BY DEF ReadBlock
<1>2. call.op = "read" /\ call.node.reads /\ call.offset < BlockSize
  BY <1>1 DEF Inv, Reading
<1>3. /\ Shaped(call) /\ call.offset \in Nat /\ call.block \in Nat /\ call.index \in Nat
      /\ call.size \in Nat /\ call.left \in 0..call.size /\ call.size \in ReadSizes
      /\ IsNode(call.node) /\ call.i \in Nat
  BY <1>2 DEF Inv, CallOK
<1>4. InBlock \in Nat \ {0} /\ InBlock = BlockSize - call.offset
  BY <1>2, <1>3, InitrdAssumption DEF InBlock
<1>5. /\ call'.op = call.op /\ call'.node = call.node /\ call'.name = call.name
      /\ call'.i = call.i /\ call'.index = call.index /\ call'.size = call.size
      /\ call'.block = call.block + 1 /\ call'.offset = 0
      /\ call'.left = call.left - InBlock /\ Shaped(call')
  BY <1>1, <1>3 DEF Shaped
<1>6. call'.left \in 0..call'.size
  BY <1>1, <1>3, <1>4, <1>5
<1>7. CallOK'
  BY <1>2, <1>3, <1>5, <1>6 DEF CallOK
<1>8. RootOK' /\ FileOK'
  BY <1>1, SameNodes DEF Booting
<1>9. Kept'
  <2>1. InBlock \in Int /\ InBlock <= call.left
    BY <1>1, <1>3, <1>4
  <2> QED BY <1>1, <1>5, <2>1, Copy
<1>10. Finding' /\ CountingInv'
  BY <1>1 DEF Finding, CountingInv
<1>11. Reading'
  <2>1. call.size > BlockSize - (call.index % BlockSize)
    <3>1. CASE call.left = call.size /\ call.offset = call.index % BlockSize
      BY <1>1, <1>4, <3>1
    <3> QED BY <1>1, <3>1 DEF Inv, Reading
  <2> QED BY <1>2, <1>5, <2>1, InitrdAssumption DEF Reading
<1>12. BytesRight' /\ FoundEntry' /\ NeverMissed' /\ ListedRight'
  BY <1>1, NotReturned
<1>13. pc' = "read" /\ ret'.kind \in {"null", "file", "entry", "junk", "size"}
  BY <1>1 DEF Inv
<1> QED BY <1>7, <1>8, <1>9, <1>10, <1>11, <1>12, <1>13 DEF Inv

-----------------------------------------------------------------------------
(* The theorems.                                                           *)

(* Every step keeps the invariant. *)
LEMMA NextStep == Inv /\ [Next]_vars => Inv'
<1> SUFFICES ASSUME Inv, [Next]_vars PROVE Inv'
  OBVIOUS
<1>1. CASE ext2_error
  BY <1>1, ErrorStep
<1>2. CASE initrd_initialize
  BY <1>2, InitializeStep
<1>3. ASSUME NEW node \in Nodes, NEW name \in Names, vfs_finddir(node, name) PROVE Inv'
  BY <1>3, FindDirStep
<1>4. ASSUME NEW node \in Nodes, NEW index \in Indices, vfs_readdir(node, index) PROVE Inv'
  BY <1>4, ReadDirStep
<1>5. ASSUME NEW node \in Nodes, NEW offset \in Offsets, NEW size \in ReadSizes,
             vfs_read(node, offset, size)
      PROVE  Inv'
  BY <1>5, ReadStep
<1>6. CASE vfs_write
  BY <1>6, WriteStep
<1>7. CASE FindEnd \/ FindNext \/ FindMatch
  BY <1>7, FindEndStep, FindNextStep, FindMatchStep
<1>8. CASE CountBlock \/ CountEntry \/ CountDone
  BY <1>8, CountBlockStep, CountEntryStep, CountDoneStep
<1>9. CASE ReadLast \/ ReadBlock
  BY <1>9, ReadLastStep, ReadBlockStep
<1>10. CASE UNCHANGED vars
  <2>1. /\ pc' = pc /\ root' = root /\ file' = file /\ call' = call /\ ret' = ret
        /\ buffer' = buffer
    BY <1>10 DEF vars
  <2>2. RootOK' /\ FileOK' /\ CallOK'
    BY <2>1 DEF Inv, RootOK, FileOK, CallOK, Booting
  <2>3. Finding' /\ CountingInv' /\ Reading' /\ Kept'
    BY <2>1 DEF Inv, Finding, FindingAt, CountingInv, Reading, Kept, BufferKept
  <2>4. BytesRight' /\ FoundEntry' /\ NeverMissed' /\ ListedRight'
    BY <2>1 DEF Inv, BytesRight, ReadReturned, Delivered, FoundEntry, NeverMissed, ListedRight
  <2> QED BY <2>1, <2>2, <2>3, <2>4 DEF Inv
<1> QED BY <1>1, <1>2, <1>3, <1>4, <1>5, <1>6, <1>7, <1>8, <1>9, <1>10
        DEF Next, Boot, Call, Loop

(* The invariant holds in every state. *)
THEOREM Invariance == Spec => []Inv
BY InvInit, NextStep, PTL DEF Spec

(* vfs_read of bytes inside one block delivers these bytes, and no read writes
   behind the caller's buffer, for every image, offset and size. *)
THEOREM ReadsRight == Spec => []ReadRight
<1>1. Inv => ReadRight
  BY DEF Inv, Kept, ReadRight
<1> QED BY <1>1, Invariance, PTL

(* vfs_finddir returns the first entry whose name is as long as the one asked
   for, with inode number and size of that file, and its type up to the bits a
   fresh node held; it misses no name shorter than the limit, and takes only
   directories for directories. *)
THEOREM LooksUpRight == Spec => []LookupRight
<1>1. Inv => TypeOK
  <2> SUFFICES ASSUME Inv PROVE TypeOK
    OBVIOUS
  <2>1. root.inode \in {0, EXT2_INODE_ROOT} /\ ~root.reads
    BY DEF Inv, RootOK
  <2>2. file = NoNode \/ (file.inode \in DOMAIN Stat /\ file.reads)
    BY DEF Inv, FileOK, IsNode
  <2>3. /\ call.op \in {"none", "finddir", "readdir", "read", "write"}
        /\ call.left \in 0..call.size /\ call.offset \in Nat /\ call.index \in Nat
    BY DEF Inv, CallOK
  <2> QED BY <2>1, <2>2, <2>3 DEF Inv, Kept, TypeOK
<1>2. Inv => OnlyDirectories
  <2> SUFFICES ASSUME Inv, pc \in {"find", "count"}
               PROVE  Stat[call.node.inode].type = FS_DIRECTORY
    BY DEF OnlyDirectories
  <2>1. IsDirectory(call.node) /\ call.op \in {"finddir", "readdir"}
    BY DEF Inv, Finding, CountingInv
  <2>2. IsNode(call.node)
    BY <2>1 DEF Inv, CallOK
  <2> QED BY <2>1, <2>2, Directory
<1>3. Inv => FoundEntry /\ NeverMissed
  BY DEF Inv
<1>4. Inv => LookupRight
  BY <1>1, <1>2, <1>3 DEF LookupRight
<1> QED BY <1>4, Invariance, PTL

(* vfs_readdir returns the entry with its index for every entry of the first
   block of a directory, and no entry under another one's index. *)
THEOREM ListsRight == Spec => []ListedRight
<1>1. Inv => ListedRight
  BY DEF Inv
<1> QED BY <1>1, Invariance, PTL
=============================================================================
