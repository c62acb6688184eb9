------------------------------- MODULE Initrd -------------------------------
(***************************************************************************)
(* The initial RAM disk: an ext2 image that the boot loader left in memory *)
(* (kernel/fs/ext2.c), the file nodes that stand for its files             *)
(* (kernel/fs/initrd.c) and the calls through which the kernel uses them   *)
(* (kernel/fs/vfs.c).                                                      *)
(*                                                                         *)
(* The image is never written, but for inode_size, which                   *)
(* ext2_superblock_get sets.  `Image' maps the addresses at which the code *)
(* reads structures (a group descriptor, an inode, a directory entry, a    *)
(* block number) to what is there; a byte of a file is identified by its   *)
(* address.  Each turn of the three loops (finding a name, counting        *)
(* directory entries, copying blocks) is one step.                         *)
(***************************************************************************)
EXTENDS Integers, Sequences

CONSTANTS
  addr,                    \* where the image begins
  EXT2_SUPERBLOCK_OFFSET,
  EXT2_INODE_ROOT,
  EXT2_INODE_BLOCK_TOTAL,  \* block numbers that are in the inode itself
  BlockSize,               \* EXT2_BLOCKSIZE_GET(superblock)
  Word,                    \* sizeof(uint32_t)
  inode_size, inode_total, inode_per_group, block_total, block_per_group,
  Image,                   \* address -> structure
  Names,                   \* the names callers look up, with their lengths
  NameMax,                 \* length of file_t's name
  Garbage,                 \* what the flag of a fresh file_t may hold
  Offsets, ReadSizes,      \* the reads that are tried
  Indices,                 \* the indices vfs_readdir is called with
  UINT_RANGE,              \* bound: a block number wraps around here
  Layout,                  \* what was put into the image: inode -> its blocks
  Listing,                 \* directory -> its entries, in order
  Starts,                  \* directory -> the offsets of its entries, and its end
  Stat                     \* inode -> its size and its type

NULL == 0

(* The types of file_t's flag, as sets of the bits 0 to 2. *)
FS_FILE        == {0}
FS_DIRECTORY   == {1}
FS_CHARDEVICE  == {0, 1}
FS_BLOCKDEVICE == {2}
FS_PIPE        == {0, 2}
FS_SYMLINK     == {1, 2}

ASSUME InitrdAssumption ==
  /\ addr \in Nat \ {NULL} /\ BlockSize \in Nat \ {0} /\ Word \in Nat \ {0}
  /\ EXT2_SUPERBLOCK_OFFSET \in Nat /\ EXT2_INODE_BLOCK_TOTAL \in Nat
  /\ inode_size \in Nat \ {0} /\ inode_per_group \in Nat \ {0}
  /\ block_per_group \in Nat \ {0}
  /\ Garbage \subseteq SUBSET {0, 1, 2} /\ Indices \subseteq Nat
  /\ block_total \in Nat /\ inode_total \in Nat /\ NameMax \in Nat
  /\ UINT_RANGE \in Nat \ {0}
  /\ Offsets \subseteq Nat /\ ReadSizes \subseteq Nat
  /\ \E n \in ReadSizes : \A m \in ReadSizes : m <= n

VARIABLES
  pc,        \* how the image is marked, then "idle", or the loop a call is in
  root,      \* initrd_root
  file,      \* the node the last successful vfs_finddir returned
  call,      \* arguments and local variables of the current or last call
  ret,       \* what the last call returned
  buffer     \* a new buffer of the caller: position -> address of the byte

vars == <<pc, root, file, call, ret, buffer>>

superblock == addr + EXT2_SUPERBLOCK_OFFSET

-----------------------------------------------------------------------------
(* ext2.c: from an inode number or a block number to an address.           *)

ext2_bg_des_get(g) ==
  superblock - BlockSize + BlockSize * block_per_group * g + BlockSize * 2

(* Inode 0 wraps around to the largest number, whose group does not exist. *)
ext2_inode_get(n) ==
  LET g == (n - 1) \div inode_per_group IN
  IF n > inode_total \/ n = 0 \/ g > block_total \div block_per_group THEN NULL
  ELSE superblock
         + BlockSize * Image[ext2_bg_des_get(g)].inode_table_addr
         - EXT2_SUPERBLOCK_OFFSET + inode_size * ((n - 1) % inode_per_group)

ext2_block_get(block) ==
  IF block <= 0 THEN superblock
  ELSE superblock - EXT2_SUPERBLOCK_OFFSET + BlockSize * block

(* Mutant of ext2_inodeblock_get: the entries of the indirect block are counted
   from the beginning of the file. *)
ext2_inodeblock_get_uncounted(block, inode) ==
  IF block < EXT2_INODE_BLOCK_TOTAL
  THEN IF inode.block[block] = 0 THEN NULL ELSE ext2_block_get(inode.block[block])
  ELSE IF block < BlockSize \div Word
  THEN LET b == Image[ext2_block_get(inode.block[EXT2_INODE_BLOCK_TOTAL]) + Word * block]
       IN IF b = 0 THEN NULL ELSE ext2_block_get(b)
  ELSE NULL

(* The first block numbers are in the inode, the next ones in the block that
   its last entry names; 0 stands for a hole. *)
ext2_inodeblock_get(block, inode) ==
  IF block < EXT2_INODE_BLOCK_TOTAL
  THEN IF inode.block[block] = 0 THEN NULL ELSE ext2_block_get(inode.block[block])
  ELSE IF block < EXT2_INODE_BLOCK_TOTAL + BlockSize \div Word
  THEN LET b == Image[ext2_block_get(inode.block[EXT2_INODE_BLOCK_TOTAL])
                       + Word * (block - EXT2_INODE_BLOCK_TOTAL)]
       IN IF b = 0 THEN NULL ELSE ext2_block_get(b)
  ELSE NULL

(* The type field of an inode is the set of its bits; of the types whose bits
   are all set the first in the order of the tests is taken. *)
Kinds == << <<{15, 13}, FS_SYMLINK>>,      \* EXT2_IFLNK
            <<{15},     FS_FILE>>,         \* EXT2_IFREG
            <<{14, 13}, FS_BLOCKDEVICE>>,  \* EXT2_IFBLK
            <<{14},     FS_DIRECTORY>>,    \* EXT2_IFDIR
            <<{13},     FS_CHARDEVICE>>,   \* EXT2_IFCHR
            <<{12},     FS_PIPE>> >>       \* EXT2_IFIFO

ext2_inode_typetofile(inode) ==
  LET hits == {k \in DOMAIN Kinds : Kinds[k][1] \subseteq inode.type} IN
  IF hits = {} THEN {} ELSE Kinds[CHOOSE k \in hits : \A j \in hits : k <= j][2]

-----------------------------------------------------------------------------
(* The image, by the format of ext2 and as iso.sh has genext2fs make it: one
   block group, blocks as large as what is in front of the superblock, no holes,
   and no link so short that it is kept in its inode.                      *)

InodeAt(n) ==
  addr + BlockSize * Image[addr + 2 * BlockSize].inode_table_addr + inode_size * (n - 1)

(* The number of block b of inode n, as inode and indirect block have it. *)
BlockNumber(n, b) ==
  LET block == Image[InodeAt(n)].block IN
  IF b < EXT2_INODE_BLOCK_TOTAL THEN block[b]
  ELSE Image[addr + BlockSize * block[EXT2_INODE_BLOCK_TOTAL]
                  + Word * (b - EXT2_INODE_BLOCK_TOTAL)]

HasBlocks(n) ==
  /\ Layout[n] \in Seq(Nat \ {0})
  /\ Stat[n].size <= BlockSize * Len(Layout[n])
  /\ Len(Layout[n]) <= EXT2_INODE_BLOCK_TOTAL + BlockSize \div Word
  /\ Len(Layout[n]) > EXT2_INODE_BLOCK_TOTAL =>
       Image[InodeAt(n)].block[EXT2_INODE_BLOCK_TOTAL] \in Nat \ {0}
  /\ \A b \in 0..(Len(Layout[n]) - 1) : BlockNumber(n, b) = Layout[n][b + 1]

(* The four highest bits of the type field name the kind of the file. *)
HasStat(n) ==
  /\ Image[InodeAt(n)].size = Stat[n].size /\ Stat[n].size \in Nat
  /\ \E k \in DOMAIN Kinds :
       Kinds[k] = <<Image[InodeAt(n)].type \cap (12..15), Stat[n].type>>

(* The blocks of a directory follow one another and are full of entries. *)
HasEntries(n) ==
  LET last == Len(Listing[n]) IN
  /\ Stat[n].size >= BlockSize /\ last \in Nat /\ DOMAIN Listing[n] = 1..last
  /\ Starts[n][1] = 0 /\ Starts[n][last + 1] = Stat[n].size
  /\ \A k \in 1..last :
       /\ Starts[n][k] \in 0..(Stat[n].size - 1)
       /\ Starts[n][k + 1] = Starts[n][k] + Listing[n][k].rec_len
       /\ Image[addr + BlockSize * Layout[n][1] + Starts[n][k]] = Listing[n][k]
       /\ Listing[n][k].inode \in DOMAIN Stat
       /\ Listing[n][k].name.len \in Nat

ASSUME ImageAssumption ==
  /\ EXT2_SUPERBLOCK_OFFSET = BlockSize /\ inode_total <= inode_per_group
  /\ Image[addr + 2 * BlockSize].inode_table_addr \in Nat
  /\ EXT2_INODE_ROOT \in DOMAIN Stat /\ Stat[EXT2_INODE_ROOT].type = FS_DIRECTORY
  /\ DOMAIN Stat \subseteq 1..inode_total
  /\ \A n \in DOMAIN Stat : HasBlocks(n) /\ HasStat(n)
  /\ DOMAIN Listing = {n \in DOMAIN Stat : Stat[n].type = FS_DIRECTORY}
  /\ \A n \in DOMAIN Listing : HasEntries(n)

-----------------------------------------------------------------------------
(* Nodes, and the values calls return.                                     *)

InodeOf(node) == Image[ext2_inode_get(node.inode)]

(* Names are not terminated on the disk: where a name fills its record, strlen
   runs on into the inode number of the next entry. *)
RunsOn(a) ==
  LET ent == Image[a] IN
  /\ ent.name.len % Word = 0 /\ ent.rec_len = 2 * Word + ent.name.len
  /\ a + ent.rec_len \in DOMAIN Image /\ Image[a + ent.rec_len].inode # 0

strlen(a) == Image[a].name.len + (IF RunsOn(a) THEN 1 ELSE 0)

(* strcpy leaves the terminator out: the copy is the name only if the fresh
   node happens to hold zeros. *)
NoName == [id |-> "?", len |-> 0]
CopiedName(a, junk) ==
  IF RunsOn(a) \/ junk # {} THEN NoName ELSE Image[a].name

NoNode == [inode |-> 0, flag |-> {}, size |-> 0, name |-> NoName, reads |-> FALSE]

NullRet == [kind |-> "null", name |-> NoName, inode |-> 0, size |-> 0]
EntryRet(ent) == [kind |-> "entry", name |-> ent.name, inode |-> ent.inode, size |-> 0]
JunkRet == [NullRet EXCEPT !.kind = "junk"]
SizeRet(n) == [NullRet EXCEPT !.kind = "size", !.size = n]
FileRet == [NullRet EXCEPT !.kind = "file"]

Old == -1
Positions == 0..(CHOOSE n \in ReadSizes : \A m \in ReadSizes : m <= n)
Fresh == [p \in Positions |-> Old]

NoCall == [op |-> "none", node |-> NoNode, name |-> NoName, index |-> 0,
           i |-> 0, block |-> 0, offset |-> 0, size |-> 0, left |-> 0]

Init ==
  /\ pc \in {"clean", "ignore", "remount", "panic"}
  /\ root = NoNode /\ file = NoNode
  /\ call = NoCall /\ ret = NullRet /\ buffer = Fresh

(* The call returns r. *)
Return(r) == pc' = "idle" /\ ret' = r

-----------------------------------------------------------------------------
(* ext2_error: an image that is marked for a panic halts the processor, until
   the next interrupt. *)
ext2_error ==
  /\ pc = "panic"
  /\ pc' = "halted"
  /\ UNCHANGED <<root, file, call, ret, buffer>>

initrd_initialize ==
  /\ pc \in {"clean", "ignore", "remount", "halted"}
  /\ \E junk \in Garbage :
       LET inode == Image[ext2_inode_get(EXT2_INODE_ROOT)] IN
       root' = [inode |-> EXT2_INODE_ROOT, size |-> inode.size, name |-> [id |-> "/", len |-> 1],
                flag |-> junk \cup ext2_inode_typetofile(inode), reads |-> FALSE]
  /\ pc' = "idle"
  /\ UNCHANGED <<file, call, ret, buffer>>

-----------------------------------------------------------------------------
(* vfs_finddir and initrd_finddir: the entries of the first block, and of what
   follows it in memory up to the size of the directory.                   *)

IsDirectory(node) == node.flag \cap {0, 1, 2} = FS_DIRECTORY

vfs_finddir(node, name) ==
  /\ pc = "idle"
  /\ call' = [NoCall EXCEPT !.op = "finddir", !.node = node, !.name = name]
  /\ buffer' = Fresh
  /\ IF /\ IsDirectory(node)
        /\ 14 \in InodeOf(node).type
        /\ ext2_inodeblock_get(0, InodeOf(node)) # NULL
     THEN pc' = "find" /\ ret' = NullRet
     ELSE Return(NullRet)
  /\ UNCHANGED <<root, file>>

FindEntry == ext2_inodeblock_get(0, InodeOf(call.node)) + call.index

(* strcmp never tells two names apart: the lengths decide. *)
Matches(ent) == ent.name.len = call.name.len

(* Mutant of FindEnd: the search ends with the first block. *)
FindEnd_first_block ==
  /\ pc = "find" /\ call.index >= BlockSize
  /\ Return(NullRet)
  /\ UNCHANGED <<root, file, call, buffer>>

FindEnd ==
  /\ pc = "find" /\ call.index >= InodeOf(call.node).size
  /\ Return(NullRet)
  /\ UNCHANGED <<root, file, call, buffer>>

(* Mutant of FindNext: the length of the record is not added. *)
FindNext_stuck ==
  /\ pc = "find" /\ call.index < InodeOf(call.node).size
  /\ ~ Matches(Image[FindEntry])
  /\ UNCHANGED vars

FindNext ==
  /\ pc = "find" /\ call.index < InodeOf(call.node).size
  /\ ~ Matches(Image[FindEntry])
  /\ call' = [call EXCEPT !.index = @ + Image[FindEntry].rec_len]
  /\ UNCHANGED <<pc, root, file, ret, buffer>>

FindMatch ==
  /\ pc = "find" /\ call.index < InodeOf(call.node).size
  /\ Matches(Image[FindEntry])
  /\ \/ /\ strlen(FindEntry) > NameMax
        /\ Return(NullRet)
        /\ UNCHANGED file
     \/ /\ strlen(FindEntry) <= NameMax
        /\ \E junk \in Garbage :
             LET ent   == Image[FindEntry]
                 inode == Image[ext2_inode_get(ent.inode)] IN
             file' = [inode |-> ent.inode, size |-> inode.size,
                      name |-> CopiedName(FindEntry, junk), reads |-> TRUE,
                      flag |-> junk \cup ext2_inode_typetofile(inode)]
        /\ Return(FileRet)
  /\ UNCHANGED <<root, call, buffer>>

-----------------------------------------------------------------------------
(* vfs_readdir, initrd_readdir and ext2_direntry_get: pass over `index'
   entries.  At the end of a block the block number goes up and the offset
   stays.                                                                  *)

vfs_readdir(node, index) ==
  /\ pc = "idle"
  /\ call' = [NoCall EXCEPT !.op = "readdir", !.node = node, !.index = index]
  /\ buffer' = Fresh
  /\ IF IsDirectory(node) THEN pc' = "count" /\ ret' = NullRet ELSE Return(NullRet)
  /\ UNCHANGED <<root, file>>

(* Mutant of EntryAt: the offset is left out. *)
EntryAt_first == ext2_inodeblock_get(call.block, InodeOf(call.node))

EntryAt == ext2_inodeblock_get(call.block, InodeOf(call.node)) + call.offset

Counting == pc = "count" /\ call.i < call.index

CountBlock ==
  /\ Counting
  /\ call.offset > InodeOf(call.node).size \/ call.offset >= BlockSize
  /\ IF call.offset > InodeOf(call.node).size
     THEN Return(NullRet) /\ UNCHANGED call
     ELSE call' = [call EXCEPT !.block = (@ + 1) % UINT_RANGE] /\ UNCHANGED <<pc, ret>>
  /\ UNCHANGED <<root, file, buffer>>

CountEntry ==
  /\ Counting /\ call.offset <= InodeOf(call.node).size
  /\ call.offset < BlockSize
  /\ call' = [call EXCEPT !.offset = @ + Image[EntryAt].rec_len, !.i = @ + 1]
  /\ UNCHANGED <<pc, root, file, ret, buffer>>

(* Behind the last entry of a block is whatever follows the block. *)
CountDone ==
  /\ pc = "count" /\ call.i = call.index
  /\ Return(IF call.offset < BlockSize THEN EntryRet(Image[EntryAt]) ELSE JunkRet)
  /\ UNCHANGED <<root, file, call, buffer>>

-----------------------------------------------------------------------------
(* vfs_read, initrd_read and ext2_read.  Every block is copied to the
   beginning of the buffer.                                                *)

vfs_read(node, offset, size) ==
  /\ pc = "idle"
  /\ call' = [NoCall EXCEPT !.op = "read", !.node = node, !.index = offset, !.size = size,
                            !.block = offset \div BlockSize,
                            !.offset = offset % BlockSize, !.left = size]
  /\ buffer' = Fresh
  /\ IF node.reads THEN pc' = "read" /\ ret' = NullRet ELSE Return(NullRet)
  /\ UNCHANGED <<root, file>>

memcpy(from, n) ==
  buffer' = [p \in Positions |-> IF p < n THEN from + p ELSE buffer[p]]

BlockAt == ext2_inodeblock_get(call.block, InodeOf(call.node)) + call.offset
InBlock == BlockSize - call.offset

ReadLast ==
  /\ pc = "read" /\ call.left <= InBlock
  /\ memcpy(BlockAt, call.left)
  /\ Return(SizeRet(call.size))
  /\ UNCHANGED <<root, file, call>>

ReadBlock ==
  /\ pc = "read" /\ call.left > InBlock
  /\ memcpy(BlockAt, InBlock)
  /\ call' = [call EXCEPT !.block = @ + 1, !.left = @ - InBlock, !.offset = 0]
  /\ UNCHANGED <<pc, root, file, ret>>

(* vfs_write, vfs_open and vfs_close: no node of the image has the callback. *)
vfs_write ==
  /\ pc = "idle"
  /\ call' = [NoCall EXCEPT !.op = "write"] /\ ret' = NullRet /\ buffer' = Fresh
  /\ UNCHANGED <<pc, root, file>>
-----------------------------------------------------------------------------
Boot == ext2_error \/ initrd_initialize
Loop ==
  \/ FindEnd \/ FindNext \/ FindMatch
  \/ CountBlock \/ CountEntry \/ CountDone
  \/ ReadLast \/ ReadBlock

(* The nodes a caller may hold. *)
Nodes == {root} \cup (IF file = NoNode THEN {} ELSE {file})

Call ==
  \/ \E node \in Nodes :
       \/ \E name \in Names : vfs_finddir(node, name)
       \/ \E index \in Indices : vfs_readdir(node, index)
       \/ \E offset \in Offsets, size \in ReadSizes : vfs_read(node, offset, size)
  \/ vfs_write

Next == Boot \/ Call \/ Loop

(* The boot and a call that has begun go on: a call runs to its end, and an
   interrupt, the timer's at the latest, ends the halt. *)
Spec == Init /\ [][Next]_vars /\ WF_vars(Boot \/ Loop)

-----------------------------------------------------------------------------
(* Properties.                                                             *)

TypeOK ==
  /\ pc \in {"clean", "ignore", "remount", "panic", "halted", "idle", "find", "count", "read"}
  /\ root.inode \in {0, EXT2_INODE_ROOT} /\ ~root.reads
  /\ file = NoNode \/ (file.inode \in DOMAIN Stat /\ file.reads)
  /\ call.op \in {"none", "finddir", "readdir", "read", "write"}
  /\ call.left \in 0..call.size /\ call.offset \in Nat /\ call.index \in Nat
  /\ ret.kind \in {"null", "file", "entry", "junk", "size"}
  /\ DOMAIN buffer = Positions

(* Where byte p of file n lies. *)
ByteOf(n, p) == addr + BlockSize * Layout[n][p \div BlockSize + 1] + (p % BlockSize)

(* The last call was a read inside the file, and has returned. *)
ReadReturned ==
  /\ pc = "idle" /\ call.op = "read" /\ ret.kind = "size"
  /\ call.size > 0 /\ call.index + call.size <= Stat[call.node.inode].size

Delivered ==
  \A p \in 0..(call.size - 1) : buffer[p] = ByteOf(call.node.inode, call.index + p)

(* vfs_read of bytes that lie in one block of the file, a direct one or one
   the indirect block names, puts these bytes into the buffer.  (Of a longer
   read only the bytes of the last blocks are left, at the wrong places.) *)
BytesRight ==
  ReadReturned /\ call.index \div BlockSize = (call.index + call.size - 1) \div BlockSize
    => Delivered

(* vfs_read never writes behind the `size' bytes of the caller's buffer, also
   not when it copies several blocks. *)
BufferKept ==
  call.op = "read" => \A p \in Positions : p >= call.size => buffer[p] = Old

(* What vfs_read leaves in the caller's memory, also while it still copies. *)
ReadRight == BytesRight /\ BufferKept

(* The entries of a directory; nothing else has any. *)
EntriesOf(node) == IF node.inode \in DOMAIN Listing THEN Listing[node.inode] ELSE <<>>

(* A node that vfs_finddir returned stands for the first entry of the directory
   whose name is as long as the one looked up, whatever that name is: its inode
   number and size are those of that file, and its type is, but for the bits the
   fresh node held before. *)
FoundEntry ==
  pc = "idle" /\ call.op = "finddir" /\ ret.kind = "file" =>
    LET entries == EntriesOf(call.node) IN
    /\ \E k \in DOMAIN entries :
         /\ entries[k].name.len = call.name.len
         /\ \A j \in 1..(k - 1) : entries[j].name.len # call.name.len
         /\ entries[k].inode = file.inode
    /\ file.size = Stat[file.inode].size
    /\ \E junk \in Garbage : file.flag = junk \cup Stat[file.inode].type

(* vfs_finddir in a directory never misses a name that is there and shorter
   than the name of a node. *)
NeverMissed ==
  pc = "idle" /\ call.op = "finddir" /\ ret.kind = "null" /\ IsDirectory(call.node) =>
    \A k \in DOMAIN EntriesOf(call.node) :
       EntriesOf(call.node)[k].name = call.name => call.name.len >= NameMax

(* Only the blocks of a directory are ever taken for directory entries,
   whatever a fresh node held in its flag. *)
OnlyDirectories ==
  pc \in {"find", "count"} => Stat[call.node.inode].type = FS_DIRECTORY

(* vfs_finddir finds the names that are in a directory and no others, up to
   their lengths, and takes nothing but directories for directories. *)
LookupRight == TypeOK /\ FoundEntry /\ NeverMissed /\ OnlyDirectories

(* vfs_readdir returns the entry with this index, for every entry of the first
   block of a directory, and no entry under the index of another one. *)
ListedRight ==
  pc = "idle" /\ call.op = "readdir" /\ IsDirectory(call.node) =>
    LET entries == EntriesOf(call.node) IN
    \/ /\ ret.kind = "entry" /\ call.index + 1 \in DOMAIN entries
       /\ ret.name = entries[call.index + 1].name
       /\ ret.inode = entries[call.index + 1].inode
    \/ call.offset >= BlockSize

(* vfs_readdir has counted all entries of the first block and is to count more. *)
PastFirstBlock == Counting /\ call.offset >= BlockSize

(* The boot ends although the image may be marked for a panic, and every call
   returns: the walk along the entries and the copying come to an end.  The one
   exception is vfs_readdir with an index past the first block. *)
Returns == pc # "idle" ~> (pc = "idle" \/ PastFirstBlock)
=============================================================================
