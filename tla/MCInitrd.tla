------------------------------ MODULE MCInitrd ------------------------------
(* An image of one block group with blocks of the size of the superblock's
   offset, as iso.sh makes it: block 2 holds the group descriptor, 5 and 6 the
   inodes, 8 the root directory, 9 and 10 a directory of two blocks, 12, 11 and
   14 a file whose third block is named by block 13.  Of the superblock the words
   that a block number 0 makes the code read are there. *)
EXTENDS Initrd, TLC

N(id, len) == [id |-> id, len |-> len]
MCNames == {N("usr", 3), N("lost", 4), N("manual_", 7), N("ab", 2), N("build", 5)}

Ent(inode, rec_len, name) == [inode |-> inode, rec_len |-> rec_len, name |-> name]
MCListing ==
  (2 :> << Ent(2, 12, N(".", 1)), Ent(2, 12, N("..", 2)), Ent(3, 12, N("lost", 4)),
           Ent(4, 12, N("usr", 3)), Ent(5, 16, N("lib", 3)) >>) @@
  (3 :> << Ent(3, 12, N(".", 1)), Ent(2, 12, N("..", 2)), Ent(7, 16, N("manual_", 7)),
           Ent(6, 24, N("dev", 3)), Ent(6, 64, N("build", 5)) >>)
MCStarts == (2 :> <<0, 12, 24, 36, 48, 64>>) @@ (3 :> <<0, 12, 24, 40, 64, 128>>)
MCLayout == (2 :> <<8>>) @@ (3 :> <<9, 10>>) @@ (4 :> <<12, 11, 14>>)
            @@ (5 :> <<15>>) @@ (6 :> <<>>) @@ (7 :> <<>>)
MCStat ==
  (2 :> [size |-> 64, type |-> FS_DIRECTORY]) @@ (3 :> [size |-> 128, type |-> FS_DIRECTORY]) @@
  (4 :> [size |-> 150, type |-> FS_FILE]) @@ (5 :> [size |-> 10, type |-> FS_SYMLINK]) @@
  (6 :> [size |-> 0, type |-> FS_BLOCKDEVICE]) @@ (7 :> [size |-> 0, type |-> FS_PIPE])

Bits == (2 :> {14, 8}) @@ (3 :> {14, 8}) @@ (4 :> {15, 8}) @@ (5 :> {15, 13, 8})
        @@ (6 :> {14, 13, 8}) @@ (7 :> {12, 8})

MCGarbage == {{}, {1}, {0, 2}}

At(block, offset) == 64 + 64 * block + offset

(* An inode: its type, its size, two block numbers and the indirect block. *)
Direct(n) == [b \in 0..2 |-> IF b = 2 THEN (IF Len(MCLayout[n]) > 2 THEN 13 ELSE 0)
                              ELSE IF b < Len(MCLayout[n]) THEN MCLayout[n][b + 1] ELSE 0]

Inode(n) == At(5, 16 * (n - 1)) :>
              [type |-> Bits[n], size |-> MCStat[n].size, block |-> Direct(n)]
Entry(a, n, k) == a :> MCListing[n][k]

MCImage ==
  (At(2, 0) :> [inode_table_addr |-> 5]) @@
  Inode(2) @@ Inode(3) @@ Inode(4) @@ Inode(5) @@ Inode(6) @@ Inode(7) @@
  Entry(At(8, 0), 2, 1) @@ Entry(At(8, 12), 2, 2) @@ Entry(At(8, 24), 2, 3) @@
  Entry(At(8, 36), 2, 4) @@ Entry(At(8, 48), 2, 5) @@
  Entry(At(9, 0), 3, 1) @@ Entry(At(9, 12), 3, 2) @@ Entry(At(9, 24), 3, 3) @@
  Entry(At(9, 40), 3, 4) @@ Entry(At(10, 0), 3, 5) @@
  [a \in {At(1, 4 * k) : k \in 0..15} |->
     IF a = At(1, 0) THEN 8 ELSE IF a = At(1, 4) THEN 16 ELSE 0] @@
  [a \in {At(13, 4 * k) : k \in 0..15} |-> IF a = At(13, 0) THEN 14 ELSE 0]
=============================================================================
