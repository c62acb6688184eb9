SPECIFICATION Spec
CONSTANTS
  addr = 64
  EXT2_SUPERBLOCK_OFFSET = 64
  EXT2_INODE_ROOT = 2
  EXT2_INODE_BLOCK_TOTAL = 2
  BlockSize = 64
  Word = 4
  inode_size = 16
  inode_total = 8
  inode_per_group = 8
  block_total = 16
  block_per_group = 32
  NameMax = 6
  UINT_RANGE = 4
  Garbage <- MCGarbage
  Offsets = {0, 5, 60, 64, 130}
  ReadSizes = {1, 20, 64, 80}
  Indices = {0, 1, 2, 3, 4, 5}
  Image <- MCImage
  Names <- MCNames
  Layout <- MCLayout
  Listing <- MCListing
  Starts <- MCStarts
  Stat <- MCStat
INVARIANTS
  ReadRight
  LookupRight
  ListedRight
PROPERTIES
  Returns
