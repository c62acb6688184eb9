SPECIFICATION FairSpec
CONSTANTS
  HDR = 32
  PageSize = 4096
  PageCount = 1
  MINEXP = 8
  MAXEXP = 14
  MAXCOMPLETE = 1
  Sizes = {1100, 1200, 2800}
  MaxPages = 2
  MaxLive = 2
  Contexts = {main, irq}
INVARIANTS
  CopyInBounds
PROPERTIES
  Implements
  CallsReturn
