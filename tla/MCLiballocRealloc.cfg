SPECIFICATION FairSpec
CONSTANTS
  HDR = 32
  PageSize = 4096
  PageCount = 1
  MINEXP = 8
  MAXEXP = 14
  MAXCOMPLETE = 1
  Sizes = {100, 3000}
  MaxPages = 1
  MaxLive = 2
  Contexts = {main}
PROPERTIES
  FailedReallocKeepsBlock
