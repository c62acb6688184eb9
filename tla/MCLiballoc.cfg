SPECIFICATION FairSpec
CONSTANTS
  HDR = 32
  PageSize = 4096
  PageCount = 1
  MINEXP = 8
  MAXEXP = 14
  MAXCOMPLETE = 1
  Sizes = {0, 1100, 1200, 3776, 4065}
  MaxPages = 3
  MaxLive = 4
  Contexts = {main}
INVARIANTS
  IInv
  FreeReachable
  CompleteExact
  ReleaseExact
  LiveApart
PROPERTIES
  LockReleased
