SPECIFICATION FairSpec
CONSTANTS
  StartPage = 3
  HeapSize = 7
  FrameCount = 11
  KernelPages = 5
  TablePages = 5
  AddrPages = 16
  RunLengths = {1, 2}
INVARIANTS
  HeapOK
  OwnFrames
PROPERTIES
  Returns
