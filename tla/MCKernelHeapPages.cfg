SPECIFICATION FairSpec
CONSTANTS
  StartPage = 4
  HeapSize = 10
  FrameCount = 12
  KernelPages = 6
  TablePages = 7
  AddrPages = 16
  RunLengths = {1, 2}
INVARIANTS
  PagesApart
