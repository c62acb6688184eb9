SPECIFICATION Spec
CONSTANTS
  EndKernels = {1140000, 1146880, 1150972}
  Uppers = {7168, 130048, 184320, 261120, 523264, 1047424, 1047900, 2096000}
  Images = {0, 524288, 4194304}
  MaxHeapPages = 48
INVARIANTS
  ImageKept
  HeapKept
  FramesApart
  MappingsRight
