SPECIFICATION FairSpec
CONSTANTS
  Lines = {0, 1, 7, 14, 15}
  Glitches = {0, 7, 14}
  Keys = {"plain", "heap", "malloc", "fault"}
  MaxSleep = 2
  MaxDepth = 5
  KeysInBoot = FALSE
INVARIANTS
  AllocExclusive
  ServiceExact
PROPERTIES
  FaultHalts
  SleepEnds
  KeysRead
