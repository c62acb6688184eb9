SPECIFICATION FairSpec
CONSTANTS
  Drives = {0, 1, 4}
  Sectors <- Places
  Buffers <- Addresses
  Misses = {3}
  MaxTries = 10
INVARIANTS
  InStep
  RightSector
  MotorStops
PROPERTIES
  Returns
