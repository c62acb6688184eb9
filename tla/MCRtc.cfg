SPECIFICATION FairSpec
CONSTANTS
  Starts <- Rollovers
  Modes <- AllModes
  MaxTicks = 3
INVARIANTS
  TypeOK
  Consistent
  ConversionRight
PROPERTIES
  ReturnsUnlessTick
