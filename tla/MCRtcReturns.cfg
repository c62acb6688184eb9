SPECIFICATION FairSpec
CONSTANTS
  Starts <- Noon
  Modes <- Bcd24
  MaxTicks = 1
PROPERTIES
  Returns
