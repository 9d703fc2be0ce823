CONSTANTS
  Sizes <- OneGroup
  Workers = 2
  SerialAbove = 0
  Decompress = TRUE
  CompressBase = TRUE
  PeakFactor = 3
  DecompressFactor = 20
  MaxRss = 32
  MaxSwap = 2
  MinAvailable = 8
  MaxUsedPct = 65
  MemTotal = 128
  Loads <- QuietLoad
  ScanFiles = 1
  Hangs = FALSE
  SlowToDie = FALSE
  Nobody = Nobody
SPECIFICATION Spec
PROPERTIES PausesOnlyOverLimits
