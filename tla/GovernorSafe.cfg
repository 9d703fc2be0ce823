CONSTANTS
  Sizes <- MixedSizes
  Workers = 2
  SerialAbove = 0
  Decompress = TRUE
  CompressBase = FALSE
  PeakFactor = 3
  DecompressFactor = 20
  MaxRss = 32
  MaxSwap = 2
  MinAvailable = 8
  MaxUsedPct = 65
  MemTotal = 128
  Loads <- MixedLoads
  ScanFiles = 1
  Hangs = TRUE
  SlowToDie = TRUE
  Nobody = Nobody
SPECIFICATION Spec
INVARIANTS TypeOK BudgetsAccounted BudgetsFit
PROPERTIES  StopReturns JobsFinish ScanGoesOn
