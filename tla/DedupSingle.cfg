\* One ingest at a time and no zstd on the base; a tool is starved of memory once,
\* a step fails once, and the process may be told to stop.
SPECIFICATION FairSpec
CONSTANTS
  a1 = a1
  a2 = a2
  a3 = a3
  b1 = b1
  ga = ga
  gb = gb
  runner = runner
  backfill = backfill
  NoFile = NoFile
  Files = {a1, a2, a3, b1}
  Groups = {ga, gb}
  Actors = {runner}
  Background = {runner}
  Group <- MCGroup
  Project <- MCProject
  Order <- MCOrder
  Oversized = {}
  Scope <- Whole
  Workers = 1
  CompressBase = FALSE
  Budget <- Faults
INVARIANTS TypeOK DoneIsServable QuietIsServable
PROPERTIES PendingSettles
\* No ingest starts once the process is told to stop.
CHECK_DEADLOCK FALSE
