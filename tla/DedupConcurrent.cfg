\* A background ingest and a backfill at the same time, the indexer
\* rolling back their shared connection, a failing step, and zstd on the base.
SPECIFICATION Spec
CONSTANTS
  a1 = a1
  a2 = a2
  a3 = a3
  b1 = b1
  ga = ga
  gb = gb
  runner = runner
  backfill = backfill
  NoFile = NoFile
  Files = {a1, a2, a3}
  Groups = {ga}
  Actors = {runner, backfill}
  Background = {runner}
  Group <- MCGroup
  Project <- MCProject
  Order <- MCOrder
  Oversized = {}
  Scope <- Whole
  Workers = 1
  CompressBase = TRUE
  Budget <- SharedRows
INVARIANTS OneOwner
PROPERTIES RemovalLeavesPatch PatchIsFinal
\* No ingest starts once the process is told to stop.
CHECK_DEADLOCK FALSE
