\* One ingest at a time, nothing fails, and the process restarts once.
SPECIFICATION Spec
CONSTANTS
  a1 = a1
  a2 = a2
  a3 = a3
  b1 = b1
  ga = ga
  gb = gb
  runner = runner
  backfill = backfill
  NoFile = NoFile
  Files = {a1, a2, a3}
  Groups = {ga}
  Actors = {runner}
  Background = {runner}
  Group <- MCGroup
  Project <- MCProject
  Order <- MCOrder
  Oversized = {}
  Scope <- Whole
  Workers = 1
  CompressBase = FALSE
  Budget <- OneRestart
INVARIANTS QuietIsServable
\* No ingest starts once the process is told to stop.
CHECK_DEADLOCK FALSE
