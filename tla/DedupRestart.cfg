\* One ingest at a time; steps fail, the indexer commits now and then, and the process
\* restarts between any two steps.
SPECIFICATION Spec
CONSTANTS
  a1 = a1
  a2 = a2
  a3 = a3
  b1 = b1
  ga = ga
  gb = gb
  runner = runner
  backfill = backfill
  NoFile = NoFile
  Files = {a1, a2, a3, b1}
  Groups = {ga, gb}
  Actors = {runner}
  Background = {runner}
  Group <- MCGroup
  Project <- MCProject
  Order <- MCOrder
  Oversized = {b1}
  Scope <- Whole
  Workers = 2
  CompressBase = FALSE
  Budget <- Restarts
INVARIANTS BaseStays NoContentLost
PROPERTIES CommittedStorage ServedUntilLost
\* No ingest starts once the process is told to stop.
CHECK_DEADLOCK FALSE
