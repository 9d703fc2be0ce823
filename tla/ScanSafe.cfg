\* The loop and a rescan on the main thread, and a file that is there from the start or comes later; one
\* failure or a signal.
SPECIFICATION FairSpec
CONSTANTS
  old = old
  new = new
  Loop = Loop
  other = other
  Nobody = Nobody
  t1 = t1
  t2 = t2
  Files = {new}
  Anon = {}
  Others = {other}
  MainThread = {other}
  Threads = {t1, t2}
  Budget <- Upset
INVARIANTS TypeOK ReadyMeansScanned QuietIsIdle
PROPERTIES ScansTakeTurns IngestsTakeTurns FilesAreIndexed
\* The process ends once it is told to stop.
CHECK_DEADLOCK FALSE
