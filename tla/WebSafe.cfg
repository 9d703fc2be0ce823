\* Two downloads of one file beside an ingest; two threads that fill a cache; three rows
\* of the index of which one moves.
CONSTANTS
  Foci = {"restore", "cache", "pages"}
  Files = {f1}
  Clients = {c1, c2}
  NoClient = NoClient
  Gone = Gone
  Torn = Torn
  NoHash = NoHash
  Builds = {1, 2}
  FirstBuild = 1
  Preprocess = FALSE
  Size <- MCSize
  MaxEvents = 2
  Threads = {t1, t2}
  Limits = {10, 50}
  NoLimit = NoLimit
  None = None
  TTL = 1
  MaxRequest = 1
  Artifacts = {0, 1, 2}
  KeyRank <- MCKey
  BuildOf <- MCBuild
  TypeRank <- MCType
  Plain = {0}
  NoCommit = {1}
  Paths = {1, 2}
  NoPath = NoPath
  PageLimits = {1}
  RawCap = 2
  MaxMoves = 1
SPECIFICATION Spec
INVARIANTS WebTypeOK RestoredIsRecorded RestoredAgain QuietServedInTime
  WrongLimitNeedsOverlap BuildidPagesAll MissNeedsMove TreeShowsAll GroupsAreWhole
PROPERTIES HandedOutStays ScanIsShown
\* With a file gone and the bounds spent, requests that change nothing are all that is left.
CHECK_DEADLOCK FALSE
