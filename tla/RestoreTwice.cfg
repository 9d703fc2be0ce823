\* Downloads of a file that the strategy decompresses before it is packed; nothing fails.
CONSTANTS
  Foci = {"restore"}
  Files = {f1}
  Clients = {c1, c2}
  NoClient = NoClient
  Gone = Gone
  Torn = Torn
  NoHash = NoHash
  Builds = {1, 2}
  FirstBuild = 1
  Preprocess = TRUE
  Size <- MCSize
  MaxEvents = 0
  Threads = {t1, t2}
  Limits = {10, 50}
  NoLimit = NoLimit
  None = None
  TTL = 1
  MaxRequest = 1
  Artifacts = {0, 1, 2}
  KeyRank <- MCKey
  BuildOf <- MCBuild
  TypeRank <- MCType
  Plain = {0}
  NoCommit = {1}
  Paths = {1, 2}
  NoPath = NoPath
  PageLimits = {1}
  RawCap = 3
  MaxMoves = 1
SPECIFICATION Spec
INVARIANTS RestoredAgain
\* With a file gone and the bounds spent, requests that change nothing are all that is left.
CHECK_DEADLOCK FALSE
