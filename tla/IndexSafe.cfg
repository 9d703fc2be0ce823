\* A file and the copy dedup makes of it; one fault of each kind.
SPECIFICATION FairSpec
CONSTANTS
  a = a
  work = work
  s = s
  prog = prog
  next = next
  anon = anon
  i = i
  j = j
  Elf = {a, work}
  Work = work
  Src = {s}
  Builds = {prog, next, anon}
  Ids = {i, j}
  NoId = NoId
  IdOf <- IdsOf
  SrcOf <- OneSource
  Times = {1, 2}
  SrcTimes = {1}
  Gone = Gone
  None = None
  Workers = 2
  BatchSize = 2
  Budget <- OneEach
INVARIANTS TypeOK SkipIsJustified MarkedSourceIsFound
PROPERTIES ChangesAreIndexed CommittedIndex
CHECK_DEADLOCK FALSE
