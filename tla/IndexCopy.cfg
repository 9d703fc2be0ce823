\* A scan comes across the copy dedup works on; nothing fails.
SPECIFICATION FairSpec
CONSTANTS
  a = a
  work = work
  s = s
  prog = prog
  next = next
  anon = anon
  i = i
  j = j
  Elf = {a, work}
  Work = work
  Src = {s}
  Builds = {prog}
  Ids = {i, j}
  NoId = NoId
  IdOf <- IdsOf
  SrcOf <- OneSource
  Times = {1, 2}
  SrcTimes = {1}
  Gone = Gone
  None = None
  Workers = 2
  BatchSize = 2
  Budget <- OnlyPack
INVARIANTS DeltaIsReachable
CHECK_DEADLOCK FALSE
