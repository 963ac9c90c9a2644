CONSTANTS
  Procs = {p1, p2}
  Blocks = {b1, b2}
  Data = {d1, d2}
  MAXOPBLOCKS = 1
  LOGSIZE = 3
  NLOG = 3
  OpBlocks = 2
  None = None
SPECIFICATION FairSpec
INVARIANTS TypeOK CleanIsOnDisk CommitIsExclusive SleeperHasWaker
PROPERTIES CallsAreAtomic SleeperIsWoken CommitFinishes
