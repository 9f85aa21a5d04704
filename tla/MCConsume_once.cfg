SPECIFICATION FairSpec
CONSTANTS
  Topics = {t1}
  Partitions = {0, 1}
  LogLen = 3
  CommitNum = 2
  MaxCache = 3
  Unreadable <- OneReadable
  CommitMayFail = FALSE
  MaxRebalances = 0
  MaxCrashes = 1
INVARIANTS TypeOK RemovedIsCommitted
PROPERTIES CommitMonotone EventuallyCommitted PauseEnds
