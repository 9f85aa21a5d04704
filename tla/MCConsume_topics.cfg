SPECIFICATION Spec
CONSTANTS
  Topics = {t1, t2}
  Partitions = {0}
  LogLen = 1
  CommitNum = 1
  MaxCache = 2
  Unreadable <- NoUnreadable
  CommitMayFail = FALSE
  MaxRebalances = 0
  MaxCrashes = 0
INVARIANTS RemovedIsCommitted
