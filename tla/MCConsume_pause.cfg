SPECIFICATION Spec
CONSTANTS
  Topics = {t1}
  Partitions = {0, 1}
  LogLen = 2
  CommitNum = 2
  MaxCache = 2
  Unreadable <- NoUnreadable
  CommitMayFail = FALSE
  MaxRebalances = 1
  MaxCrashes = 0
PROPERTIES PausedMeansSilent
