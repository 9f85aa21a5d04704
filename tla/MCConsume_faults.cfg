SPECIFICATION Spec
CONSTANTS
  Topics = {t1, t2}
  Partitions = {0}
  LogLen = 2
  CommitNum = 2
  MaxCache = 2
  Unreadable <- SecondUnreadable
  CommitMayFail = TRUE
  MaxRebalances = 1
  MaxCrashes = 1
INVARIANTS NoLoss KmsgAlive
PROPERTIES AtLeastOnceSpec
