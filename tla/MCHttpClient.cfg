SPECIFICATION FairSpec
CONSTANTS
  Requests = {r1, r2}
  Connections = {c1, c2, c3}
  NoConnection = none
  Answers <- EveryAnswer
  Fresh = r1
  Retries <- RetriesLeft
  MaxChunks = 1
  MaxLate = 1
INVARIANTS ExclusiveConnection PoolBounded OwnAnswer SentAtMostTwice CallbackOnce
CHECK_DEADLOCK FALSE
PROPERTIES EndsUnlessMissed
