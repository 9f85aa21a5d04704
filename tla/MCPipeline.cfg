SPECIFICATION FairPipeline
CONSTANTS
  m1 = m1
  m2 = m2
  m3 = m3
  m4 = m4
  p1 = p1
  p2 = p2
  Log <- FourMessages
  Sessions = {m1, m2, m3, m4}
  Workers = {w1, w2}
  IoThreads = {io1}
  Consumer = consumer
  NoSession = none
  MaxTask = 2
  MaxPushes = 1
  Partitions = {p1, p2}
  PartitionOf <- OnTwoPartitions
  NoPartition = none
  CommitNum = 2
  MaxCache = 1
  Burst = 1
  MaxPushers = 2
INVARIANTS CacheBounded FlowKeepsMoving
PROPERTIES EverythingCommitted
CHECK_DEADLOCK FALSE
