SPECIFICATION Spec
CONSTANTS
  Sessions = {s1, s2, s3, s4, s5}
  Workers = {w1, w2}
  IoThreads = {io1, io2}
  Consumer = consumer
  NoSession = none
  MaxTask = 2
  MaxPushes = 1
SYMMETRY Symmetry
INVARIANTS ExclusiveSession NoneForgotten NoLostWakeup NoStandstill
CHECK_DEADLOCK FALSE
