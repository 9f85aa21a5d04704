SPECIFICATION Spec
CONSTANTS
  Businesses = {b1, b2}
  Traces = {t1}
  Unmatched <- NoSessions
  Free = free
  Impatient <- Everybody
  MaxFaults = 1
  MaxRedeliveries = 0
CHECK_DEADLOCK FALSE
PROPERTIES WaitMeansCached
