SPECIFICATION FairSpec
CONSTANTS
  Businesses = {b1, b2}
  Traces = {t1, t2}
  Unmatched <- NoSessions
  Free = free
  Impatient <- AllButOneTrace
  MaxFaults = 2
  MaxRedeliveries = 1
CHECK_DEADLOCK FALSE
INVARIANTS TypeOK LockExcludes TakenOnce OneWay
PROPERTIES PictureTriggersFlow ParkingSpec
