SPECIFICATION FairSpec
CONSTANTS
  Businesses = {b1, b2}
  Traces = {t1}
  Unmatched = {t1}
  Free = free
  Impatient <- AllButOneTrace
  MaxFaults = 0
  MaxRedeliveries = 0
CHECK_DEADLOCK FALSE
PROPERTIES PictureTriggersFlow
