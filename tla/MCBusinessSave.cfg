SPECIFICATION Spec
CONSTANTS
  Sessions = {s1, s2, s3}
  MongoMayFail = TRUE
  MaxRedeliveries = 1
SYMMETRY Symmetry
INVARIANTS TypeOK OneDocument
PROPERTIES BigStays NormalStays
CHECK_DEADLOCK FALSE
