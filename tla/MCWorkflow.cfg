SPECIFICATION FairSpec
CONSTANTS
  MaxUrls = 3
  MaxTopics = 2
  RetryTime = 2
INVARIANTS TypeOK NeverWithoutModule EveryPictureOnce FaceOfItsImage DataPresent SuccessMeansDone FailureHasCause PushesBounded
PROPERTIES SessionEnds
CHECK_DEADLOCK FALSE
