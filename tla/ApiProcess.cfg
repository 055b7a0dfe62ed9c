SPECIFICATION FairSpec
CONSTANTS
  Slots = {1, 2}
  MaxRequests = 2
  NULL = NULL
INVARIANTS
  AnswersAreEarned
  CountersAgree
  StopIsOrderly
PROPERTY
  NothingHangs
CHECK_DEADLOCK FALSE
