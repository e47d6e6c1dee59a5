SPECIFICATION FairSpec
CONSTANTS
  Runs = 2
  MaxAttempts = 2
  MaxAlone = 1
PROPERTY CanBeResumed
CHECK_DEADLOCK FALSE
