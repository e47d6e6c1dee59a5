SPECIFICATION FairSpec
CONSTANTS
  Count = 2
  Treatment <- Tested
  MaxAttempts = 2
INVARIANTS TypeOK DurationsAreOfThisAttempt OneAttemptInLab NothingIsLeftBehind EchoesInOrder TrafficIsComplete
PROPERTY RunEnds
CHECK_DEADLOCK FALSE
