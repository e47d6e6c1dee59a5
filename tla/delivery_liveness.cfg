SPECIFICATION FairOpenSpec
CONSTANTS
  Node = {ric}
  Accepted = {ric}
  Mode = {Unknown, M3}
  Unknown = Unknown
  NoMode = NoMode
  Torn = Torn
  BatchLimit = 2
  MaxEvents = 3
  MaxStale = 0
PROPERTIES StopEndsProcess EventuallyDelivered GapsAreRepaired
CHECK_DEADLOCK FALSE
