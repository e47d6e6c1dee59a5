SPECIFICATION Spec
CONSTANTS
  Node = {ric}
  Accepted = {ric}
  Mode = {Unknown, M3}
  Unknown = Unknown
  NoMode = NoMode
  Torn = Torn
  BatchLimit = 2
  MaxEvents = 3
  MaxStale = 1
INVARIANTS TypeOK AckedIsReceived ReceivedIsPrefix StreamsInOrder NoGapReported
PROPERTIES SilentFlushLeavesOnlyRest AckedIsStable ImplementsQueue
CHECK_DEADLOCK FALSE
