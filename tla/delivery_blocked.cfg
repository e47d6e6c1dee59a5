SPECIFICATION FairSpec
CONSTANTS
  Node = {ric}
  Accepted = {ric}
  Mode = {Unknown}
  Unknown = Unknown
  NoMode = NoMode
  Torn = Torn
  BatchLimit = 1
  MaxEvents = 2
  MaxStale = 0
PROPERTY PendingIsDelivered
CHECK_DEADLOCK FALSE
