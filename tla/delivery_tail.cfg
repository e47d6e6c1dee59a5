SPECIFICATION Spec
CONSTANTS
  Node = {ric}
  Accepted = {ric}
  Mode = {Unknown, M3}
  Unknown = Unknown
  NoMode = NoMode
  Torn = Torn
  BatchLimit = 2
  MaxEvents = 2
  MaxStale = 1
INVARIANT IncompleteShowsGaps
CHECK_DEADLOCK FALSE
