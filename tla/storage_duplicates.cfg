SPECIFICATION Spec
CONSTANTS
  ric = ric
  gnb = gnb
  M2 = M2
  M3 = M3
  Node = {ric, gnb}
  Sequence = {1, 2}
  Reported <- Modes
  Mode = {Unknown, M2, M3}
  Unknown = Unknown
  NoMode = NoMode
  Torn = Torn
  MaxLines = 2
INVARIANT SavedOnce
CHECK_DEADLOCK FALSE
