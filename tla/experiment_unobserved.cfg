SPECIFICATION Spec
CONSTANTS
  Count = 1
  Treatment <- Baseline
  MaxAttempts = 2
INVARIANT PassedRunIsObserved
CHECK_DEADLOCK FALSE
