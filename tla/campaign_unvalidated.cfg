SPECIFICATION Spec
CONSTANTS
  Runs = 2
  MaxAttempts = 2
  MaxAlone = 1
INVARIANT ReportedIsValidated
CHECK_DEADLOCK FALSE
