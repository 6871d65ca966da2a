SPECIFICATION Spec
CONSTANTS
  MaxRuns = 1
  MaxLosses = 0
  MaxTurns = 0
INVARIANT ReconnectionIsReported
CHECK_DEADLOCK FALSE
