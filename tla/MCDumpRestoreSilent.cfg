SPECIFICATION Spec
CONSTANTS
  Engines <- MCRelational
  Sizes <- MCSizes
  Room = 1
INVARIANT FailureIsReported
CHECK_DEADLOCK FALSE
