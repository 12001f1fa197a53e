SPECIFICATION Spec
CONSTANT SigBuffer <- MCSigBuffer
INVARIANTS
  SignalHasOneOwner
  NothingLeftBehind
PROPERTIES
  KeepIsHonoured
  InterruptIsReported
  SignalEndsOrPromptStays
\* The process ends: the machine stops there.
CHECK_DEADLOCK FALSE
