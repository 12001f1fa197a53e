SPECIFICATION Spec
CONSTANTS
  Loops <- MCLoops
  Timeout <- MCTimeout
  Pause <- MCPause
  Nap <- MCNap
  ProbeTime <- MCProbeTime
INVARIANTS
  ReadyOutlivesPause
  TimeoutIsKept
  TimeoutIsFair
  DeathIsNoticed
PROPERTIES
  ImplementsReady
  Returns
\* WaitReady returns: the machine stops there.
CHECK_DEADLOCK FALSE
