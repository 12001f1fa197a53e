SPECIFICATION Spec
CONSTANTS
  MaxRetries = 2
  DefaultPort = 1
  ScanSpan = 2
  PortFlags <- MCPortFlags
  HostPorts <- MCHostPorts
  Others <- MCOthers
  c1 = c1
  c2 = c2
INVARIANTS
  ErrorLeavesNoContainer
  FreesAtMostOne
  FreedPortIsTried
PROPERTIES
  ReturnsOrAsks
\* Start returns: the machine stops there.
CHECK_DEADLOCK FALSE
