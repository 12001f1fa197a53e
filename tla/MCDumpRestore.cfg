SPECIFICATION Spec
CONSTANTS
  Engines <- MCEngines
  Sizes <- MCSizes
  Room = 1
INVARIANTS
  DeliveredWhole
  NoWriterLeft
  MongoNeverSilent
PROPERTIES
  Returns
\* The engine returns: the machine stops there.
CHECK_DEADLOCK FALSE
