SPECIFICATION MainSpec
CONSTANTS
  N = 2
  Heads <- MCHeads
  Endings <- MCEndings
  Flags <- MCFlags
  MaxWrites = 2
  Engines <- MCEngines
VIEW MCView
INVARIANTS
  DetectTypeOK
  ChosenIsBest
  PickerKeepsItsWord
  HeldIsUndone
  SessionIsUsable
PROPERTIES
  NoSessionAfterCancel
  ImplementsContract
\* Provision returns, or there is no dump: the machine stops there.
CHECK_DEADLOCK FALSE
