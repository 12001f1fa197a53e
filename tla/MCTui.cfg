SPECIFICATION Spec
CONSTANTS
  Names <- MCNames
  Letters <- MCLetters
  Heights <- MCHeights
  Widths <- MCWidths
  TableWidth <- MCTableWidth
  Arrow = 100
  MaxFilter = 1
  MaxInFlight = 2
INVARIANTS
  TypeOK
  SelectionIsVisible
  TableIsOnScreen
  PatientSeesSelected
PROPERTIES
  SpinnerEnds
\* The operator quits: the machine stops there.
CHECK_DEADLOCK FALSE
