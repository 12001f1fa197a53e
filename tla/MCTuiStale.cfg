SPECIFICATION Spec
CONSTANTS
  Names <- MCNames
  Letters <- MCLetters
  Heights <- MCHeights
  Widths <- MCWidths
  TableWidth <- MCTableWidth
  Arrow = 100
  MaxFilter = 1
  MaxInFlight = 2
INVARIANT SettledShowsSelected
CHECK_DEADLOCK FALSE
