SPECIFICATION Spec
CONSTANTS
  Engines <- MCEngines
  OrderColumnTiers <- MCTiers
  mongoOrderFields <- MCMongoOrderFields
  Tables <- MCTables
  Cells <- MCCells
  Docs <- MCDocs
  MaxRows = 3
  RecentLimit = 2
  mongoFlattenDepth = 1
INVARIANTS
  DialectsAgree
  RecentIsNewest
  NothingLost
\* The rows are on the screen: nothing is left to do.
CHECK_DEADLOCK FALSE
