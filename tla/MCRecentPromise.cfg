SPECIFICATION Spec
CONSTANTS
  Engines <- MCEngines
  OrderColumnTiers <- MCTiers
  mongoOrderFields <- MCMongoOrderFields
  Tables <- MCTables
  Cells <- MCCells
  Docs <- MCDocs
  MaxRows = 3
  RecentLimit = 2
  mongoFlattenDepth = 1
INVARIANT PromiseOfRecent
CHECK_DEADLOCK FALSE
