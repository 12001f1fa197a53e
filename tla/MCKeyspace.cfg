SPECIFICATION Spec
CONSTANTS
  Keys <- MCKeys
  Volatile <- MCVolatile
  Separated <- MCSeparated
  GroupOf <- MCGroupOf
  Glob <- MCGlob
  ScanLimit <- MCScanLimit
  NoPrefix = "(sem separador)"
  GatherCap = 3
  RecentLimit = 2
  MaxBatch = 2
  MaxCalls = 2
  MaxTwice = 1
INVARIANTS
  TypeOK
  ExactIsBetween
  EstimateAddsUp
  HealthAddsUp
  SampleIsTheTop
  GroupIsNotEmpty
