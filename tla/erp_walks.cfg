CONSTANTS
  Keys = {1, 2, 3}
  Scopes = {"a", "b"}
  Unscoped = "*"
  Place <- PlaceDef
  ScopeOf <- ScopeOfDef
  Number <- NumberDef
  Begins <- BeginsDef
  Connectors <- AllConnectors
  AgilityScopes <- PlanDef
  Companies <- PlanDef
  DocumentTypes <- PlanDef
  PageSize = 2
  MinPageSize = 1
  BatchSize = 2
  MaxRetries = 2
  MaxPages = 2
  CloudPageSize = 1
  PageLimit = 2
  ServerPages = {1}
  MaxRows = 4
  MaxClock = 3
  MaxChanges = 1
  MaxFaults = 2
SPECIFICATION FairSpec
INVARIANTS TypeOK UndisturbedWalkIsComplete KeysetLosesNothing NothingYieldedTwice MarkIsCovered
PROPERTIES LiveKeysNotTombstoned EveryRunEnds CatchesUp
CHECK_DEADLOCK FALSE
