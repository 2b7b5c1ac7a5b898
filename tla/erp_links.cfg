CONSTANTS
  Keys = {1, 2, 3}
  Scopes = {"a", "b"}
  Unscoped = "*"
  Place <- PlaceDef
  ScopeOf <- ScopeOfDef
  Number <- NumberDef
  Begins <- BeginsDef
  Connectors <- Ledger
  AgilityScopes <- PlanDef
  Companies <- PlanDef
  DocumentTypes <- PlanDef
  PageSize = 1
  MinPageSize = 1
  BatchSize = 2
  MaxRetries = 2
  MaxPages = 2
  CloudPageSize = 1
  PageLimit = 2
  ServerPages = {1, 2}
  MaxRows = 4
  MaxClock = 3
  MaxChanges = 1
  MaxFaults = 0
SPECIFICATION Spec
INVARIANT LinksContinueTheListing
CHECK_DEADLOCK FALSE
