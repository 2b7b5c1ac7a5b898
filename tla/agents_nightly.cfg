SPECIFICATION FairSpec
CONSTANTS
  items = items
  forecast = forecast
  j1 = j1
  Entities = {items, forecast}
  Scannable = {items}
  Keys = {1, 2, 3}
  Jobs = {j1}
  AlertPercent = 50
  Horizon <- ShortHorizons
  None = None
  MaxCrashes = 1
  MaxChanges = 2
INVARIANTS VerdictOutlivesRun
PROPERTIES MassDeletionIsHeld SkippedLoudly
