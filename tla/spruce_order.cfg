SPECIFICATION FairSpec
CONSTANTS
  c1 = c1
  c2 = c2
  c3 = c3
  cut = cut
  Contents = {c1, c2, c3, cut}
  Broken = {cut}
  Ids = {1, 2}
  IdsIn <- IdsInDef
  Manifests <- ThreeBatches
  Modes = {"backfill", "incremental"}
  None = None
  MaxDrops = 3
  MaxPieces = 2
  MaxCrashes = 1
PROPERTIES NeverOlder StaleDropTombstonesNothing DeliveryLands RegeneratedIsFlagged
