SPECIFICATION Spec
CONSTANTS
  c1 = c1
  c2 = c2
  c3 = c3
  cut = cut
  Contents = {c1, c2, c3, cut}
  Broken = {cut}
  Ids = {1, 2}
  IdsIn <- IdsInDef
  Manifests <- TwoBatches
  Modes = {"backfill"}
  None = None
  MaxDrops = 4
  MaxPieces = 0
  MaxCrashes = 0
PROPERTY NeverOverwritesNewer
