SPECIFICATION FairSpec
CONSTANTS
  items = items
  vendors = vendors
  i1 = i1
  i2 = i2
  v0 = v0
  Entities = {items, vendors}
  Contents = {i1, i2, v0}
  SchemaOf <- SchemaOfContent
  Rows <- RowsOfContent
  Batches = {1, 2, 3}
  Leftovers <- ItemsLeft
  Modes = {"backfill", "incremental"}
  None = None
  MaxDrops = 3
  MaxPieces = 2
  MaxCrashes = 1
INVARIANTS QuarantineRecorded StagedOnceUndisturbed
PROPERTIES PromotedBatchStaged WatermarkNotAhead 
