SPECIFICATION FairSpec
CONSTANTS
  Stages <- ShippedStages
  Items <- ShippedItems
  Zones <- MCZones
  CellZone = "BODY_CELL_ZONE"
  SlotOf <- ShippedSlotOf
  Nowhere = "nowhere"
  MaxRuns = 1
  TfLag = FALSE
PROPERTY ImplementsPromise
PROPERTY RunEnds
CHECK_DEADLOCK FALSE
