SPECIFICATION FairSpec
CONSTANTS
  Stages <- MixedStages
  Items <- MixedItems
  Zones <- MCZones
  CellZone = "BODY_CELL_ZONE"
  SlotOf <- MixedSlotOf
  Nowhere = "nowhere"
  MaxRuns = 2
  TfLag = TRUE
INVARIANT ArmSafe
INVARIANT PartsSafe
CHECK_DEADLOCK FALSE
