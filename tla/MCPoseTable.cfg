SPECIFICATION Spec
CONSTANTS
  Shipped <- ShippedIds
  MaxRecords = 3
  MaxEdits = 2
INVARIANT TableSafe
CHECK_DEADLOCK FALSE
