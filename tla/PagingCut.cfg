\* Room for every record three times over at PageSize, not one by one.
SPECIFICATION Spec
CONSTANTS
  NRecords = 12
  PageSize = 6
  Shrink = 3
  MaxPages = 9
  MaxSkips = 1
  MetadataRetries = 1
  MaxBroken = 0
  MaxFaults = 4
  MaxEdits = 0
CHECK_DEADLOCK FALSE
INVARIANTS
  ReturnsEveryItem
