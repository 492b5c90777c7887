\* Two rungs of narrowing, the lower one reached by the floor.
SPECIFICATION Spec
CONSTANTS
  NRecords = 7
  PageSize = 6
  Shrink = 3
  MaxPages = 9
  MaxSkips = 1
  MetadataRetries = 1
  MaxBroken = 2
  MaxFaults = 2
  MaxEdits = 2
\* A listing that has returned stops.
CHECK_DEADLOCK FALSE
INVARIANTS
  TypeOK
  ListedInOrder
  EditsCostOneEach
  SkipsAreEarned
  PagesWithinBudget
