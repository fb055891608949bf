CONSTANTS
  NoFile = NoFile  NoPid = NoPid
  MaxClock = 1
  MaxStarts = 3
  MaxMedia = 2
  MaxRows = 2
SPECIFICATION Spec
CHECK_DEADLOCK FALSE
INVARIANT ProcessesOwned
INVARIANT RowsInOrder
PROPERTY MediaIsKept
