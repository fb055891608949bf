CONSTANTS
  NoFile = NoFile  NoPid = NoPid
  MaxClock = 1
  MaxStarts = 2
  MaxMedia = 2
  MaxRows = 3
SPECIFICATION Spec
CHECK_DEADLOCK FALSE
INVARIANT RecordingsAreStored
