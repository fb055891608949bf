SPECIFICATION FairSpec
CONSTANTS
  Tables <- MCTables
  Columns <- MCColumns
  None = None
  MaxGateways = 2
INVARIANTS
  OneOpensTheDevices
  SchemaIsWhole
  RefusedByThePredecessor
PROPERTIES
  StreamsAreControlled
  StartEnds
  StopIsHonoured
CHECK_DEADLOCK FALSE
