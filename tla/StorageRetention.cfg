CONSTANTS
  KeptLogs = 2  DefaultLimit = 2  MaxLimit = 3
  NoQuery = NoQuery  g1 = g1  g2 = g2
  Gateway <- MCTwo
  Limits <- MCNone
  MaxClock = 1
  MaxId <- MCLogs
SPECIFICATION Spec
INVARIANT DroppedAreOldest
INVARIANT LogsAreRecent
PROPERTY OnlyLogsAreDropped
