CONSTANTS
  KeptLogs = 2  DefaultLimit = 2  MaxLimit = 3
  NoQuery = NoQuery  g1 = g1  g2 = g2
  Gateway <- MCOne
  Limits <- MCLimits
  MaxClock = 1
  MaxId <- MCMedia
SPECIFICATION Spec
INVARIANT MediaIsReadable
