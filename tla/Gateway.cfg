SPECIFICATION GatewaySpec
CONSTANTS
  Segment <- MCSegment
  SensorIds <- MCSensorIds
  ActuatorIds <- MCActuatorIds
  Prefix <- MCPrefix
  Topics <- MCTopics
  Rules <- MCRules
  Values <- MCValues
  Hot = 1
  Client = {c1}
  MaxFrames = 2
INVARIANTS
  GatewayTypeOK
  IndexAgrees
  DevicesAreIndexed
  CommandableIffAlone
  StatusIsTheLastRow
  RowsStayAttributed
  FeedIsCurrent
PROPERTIES
  AttributionIsStable
  RulesFallSilent
