CONSTANTS
  motor = motor  buzzer = buzzer  None = None
  Actuators <- MCActuators
  Switches <- MCSwitches
  Motor = motor
  RuleActuators <- MCRules
  DefaultSetting = 5
  Channels <- MCBoth
  Requests <- MCRequests
  BulkRequests <- MCBulk
  MaxRows = 2
SPECIFICATION Spec
INVARIANT TypeOK
INVARIANT HistoryIsComplete
INVARIANT DashboardIsRight
