SPECIFICATION Spec
CONSTANTS
  ConfigLines <- MCConfigLines
  DeviceLines <- MCDeviceLines
  RuleLines <- MCRuleLines
  MaxLines <- MCMaxLines
INVARIANTS
  ConfigIsExact
  DevicesAreExact
  RulesAreExact
CHECK_DEADLOCK FALSE
