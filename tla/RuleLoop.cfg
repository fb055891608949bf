CONSTANTS
  RuleFiles <- MCRuleFiles
  Sensor = "temp"  Motor = "motor"
  Channels <- MCBoth
  MaxTemp = 3  Hot = 2  MaxReadings = 1  MaxCommands = 2
SPECIFICATION LoopFairSpec
PROPERTY DisabledIsQuiet
PROPERTY Regulates
