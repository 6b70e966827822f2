CONSTANTS
  Entries = {"e1", "e2"}
  NoEntry = "none"
  MaxPipelines = 3
  MaxCommands = 2
SPECIFICATION Spec
PROPERTY AdoptsWhatFollows
CHECK_DEADLOCK FALSE
