CONSTANTS
  Entries = {"e1"}
  NoEntry = "none"
  MaxPipelines = 3
  MaxCommands = 2
SPECIFICATION Spec
PROPERTY TickKeepsTheSeek
CHECK_DEADLOCK FALSE
