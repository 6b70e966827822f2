CONSTANTS
  Entries = {"e1", "e2"}
  NoEntry = "none"
  MaxPipelines = 3
  MaxCommands = 2
SPECIFICATION FairSpec
INVARIANTS EndIsOfTheLoaded
PROPERTIES OldQueuesNeverReturn EndIsNoticed
CHECK_DEADLOCK FALSE
