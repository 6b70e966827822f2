CONSTANTS
  Roots <- TwoRoots
  Dirs <- TheirDirs
  Registered = {"music"}
  MaxChanges = 0
  MaxCommands = 2
SPECIFICATION FlagSpec
INVARIANT FailedScanStaysFlagged
CHECK_DEADLOCK FALSE
