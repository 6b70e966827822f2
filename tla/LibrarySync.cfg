CONSTANTS
  Roots <- TwoRoots
  Dirs <- TheirDirs
  Registered = {"music"}
  MaxChanges = 1
  MaxCommands = 2
SPECIFICATION FairSpec
INVARIANTS ChangesAreNotForgotten GcNeverMeetsAScan
PROPERTIES ActorComesToRest
CHECK_DEADLOCK FALSE
