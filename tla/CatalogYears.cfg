SPECIFICATION Spec
CONSTANTS
  None = None
  Ids = {1, 2, 3}
  Playable = {1, 3}
  Row <- MCRow
  PageSize = 1
  IdsPerQuery = 2
  Skips = {0, 2}
  MaxWrites = 1
INVARIANT JumpsByYearLand
CHECK_DEADLOCK FALSE
