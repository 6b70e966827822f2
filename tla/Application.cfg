SPECIFICATION Spec
CONSTANTS
  None = None
  Garbled = Garbled
  NotText = NotText
  Unusable = Unusable
  Missing = Missing
  Half = Half
  CurrentVersion = 3
  FirstFiles <- MCFiles
  MaxChanges = 2
  MaxFaults = 1
  MaxCrashes = 1
  MaxStarts = 3
INVARIANTS MigrationsCanBeUndone ResetLosesNothing
PROPERTIES CleanEndSaves
CHECK_DEADLOCK FALSE
