SPECIFICATION Spec
CONSTANTS
  p1 = p1
  p2 = p2
  p3 = p3
  original = original
  retagged = retagged
  None = None
  Garbage = Garbage
  Paths <- MCPaths
  DirOf <- MCDirOf
  RootOf <- MCRootOf
  Contents <- MCContents
  Artist <- MCArtist
  Recording <- MCRecording
  WithArtwork <- MCWithArtwork
  WithInvalid <- MCWithInvalid
  FirstFiles <- MCFirstFiles
  FirstRows <- MCFirstRows
  Inspections = 1
  BatchSize = 2
  MaxScans = 2
  MaxChanges = 1
PROPERTIES ArrivalsWaitForEveryFolder
CHECK_DEADLOCK FALSE
