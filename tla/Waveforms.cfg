SPECIFICATION FairWaveformsSpec
CONSTANTS
  Absent = Absent
  Stale = Stale
  hashed = hashed
  unhashed = unhashed
  Paths <- MCPaths
  Contents <- MCContents
  Counted <- MCCounted
  Stated <- MCStated
  Stored <- MCStored
  OldCache = {"a", "c"}
  Undecodable = {"b"}
  Threads = {1, 2, 3}
  WaveformBuckets = 3
  MinSegmentChunks = 2
  MinSampledChunks = 4
  MemoryEntries = 1
  MaxLoads = 3
INVARIANTS ExactIsWhole ShownIsOfTheLoaded
PROPERTIES ExactFollows
CHECK_DEADLOCK FALSE
