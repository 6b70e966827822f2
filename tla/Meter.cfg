SPECIFICATION FairSpec
CONSTANTS
  None = None
  Channels <- MCChannels
  Chunk = 1
  RingSamples = 4
  ReadSamples = 4
  FrameLen = 1
  MaxFrames = 2
  MaxRuns = 2
  MaxReloads = 1
INVARIANTS NewestRingIsKept FramesAreTrue
PROPERTIES CommandsAreServed
CHECK_DEADLOCK FALSE
