SPECIFICATION OutputSpec
CONSTANTS
  Nothing = Nothing
  Pipelines <- MCPipelines
  SourceFrames <- MCSourceFrames
  SeekTarget = 1
  Host <- MCHost
  Selections <- MCSelections
  Spec0 <- MCSpec
  Resampler <- MCResampler
  Buffer = 2
  Lead = 1
  Packet = 2
  MaxTime = 5
  MaxLate = 0
INVARIANT PositionIsHeard
CHECK_DEADLOCK FALSE
