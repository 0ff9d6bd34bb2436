SPECIFICATION Spec
CONSTANTS
  Files <- MCLaggingFiles
  MaxSamples = 2
  Unlimited <- MCUnlimited
  RuntimeSegmentSize = 2
INVARIANTS
  FramesFromTheirPosition
CHECK_DEADLOCK FALSE
