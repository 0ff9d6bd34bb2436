SPECIFICATION Spec
CONSTANTS
  Files <- MCFiles
  MaxSamples = 2
  Unlimited <- MCUnlimited
  RuntimeSegmentSize = 2
INVARIANTS
  FramesFromTheirPosition
  LookupsTrue
  KnowsWhereItIs
  CompleteWhenAllIsKnown
PROPERTIES
  FailsOnlyForCause
  ReadsEnd
  ImplementsSource
CHECK_DEADLOCK FALSE
