CONSTANTS
  Configs <- MCIntervalConfigs
  NoDuration = NoDuration
  NoOffset = NoOffset
  MaxSegmentEntries = 4
  GOPSizeGuess = 1
  MaxCacheEntries = 3
  MaxBuffered = 2
  MaxPackages = 3
  Final <- MCFinal
  GOPStart <- MCGOPStart
SPECIFICATION Spec
INVARIANTS
  BodyOffsetsRight
