CONSTANTS
  Configs <- MCClipConfigs
  NoDuration = NoDuration
  MaxSegmentEntries = 2
  GOPSizeGuess = 1
  MaxCacheEntries = 3
  Picture = "picture"
  Final <- MCFinal
  GOPStart <- MCGOPStart
SPECIFICATION Spec
INVARIANTS
  SameSizeAccepted
