SPECIFICATION MCSpec
CONSTANTS
  Shapes <- MCShapes
  Unknown = 127
  MaxFrames = 8
  AVCShapes <- MCAVCShapes
  MaxDPBFrames = 2
  OffsetMin <- MCOffsetMin
  OffsetMax = 1
  NoKeyFrame <- MCNoKeyFrame
  MaxAVCFrames = 6
INVARIANTS
  TemporalOffsetsLead
  RequiredUntilDisplayed
  KeyFramesDecodable
  GOPsDescribed
  AVCEntriesLead
  AVCWaitsAsNeeded
  AVCGOPsDescribed
