CONSTANTS
  Picture = Picture
  Sound = Sound
  Data = Data
  NoMark = NoMark
  NoFrame = NoFrame
  Track <- MCTrack
  SampleSequence <- MCSampleSequence
  SampleOffset <- MCSampleOffset
  PastEnd <- MCPastEnd
  Word = 65536
  MaxRetries = 2
  Configs <- MCPrechargeConfigs
SPECIFICATION Spec
CHECK_DEADLOCK FALSE
INVARIANTS
  MembersInStep
