CONSTANTS
  Picture = Picture
  Sound = Sound
  SystemItem = SystemItem
  NoCall = NoCall
  Track <- MCTrack
  SampleSequence <- MCSampleSequence
  SampleOffset <- MCSampleOffset
  HaveInputUserTimecode = TRUE
  MaxContentPackages = 3
  MaxSamplesPerCall = 4
  MaxEditUnits = 5
  PackageConfigs <- MCPackageConfigs
  MaxQueued = 5
  MaxPackages = 6
SPECIFICATION MCSpec
INVARIANTS
  TypeOK
  FileInterleaved
  IndexMatchesFile
  PoolBounded
  FailsOnlyWhenFull
  TimecodesInOrder
  PackagesInSequence
PROPERTIES
  ImplementsInterleaver
  SuppliedIsWritten
  RefusedForCause
