SPECIFICATION FairSpec
CONSTANTS
  GrowBytes = 256
  Word = 16
  IndexIntervalNs = 3
  MaxSegmentBytes = 338
  MaxSegmentDurationNs = 0
  ChunkSizeBytes = 40
  FlushTimer = FALSE
  PackedPercent = 50
  Modes <- BothModes
  ChannelConfigs <- ThreeConfigs
  MaxChannels = 2
  Timestamps = {1}
  AnnotationTimes = {1}
  Lengths = {8}
  MaxCalls = 3
  MaxSegments = 6
  MaxFaults = 0
INVARIANTS
  TypeOK
  SizesBounded
  CloseKeepsEverything
PROPERTIES
  CallsReturn
CHECK_DEADLOCK FALSE
