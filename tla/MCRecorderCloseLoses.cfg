SPECIFICATION Spec
CONSTANTS
  GrowBytes = 256
  Word = 16
  IndexIntervalNs = 3
  MaxSegmentBytes = 370
  MaxSegmentDurationNs = 5
  ChunkSizeBytes = 80
  FlushTimer = TRUE
  PackedPercent = 50
  Modes <- BothModes
  ChannelConfigs <- MCConfigs
  MaxChannels = 2
  Timestamps = {1, 6}
  AnnotationTimes = {1}
  Lengths = {30}
  MaxCalls = 3
  MaxSegments = 9
  MaxFaults = 2
INVARIANTS
  CloseKeepsMessages
CHECK_DEADLOCK FALSE
