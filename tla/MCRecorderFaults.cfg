SPECIFICATION Spec
CONSTANTS
  GrowBytes = 192
  Word = 16
  IndexIntervalNs = 3
  MaxSegmentBytes = 370
  MaxSegmentDurationNs = 5
  ChunkSizeBytes = 80
  FlushTimer = TRUE
  PackedPercent = 50
  Modes <- BothModes
  ChannelConfigs <- MCConfigs
  MaxChannels = 2
  Timestamps = {1, 6}
  AnnotationTimes = {1}
  Lengths = {30}
  MaxCalls = 3
  MaxSegments = 9
  MaxFaults = 2
INVARIANTS
  MarksMatchBuffer
  NothingLostOrReordered
  AnnotationsInOrder
  FlushEmptiesBuffers
  CountsMatchRecords
  ManifestListsSealedFiles
  DefinedBeforeUse
  IndexServesSeeks
  RangesCoverMessages
PROPERTIES
  FilesOnlyGrow
  ImplementsChannelLog
CHECK_DEADLOCK FALSE
