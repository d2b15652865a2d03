SPECIFICATION FairSpec
CONSTANTS
  Sources <- UdpTcpCan
  MaxTime = 2
  MaxPayloads = 2
  MaxFaults = 1
INVARIANTS
  OneInRecorder
  EndIsLast
  LastWriteIsLatest
  StatsMatch
PROPERTIES
  CaptureEnds
CHECK_DEADLOCK FALSE
