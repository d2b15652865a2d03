SPECIFICATION Spec
CONSTANTS
  Word = 16
  IndexIntervalNs = 2
  Directories <- SomeDirectories
  MaxCalls = 3
  MaxCrashes = 2
  MaxFaults = 1
INVARIANTS
  TypeOK
  NothingLost
  RecoveredValidates
  RecoveredSeekable
CHECK_DEADLOCK FALSE
