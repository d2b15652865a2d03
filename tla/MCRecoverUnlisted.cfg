SPECIFICATION Spec
CONSTANTS
  Word = 16
  IndexIntervalNs = 2
  Directories <- SomeDirectories
  MaxCalls = 3
  MaxCrashes = 0
  MaxFaults = 0
INVARIANTS
  AllFilesRecovered
CHECK_DEADLOCK FALSE
