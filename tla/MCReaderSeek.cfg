SPECIFICATION Spec
CONSTANTS
  Word = 16
  IndexIntervalNs = 2
  Disks <- SoundDisks
  Targets <- Zero
  Filters <- NoFilters
  MaxCalls = 3
INVARIANTS
  SeekFindsFirst
CHECK_DEADLOCK FALSE
