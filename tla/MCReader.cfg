SPECIFICATION FairSpec
CONSTANTS
  Word = 16
  IndexIntervalNs = 2
  Disks <- AllDisks
  Targets <- Zero
  Filters <- NoFilters
  MaxCalls = 3
INVARIANTS
  TypeOK
  SeekFindsAll
  ReadSelects
  FullPassAccounts
  ChannelsKnown
PROPERTIES
  ImplementsStream
  CallsReturn
CHECK_DEADLOCK FALSE
