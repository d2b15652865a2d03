SPECIFICATION Spec
CONSTANTS
  a = a
  b = b
  c = c
  d = d
  SourceLists <- Lists
  ChannelLists <- Selections
  MaxChannels = 3
  LastTs = 3
  MaxFaults = 1
INVARIANTS
  TypeOK
  MergeOrdered
  MergeKeepsMessages
  SplitSelects
  OutputsClosed
  NotesKept
CHECK_DEADLOCK FALSE
