SPECIFICATION Spec
CONSTANTS
  W = 2
  BufSize = 3
  SyncEdges = 4
  MinLen = 0
  MaxLen = 2
  MaxFlips = 1
INVARIANTS
  LoadedMeansSaved
  CleanTapeLoads
  WritesStayInBlock
PROPERTIES
  RingIsFifo
  LoadEnds
