SPECIFICATION Spec
CONSTANTS
  Null = Null
  FromStart = TRUE
  BacklogLimit = 2
  ChunkEvents = 2
  SocketFrames = 2
  MaxBatch = 3
  MaxSeq = 5
  MaxDrops = 2
  MaxResets = 1
INVARIANTS
  InOrderNothingTwice
  NoSilentGap
PROPERTIES
  CatchesUp
