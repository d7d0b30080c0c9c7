SPECIFICATION Spec
CONSTANTS
  Protocol = "v9"
  ShapeCount = 2
  InitialCopies = 2
  RefreshInterval = 2
  RefreshCount = 2
  UptimeOrigin <- NoTime
  NanosPerMilli = 2
  MaxUptime = 2
  MaxExportWall = 10
  SeqModulus = 3
  MaxRecords = 2
  DatagramLength = 2
  Walls <- MCWalls
  Monos <- MCMonos
  MaxTokens = 8
  MaxEpochs = 2
  NoPacket = NoPacket
INVARIANTS
  SequenceCountsHandoffs
  DataFollowsBootstrap
  RefreshBound
  AppenderReleased
PROPERTIES
  RefreshCoversCatalog
CHECK_DEADLOCK FALSE
