SPECIFICATION LifetimeSpec
CONSTANTS
  Protocol = "v5"
  ShapeCount = 1
  InitialCopies = 2
  RefreshInterval = 2
  RefreshCount = 0
  UptimeOrigin = 2
  NanosPerMilli = 2
  MaxUptime = 2
  MaxExportWall = 10
  SeqModulus = 3
  MaxRecords = 2
  DatagramLength = 2
  Walls <- MCWalls
  Monos <- MCMonos
  MaxTokens = 4
  MaxEpochs = 2
  NoPacket = NoPacket
  NotSampled = NotSampled
  NotObserved = NotObserved
INVARIANTS
  HeaderRepresentable
  GaugesMatchState
PROPERTIES
  WireTimeMonotone
CHECK_DEADLOCK FALSE
