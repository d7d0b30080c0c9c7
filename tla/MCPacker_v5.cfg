SPECIFICATION Spec
CONSTANTS
  Protocol = "v5"
  ShapeCount = 1
  InitialCopies = 2
  RefreshInterval = 1
  RefreshCount = 0
  UptimeOrigin = 4
  NanosPerMilli = 2
  MaxUptime = 2
  MaxExportWall = 10
  SeqModulus = 4
  MaxRecords = 2
  DatagramLength = 2
  Walls <- MCWallsPastLimit
  Monos <- MCMonos
  MaxTokens = 40
  MaxEpochs = 1
  NoPacket = NoPacket
  MaxSources = 3
  MaxPendingValid = 4
  Kinds = {"refused", "good"}
  Lanes = {0, 1}
  MaxRequests = 2
INVARIANTS
  ReportMatchesWire
CHECK_DEADLOCK FALSE
