SPECIFICATION FairSpec
CONSTANTS
  Protocol = "v9"
  ShapeCount = 2
  InitialCopies = 2
  RefreshInterval = 1
  RefreshCount = 2
  UptimeOrigin <- MCNoOrigin
  NanosPerMilli = 2
  MaxUptime = 2
  MaxExportWall = 10
  SeqModulus = 4
  MaxRecords = 2
  DatagramLength = 2
  Walls <- MCOneWall
  Monos <- MCMonos
  MaxTokens = 40
  MaxEpochs = 1
  NoPacket = NoPacket
  MaxSources = 3
  MaxPendingValid = 4
  Kinds = {"huge", "good"}
  Lanes = {0, 1}
  MaxRequests = 1
INVARIANTS
  PacketsCoupled
PROPERTIES
  CallReturns
CHECK_DEADLOCK FALSE
