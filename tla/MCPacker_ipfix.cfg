SPECIFICATION Spec
CONSTANTS
  Protocol = "ipfix"
  ShapeCount = 1
  InitialCopies = 2
  RefreshInterval = 1
  RefreshCount = 1
  UptimeOrigin <- MCNoOrigin
  NanosPerMilli = 2
  MaxUptime = 2
  MaxExportWall = 10
  SeqModulus = 4
  MaxRecords = 2
  DatagramLength = 2
  Walls <- MCWalls
  Monos <- MCMonos
  MaxTokens = 40
  MaxEpochs = 1
  NoPacket = NoPacket
  MaxSources = 3
  MaxPendingValid = 4
  Kinds = {"bad", "misfit", "huge", "refused", "faulty", "good"}
  Lanes = {0}
  MaxRequests = 2
INVARIANTS
  NothingStranded
  LedgerAccepts
  SequenceMatchesLedger
  NoRecordLostOrRepeated
CHECK_DEADLOCK FALSE
