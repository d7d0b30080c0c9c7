SPECIFICATION Spec
CONSTANTS
  Owners <- MCOwners
  Addresses <- MCAddresses
  Foreign = 101
  Invalid = 102
  MaxAnswers = 2
  Refresh = 1
  StaleAfter = 2
  MaxTime = 4
  MaxGeneration = 4
INVARIANTS
  ServedIsFresh
  SocketMatchesCurrent
  GateReleased
PROPERTIES
  EpochKept
CHECK_DEADLOCK FALSE
