SPECIFICATION Spec
CONSTANTS
  Max16 = 65535
  Escape = 255
  MaxV5 = 30
  Max32 = 2097152
  Max63 = 10000000
  Milli = 4
  MaxIPFIXNanos = 9000000
  Scenarios <- MCScenarios
INVARIANTS
  OnlyEndpointIsGeneric
  MappedFits
  SameRecord
  SubsetIsLedger
CHECK_DEADLOCK FALSE
