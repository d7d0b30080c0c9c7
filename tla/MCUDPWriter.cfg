SPECIFICATION FairSpec
CONSTANTS
  Calls <- MCCalls
INVARIANTS
  DeadlineOwned
PROPERTIES
  CancelInterrupts
CHECK_DEADLOCK FALSE
