SPECIFICATION Spec
CONSTANTS
  MaxSources = 6
  MaxPendingValid = 3
INVARIANTS
  CountsMatchClasses
  IntervalIsPacket
  HandoffInOrder
PROPERTIES
  ImplementsContract
CHECK_DEADLOCK FALSE
