SPECIFICATION FairSpec
CONSTANTS
  HasTemplates = TRUE
  UsesDNS = TRUE
  Shutters <- MCOneShutter
  MaxSockets = 1
  MaxStarts = 1
  MaxRequests = 1
PROPERTIES
  Drains
  WakeNotLost
CHECK_DEADLOCK FALSE
