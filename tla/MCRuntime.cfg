SPECIFICATION Spec
CONSTANTS
  HasTemplates = TRUE
  UsesDNS = TRUE
  Shutters <- MCTwoShutters
  MaxSockets = 3
  MaxStarts = 2
  MaxRequests = 1
INVARIANTS
  PermitConserved
  DrainedOnce
  CleanAfterDrain
  NothingSentAfterShutdown
  SocketsOwned
  EndpointStable
CHECK_DEADLOCK FALSE
