CONSTANTS
  MaxFailures = 2
  MaxConns = 3
  MaxCalls = 4
SPECIFICATION FairSpec
INVARIANTS
  OneAttempt
  SocketsOwned
PROPERTIES
  StopIsFinal
  Connects
CHECK_DEADLOCK FALSE
