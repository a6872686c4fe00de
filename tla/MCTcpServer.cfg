CONSTANTS
  c1 = c1
  c2 = c2
  NULL = NULL
  Conns = {c1, c2}
  Idlers = {c1}
  CgiUsers = {c1}
  NumThreads = 1
SPECIFICATION FairSpec
INVARIANTS
  RegisteredIsAlive
  ErasedIsDestroyed
PROPERTIES
  LifeSpec
  ClosedIsFreed
CHECK_DEADLOCK FALSE
