CONSTANTS
  c1 = c1
  c2 = c2
  NULL = NULL
  Conns = {c1}
  Idlers = {c1}
  CgiUsers = {}
  NumThreads = 0
SPECIFICATION Spec
INVARIANTS
  DestroyedOnce
CHECK_DEADLOCK FALSE
