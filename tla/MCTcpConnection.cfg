CONSTANTS
  m1 = m1
  m2 = m2
  m3 = m3
  t1 = t1
  NULL = NULL
  Messages = {m1, m2, m3}
  Threads = {t1}
  MsgLen = 2
  Room = 2
SPECIFICATION FairSpec
INVARIANTS
  OutputInStep
PROPERTIES
  StreamSpec
  ShutdownCompletes
CHECK_DEADLOCK FALSE
