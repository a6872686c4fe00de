CONSTANTS
  t1 = t1
  t2 = t2
  t3 = t3
  f1 = f1
  f2 = f2
  f3 = f3
  Threads = {t1, t2, t3}
  Owner = t1
  Functors = {f1, f2, f3}
SPECIFICATION FairThreadSpec
INVARIANTS
  NoLostWakeup
PROPERTIES
  FifoOnce
  QueuedIsRun
  OwnerReturns
CHECK_DEADLOCK FALSE
