CONSTANTS
  w1 = w1
  w2 = w2
  p1 = p1
  p2 = p2
  p3 = p3
  Workers = {w1, w2}
  Producers = {p1, p2, p3}
  NumTasks = 5
  MaxQueueSize = 2
SPECIFICATION FairSpec
INVARIANTS
  NobodySleeps
  TasksKept
PROPERTIES
  TasksInOrder
  CallsReturn
CHECK_DEADLOCK FALSE
