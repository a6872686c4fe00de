CONSTANTS
  Size = 3
  LineLen = 1
  MaxBatch = 2
  MaxLines = 5
  NULL = NULL
  RollSize = 3
  FlushInterval = 0
  CheckEveryN = 2
  RollPerSeconds = 2
  NoticeLen = 1
  MaxNow = 3
  MaxJumps = 1
  kSmallBuffer = 40
  kMaxNumericSize = 5
  Bits = 8
SPECIFICATION FairLogSpec
INVARIANTS
  AssertionsHold
  NoSleepOnFull
  LinesInFiles
  RollsByDay
  LineReadsBack
PROPERTIES
  WritesUntilStopped
CHECK_DEADLOCK FALSE
