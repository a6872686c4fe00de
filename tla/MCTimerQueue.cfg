CONSTANTS
  t1 = t1
  t2 = t2
  Timers = {t1, t2}
  Intervals = {1, 2}
  MaxTime = 3
SPECIFICATION FairSpec
INVARIANTS
  TimerfdCoversEarliest
  CancelDecides
PROPERTIES
  AddedIsRun
