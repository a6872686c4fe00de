CONSTANTS
  c1 = c1
  c2 = c2
  Conns = {c1, c2}
  TimeOut = 1
  Lag = 1
  AgeCap = 4
  MaxJumps = 1
  MaxRequests = 2
  ByteValues = 2
  MaxUnread = 11
  Replies <- MCReplies
SPECIFICATION MCSpec
INVARIANTS
  NearlySorted
  AnswersRight
PROPERTIES
  IdleIsClosed
  CgiAnswered
CHECK_DEADLOCK FALSE
