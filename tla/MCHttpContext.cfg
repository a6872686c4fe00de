CONSTANTS
  MaxSent = 3
  BodyLen = 2
  Garbage = {0, 1, 2, 100}
SPECIFICATION ParserSpec
INVARIANTS
  CutsDoNotMatter
  RequestsAnswered
  RepliesFramed
CHECK_DEADLOCK FALSE
