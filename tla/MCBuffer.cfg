CONSTANTS
  kCheapPrepend = 2
  kInitialSize = 1
  ExtraSize = 2
  Byte = {0, 1}
  CR = 1
  LF = 0
  MaxSize = 7
  MaxLen = 2
SPECIFICATION BufferSpec
INVARIANTS
  BufferTypeOK
  TextReadsBack
PROPERTIES
  ContentIsQueue
