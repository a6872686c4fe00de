CONSTANTS
  wakeup = wakeup
  connector = connector
  conn = conn
  other = other
  NULL = NULL
  Channels = {wakeup, connector, conn, other}
  FdOf <- MCFdOf
SPECIFICATION PollerSpec
INVARIANTS
  IndexConsistent
  NoInterestIsHidden
