CONSTANTS
  App = {}
  MaxMsgs = 0
  LockTimeout = FALSE
  WriteTimeout = FALSE
  WriteLimit = FALSE
  Recover = FALSE
  Upgraded = FALSE
SPECIFICATION FairSpec
PROPERTIES ReceiveEnds
CHECK_DEADLOCK FALSE
