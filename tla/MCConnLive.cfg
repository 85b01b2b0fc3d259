CONSTANTS
  App = {}
  MaxMsgs = 1
  LockTimeout = TRUE
  WriteTimeout = FALSE
  WriteLimit = TRUE
  Recover = FALSE
  Upgraded = TRUE
SPECIFICATION FairSpec
PROPERTIES ClosedEnds BrokerLossCloses LockWaitEnds
CHECK_DEADLOCK FALSE
