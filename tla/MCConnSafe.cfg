CONSTANTS
  App = {"app"}
  MaxMsgs = 1
  LockTimeout = TRUE
  WriteTimeout = TRUE
  WriteLimit = FALSE
  Recover = TRUE
  Upgraded = TRUE
SPECIFICATION Spec
INVARIANTS OneWriter CloseComplete
CHECK_DEADLOCK FALSE
