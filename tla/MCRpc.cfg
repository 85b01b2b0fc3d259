CONSTANTS
  Calls = {m1, m2}
  Workers = {w1, w2}
  CallCap = 1
  ResultCap = 0
  Timeouts = {1}
  Resolution = 1
  DefaultMs = 1
  MaxTime = 2
  NoMsg = NoMsg
  MaxFaults = 1
SPECIFICATION FairSpec
INVARIANTS StoredInTime
PROPERTIES ImplementsService CallEnds
CHECK_DEADLOCK FALSE
