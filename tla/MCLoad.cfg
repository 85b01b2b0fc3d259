CONSTANTS
  Calls = {c1}
  Others = {o1}
  MaxEvents = 1
SPECIFICATION LoadFairSpec
INVARIANTS NeverBoth LoadWaits
PROPERTIES NoDispatchAfterClose CallIsSettled CloseEnds LoadEnds
CHECK_DEADLOCK FALSE
