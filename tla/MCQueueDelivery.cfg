CONSTANTS
  u1 = u1 u2 = u2 m1 = m1 m2 = m2 m3 = m3 p1 = p1 p2 = p2 c1 = c1 c2 = c2
  NoMsg = NoMsg
  Lists = {u1, u2}
  Msgs = {m1, m2}
  Home <- TwoHomes
  Producers = {p1}
  Cap <- NoCap
  Consumers = {c1, c2}
  Keys <- TwoKeys
  Timeouts = {1}
  Resolution = 1
  DefaultMs = 1
  MaxTime = 1
SPECIFICATION LoadedSpec
INVARIANTS AtMostOnce
PROPERTIES EventuallyPopped ClosedWhenDown
CHECK_DEADLOCK FALSE
