CONSTANTS
  u1 = u1 u2 = u2 m1 = m1 m2 = m2 m3 = m3 p1 = p1 p2 = p2 c1 = c1 c2 = c2
  NoMsg = NoMsg
  Lists = {u1}
  Msgs = {m1, m2, m3}
  Home <- OneHome
  Producers = {p1, p2}
  Cap <- SameCap
  Consumers = {c1}
  Keys <- OneKeys
  Timeouts <- AllTimeouts
  Resolution = 2
  DefaultMs = 2
  MaxTime = 3
SPECIFICATION Spec
INVARIANTS TTLWithinTimeout InOrder
PROPERTIES OnlyPoppedLeave
SYMMETRY Symmetry
CHECK_DEADLOCK FALSE
