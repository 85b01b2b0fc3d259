CONSTANTS
  a = a
  p = p
  None = None
  Channels = {a}
  Patterns = {p}
  Covers <- MCCovers
  NPubs = 3
  Target <- MCTarget
  Valid = {1, 3}
  Callers = {c1, c2}
  MaxCalls = 2
  Readers = {r1, r2}
SPECIFICATION FairSpec
INVARIANTS SubscriptionInFlight EventsInOrder EndHasReason
PROPERTIES EventDelivered StreamEnds
CHECK_DEADLOCK FALSE
