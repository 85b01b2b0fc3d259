CONSTANTS
  Calls = {c1}
  Others = {}
  MaxEvents = 0
SPECIFICATION FairSpec
PROPERTIES OKCallGetsResOrExp
CHECK_DEADLOCK FALSE
