CONSTANTS
  Calls = {c1}
  Others = {}
  MaxEvents = 0
SPECIFICATION Spec
PROPERTIES ErrIsFinal
CHECK_DEADLOCK FALSE
