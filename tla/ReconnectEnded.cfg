CONSTANTS
  Caller = {a1, a2}
  MaxConn = 3
  MaxEvents = 2
SPECIFICATION Spec
PROPERTIES ReconnectUndisturbed
CHECK_DEADLOCK FALSE
