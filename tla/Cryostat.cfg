SPECIFICATION Spec
CONSTANTS
  Workers = {w1, w2}
  Timeout = 0
INVARIANTS
  PumpsStopInOrder
PROPERTIES
  PumpingEnds
CHECK_DEADLOCK FALSE
