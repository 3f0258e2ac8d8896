SPECIFICATION Spec
CONSTANTS
  Writers = {w1, w2}
  MaxLines = 2
  MaxEvents = 3
  MaxCrashes = 1
INVARIANTS
  KeptOnce
  Overrun
  ReadsAll
PROPERTIES
  DropsNeedRival
CHECK_DEADLOCK FALSE
