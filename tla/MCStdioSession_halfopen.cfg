SPECIFICATION Spec
CONSTANTS
  nl = nl
  a = a
  b = b
  INT = INT
  TERM = TERM
  NL = nl
  Messages <- MCMessages
  Scripts <- MCScripts
  MaxLine = 2
  Signals = {}
  Obeys = {}
PROPERTY EndOfClientEnds
CHECK_DEADLOCK FALSE
