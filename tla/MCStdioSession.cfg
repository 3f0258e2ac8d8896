SPECIFICATION Spec
CONSTANTS
  nl = nl
  a = a
  b = b
  INT = INT
  TERM = TERM
  NL = nl
  Messages <- MCMessages
  Scripts <- MCScripts
  MaxLine = 2
  Signals = {INT, TERM}
  Obeys = {TERM}
INVARIANTS
  TypeOK
  WholeInOrder
  EndDelivers
  NoOrphan
PROPERTIES
  ExitPropagates
  FirstSignalEnds
CHECK_DEADLOCK FALSE
