SPECIFICATION Spec
CONSTANTS
  r1 = r1
  r2 = r2
  NoTools = NoTools
  Refs = {r1, r2}
  Places <- MCPlaces
  NumServers = 2
  Surfaces = {t, NoTools}
  MaxRotations = 1
INVARIANTS
  FailClosed
  ReportsListing
PROPERTY CommandEnds
CHECK_DEADLOCK FALSE
