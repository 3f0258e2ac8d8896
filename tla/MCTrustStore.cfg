SPECIFICATION Spec
CONSTANTS
  a = a
  b = b
  x = x
  y = y
  url = url
  None = None
  Initial <- MCInitial
  Remotes <- MCRemotes
  Procs = {p1, p2}
  Servers = {a, b}
  Entries = {x, y, url}
  Local = {x, y}
  Surfaces = {t}
  Denied <- MCDenied
  MaxEdits = 1
SYMMETRY MCSymmetry
INVARIANTS
  TypeOK
  OnlyConsented
  ChangesKept
CHECK_DEADLOCK FALSE
