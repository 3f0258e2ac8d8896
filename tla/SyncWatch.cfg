SPECIFICATION Spec
CONSTANTS
  NumProfiles = 2
  Inline = {2}
  MaxVersion = 3
  EditsFrom = "folded"
  Manual = TRUE
  Own = Own
  Absent = Absent
INVARIANTS
  TypeOK
  NoEditForgotten
  NeverOverlaps
PROPERTIES
  OnlyForward
  OwnIsKept
  StopIsFinal
  CatchesUp
CHECK_DEADLOCK FALSE
