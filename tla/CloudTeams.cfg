SPECIFICATION Spec
CONSTANTS
  Users = {boss, ann}
  Owner = boss
  Invites = {i1}
  Hooks = {h1, h2}
  MaxVersions = 3
  MaxEvents = 2
  MaxInputs = 3
  MaxFaults = 1
INVARIANTS
  NoBackdoor
  HistorySound
  TierCurrent
CHECK_DEADLOCK FALSE
