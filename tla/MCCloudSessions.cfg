SPECIFICATION Spec
CONSTANTS
  p1 = p1
  p2 = p2
  p3 = p3
  m1 = m1
  m2 = m2
  Procs = {p1, p2, p3}
  Machines = {m1, m2}
  MachineOf <- MCMachineOf
  Echo = echo
  MaxLogins = 2
  MaxTokens = 3
  MaxFaults = 1
  MaxInputs = 2
INVARIANTS
  TypeOK
  SingleClaim
  OneLive
  KeychainLive
PROPERTIES
  LoginEnds
CHECK_DEADLOCK FALSE
