SPECIFICATION Spec
CONSTANTS
  s1 = s1
  s2 = s2
  n1 = n1
  n2 = n2
  None = None
  PVs <- AllPVs
  Addrs = {s1, s2}
  Worlds <- Unresponsive
CHECK_DEADLOCK FALSE
INVARIANTS DeadCircuitIsLeft
