SPECIFICATION Spec
CONSTANTS
  Clients = {c1, c2}
  Sessions = {s1, s2}
  NULL = NULL
  MaxSignals = 0
CHECK_DEADLOCK FALSE
INVARIANT NeverFaults
