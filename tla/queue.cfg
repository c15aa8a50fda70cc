SPECIFICATION Spec
CONSTANTS
  Clients = {c1, c2, c3}
  Sessions = {s1, s2}
  NULL = NULL
  MaxSignals = 1
CHECK_DEADLOCK FALSE
INVARIANTS
  OneSessionPerClient
  PlacesConserved
  IntactUnlessRaced
PROPERTIES
  ServedUnlessBusy
