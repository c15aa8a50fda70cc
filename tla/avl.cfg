SPECIFICATION Spec
CONSTANTS
  Entries <- TenKeys
  NoFd = 0
INVARIANTS
  BalancedEverywhere
  WalkMeetsEachOnce
PROPERTIES
  ImplementsSubscriberMap
