SPECIFICATION Spec
CONSTANTS
  Sessions = {0, 1}
  Jobs = {j1}
  Keys = {"k1"}
  Written = {}
  Lists = {1}
  ListOf <- OwnLists
  MaxSubs = 1
  MaxRequests <- FewRequests
  MaxCommands = 2
CHECK_DEADLOCK FALSE
INVARIANT NoCircularWait
