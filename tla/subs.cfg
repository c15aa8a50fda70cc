SPECIFICATION Spec
CONSTANTS
  Sessions = {0, 1}
  Jobs = {j1}
  Keys = {"k1", "k2", "k3"}
  Written = {"k1", "k2", "k3"}
  Lists = {1, 2}
  ListOf <- OwnLists
  MaxSubs = 2
  MaxRequests <- UnevenRequests
  MaxCommands = 1
CHECK_DEADLOCK FALSE
INVARIANTS
  ToldOnlyWhatItWants
  BooksAgreeUnlessDamaged
  
  OnlyDisconnectDeadlocks
PROPERTIES
  JobsDoneUnlessDisconnectHangs
