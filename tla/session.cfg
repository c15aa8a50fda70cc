SPECIFICATION Spec
CONSTANTS
  c1 = c1
  c2 = c2
  Clients <- TwoClients
  Terminals = {c2}
  NoClient = NoClient
  Keys = {k}
  SessionCount = 1
  MaxRequests <- Requests
  Mortal = {c1}
  MaxNotes = 1
CHECK_DEADLOCK FALSE
INVARIANTS
  OrderlyClientsAreSafe
  NoDescriptorLeak
  AnswersMatchRequests
  NotesGoHome
  BlankOnlyAfterSignal
PROPERTIES
  LeavesWithServer
  CleanedUnlessLate
  AnsweredUnlessHung
  ConnectedUnlessBusy
