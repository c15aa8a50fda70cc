SPECIFICATION Spec
CONSTANTS
  Threads = {t1, t2}
  Keys <- LetterKeys
  Values = {"v1", "v2"}
  Absent = Absent
  TableSize = 2
  ListOf <- LetterList
  Rank <- LetterRank
  Commands <- LetterCommands
  MaxCommands = 2
CHECK_DEADLOCK FALSE
INVARIANTS
  TypeOK
  IdleHoldsNothing
  NoTornBatch
  NoCircularWait
PROPERTIES
  AllJobsDone
  ImplementsAtomicStore
