SPECIFICATION Spec
CONSTANTS
  Threads = {t1, t2}
  Keys <- MixedKeys
  Values = {"v1", "v2"}
  Absent = Absent
  TableSize = 2
  ListOf <- MixedList
  Rank <- MixedRank
  Commands <- MixedCommands
  MaxCommands = 1
CHECK_DEADLOCK FALSE
INVARIANT NoCircularWait
