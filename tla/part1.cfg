SPECIFICATION Spec
CONSTANTS
  Threads = {t1, t2}
  NoThread = NoThread
  Entries <- Directory
  Job <- Jobs
  BufferSize = 3
  MaxBackups = 2
  Keys = {"a", "b"}
  Values = {"v1", "v2"}
  Absent = Absent
  TableSize = 2
  ListOf <- ListOfKey
  Rank <- ListOfKey
CHECK_DEADLOCK FALSE
INVARIANTS
  JobsRunOnce
  BackupFilesDiffer
  NoTornBatch
  LocksComeBack
  ChildrenAreCounted
PROPERTIES
  EndsUnlessDeleteFailed
