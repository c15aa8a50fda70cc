SPECIFICATION Spec
CONSTANTS
  Threads = {t1, t2, t3}
  NoThread = NoThread
  MaxBackups = 2
  Files = 4
  BackupsPerFile = 2
CHECK_DEADLOCK FALSE
INVARIANTS
  TypeOK
  OvershootBounded
PROPERTIES
  JobsEnd
