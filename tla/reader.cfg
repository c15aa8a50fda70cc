SPECIFICATION Spec
CONSTANTS
  Lines <- LinesOf
  MaxLines = 3
  MaxString = 4
  MaxPairs = 3
  MaxUint = 99
CHECK_DEADLOCK FALSE
INVARIANTS
  TypeOK
  LinesStandAlone
  RunsWhatIsWritten
PROPERTIES
  ReadsToTheEnd
