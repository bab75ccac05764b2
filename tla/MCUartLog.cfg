SPECIFICATION FairSpec
CONSTANTS
  BufSize = 4
  MaxLength = 5
  MaxLines = 3
INVARIANTS
  TypeOK
  LinesWhole
  ReturnsWhenSent
PROPERTIES
  LogReturns
CHECK_DEADLOCK FALSE
