SPECIFICATION FairSpec
CONSTANTS
  MaxLines = 4
  PipeCap = 2
  TailMax = 2
  LogMax = 2
  Blank = {2}
  Helpers = TRUE
CHECK_DEADLOCK FALSE
PROPERTIES
  RunEnds
