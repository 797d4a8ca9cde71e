SPECIFICATION HistSpec
CONSTANTS
  Byte = {27, 7, 49, 109, 91, 93}
  MaxParams = 2
  MaxIntermediates = 1
  MaxOscLen = 1
  MaxParam = 9
  MaxSeq = 5
  MaxAstray = 2
INVARIANT EveryCallAsWritten
CHECK_DEADLOCK FALSE
