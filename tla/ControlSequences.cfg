SPECIFICATION HistSpec
CONSTANTS
  Byte = {27, 24, 7, 63, 49, 59, 33, 109, 91, 93, 127, 226, 193, 169}
  MaxParams = 2
  MaxIntermediates = 1
  MaxOscLen = 0
  MaxParam = 9
  MaxSeq = 6
  MaxAstray = 2
INVARIANT NoResidue
INVARIANT CallsAsWritten
CHECK_DEADLOCK FALSE
