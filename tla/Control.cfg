SPECIFICATION Spec
CONSTANTS
  Address = {"p"}
  MaxRecent = 2
  MaxVersion = 3
  MaxProbes = 1
  MaxFaults = 2
  MaxPipe = 2
PROPERTY MapNeverBack
PROPERTY ListensAgain
CHECK_DEADLOCK FALSE
