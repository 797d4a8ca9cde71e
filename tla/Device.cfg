SPECIFICATION DeviceSpec
CONSTANTS
  MaxVersion = 3
  Sound = {1, 3}
  Pins = {0, 3}
  Max = 3
  Filled = {2}
  MaxMade = 3
  MaxCuts = 1
INVARIANT NoProfileLost
PROPERTY Recovers
PROPERTY UpdateArrives
CHECK_DEADLOCK FALSE
