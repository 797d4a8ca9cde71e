SPECIFICATION Spec
CONSTANTS
  Typed = {255}
  Shown = {255}
  Offers <- MCOffers
  Sizes <- MCSizes
  CfgSize <- MCCfgSize
  TxBytes = 1
  MaxTyped = 1
  MaxSaid = 1
  MaxSessions = 2
  MaxResizes = 1
INVARIANT StreamsIntact
INVARIANT WindowKept
PROPERTY ImplementsConnection
CHECK_DEADLOCK FALSE
