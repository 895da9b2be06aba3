SPECIFICATION Spec
CONSTANTS
  k1 = k1
  k2 = k2
  NoOrder = NoOrder
  Keys <- MCKeys
  GlobalMax = 1
  MaxSerial = 1
  MaxTrades = 3
  MaxCrashes = 0
  MaxFailures = 0
  MaxModes = 1
  MaxRefused = 0
SYMMETRY MCSymmetry
CHECK_DEADLOCK FALSE
INVARIANTS
  TypeOK
  CapHolds
PROPERTIES
  PauseStopsEntries
  WatchedClosedOnlyWhenFlat
