SPECIFICATION Spec
CONSTANTS
  k1 = k1
  k2 = k2
  NoOrder = NoOrder
  Keys <- MCOneKey
  GlobalMax = 1
  MaxSerial = 1
  MaxTrades = 2
  MaxCrashes = 0
  MaxFailures = 0
  MaxModes = 1
  MaxRefused = 0
CHECK_DEADLOCK FALSE
INVARIANTS
  CountedOnce
