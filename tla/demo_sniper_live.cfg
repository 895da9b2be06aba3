SPECIFICATION Spec
CONSTANTS
  k1 = k1
  k2 = k2
  NoOrder = NoOrder
  Keys <- MCOneKey
  GlobalMax = 1
  MaxSerial = 1
  MaxTrades = 2
  MaxCrashes = 1
  MaxFailures = 1
  MaxModes = 0
  MaxRefused = 1
CHECK_DEADLOCK FALSE
INVARIANTS
  LiveEntriesTracked
  OpenTradesWatched
PROPERTIES
  FlatTradesClose
