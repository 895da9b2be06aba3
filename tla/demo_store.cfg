SPECIFICATION Spec
CONSTANTS
  o1 = o1
  o2 = o2
  k1 = k1
  k2 = k2
  Orders <- MCOrders
  Keys <- MCOneKey
  Window = 1
  MaxClosedCache = 1
  MaxClosedLines = 1
  TornWrites = TRUE
  MaxTrades = 2
  MaxCampaigns = 1
  MaxTime = 0
  MaxQueue = 2
  MaxPlans = 0
  MaxCrashes = 2
  MaxFailures = 1
CHECK_DEADLOCK FALSE
INVARIANTS
  TypeOK
  LedgerOnce
  OneOpenTradePerOrder
  FileMirrorsMemory
PROPERTIES
  QueuedCloseRuns
  KeepsPromise
