SPECIFICATION Spec
CONSTANTS
  o1 = o1
  o2 = o2
  k1 = k1
  k2 = k2
  Orders <- MCOrders
  Keys <- MCOneKey
  Window = 1
  MaxClosedCache = 1
  MaxClosedLines = 9
  TornWrites = FALSE
  MaxTrades = 2
  MaxCampaigns = 1
  MaxTime = 0
  MaxQueue = 2
  MaxPlans = 0
  MaxCrashes = 1
  MaxFailures = 0
CHECK_DEADLOCK FALSE
INVARIANT
  PersistedTradeAccounted
