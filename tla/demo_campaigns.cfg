SPECIFICATION Spec
CONSTANTS
  o1 = o1
  o2 = o2
  k1 = k1
  k2 = k2
  Orders <- MCOrders
  Keys <- MCKeys
  Window = 1
  MaxClosedCache = 1
  MaxClosedLines = 2
  TornWrites = TRUE
  MaxTrades = 2
  MaxCampaigns = 2
  MaxTime = 1
  MaxQueue = 2
  MaxPlans = 1
  MaxCrashes = 1
  MaxFailures = 0
SYMMETRY MCSymmetry
CHECK_DEADLOCK FALSE
INVARIANTS
  NeverReopens
  CampaignOneKey
