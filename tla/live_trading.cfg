SPECIFICATION Spec
CONSTANTS
  o1 = o1
  o2 = o2
  k1 = k1
  k2 = k2
  e1 = e1
  e2 = e2
  majors = majors
  Orders <- MCOrders
  Outcomes <- MCOrders
  Keys <- MCKeys
  Events <- MCEvents
  Sectors <- MCSectors
  NoSector = none
  Budgets <- MCBudgets
SYMMETRY MCSymmetry
CHECK_DEADLOCK FALSE
INVARIANTS
  TypeOK
  EntriesAccounted
  SeenClosed
  RestingOrdersGuarded
  ClusterExclusive
  OneExecutionPerEvent
  OutcomesSurvive
PROPERTIES
  Delivers
  ProbationServed
  LateExitStops
