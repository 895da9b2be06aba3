SPECIFICATION Spec
CONSTANTS
  c1 = c1
  c2 = c2
  c3 = c3
  j1 = j1
  j2 = j2
  k1 = k1
  NoKey = NoKey
  Calls <- MCCalls
  Jobs <- MCJobs
  LowJobs <- MCLow
  Keys <- MCKeys
  MaxConcurrent = 2
  MaxQueue = 2
  MaxCredits = 1
INVARIANTS
  TypeOK
  PermitsConserved
  LocksExact
  QueueExact
PROPERTIES
  SlotsFair
  WaitersMove
  StopReturns
