SPECIFICATION Spec
CONSTANTS
  QbDegraded = 1
  QbShadow = 2
  ApiDegraded = 2
  ApiShadow = 3
  LossDegraded = 2
  LossPause = 3
  PctDegraded <- MCMinus5
  PctPause <- MCMinus10
  UsdPause <- MCUsd
  StaleAfter = 1
  FailureWindow = 1
  LossWindow = 1
  Pnls <- MCPnls
  Equities <- MCEquities
  MaxTime = 2
  MaxRecorded = 3
  MaxLosses = 3
PROPERTIES
  InfrastructureOutlivesWin
