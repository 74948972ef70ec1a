SPECIFICATION FairSpec
CONSTANTS
  d1 = d1
  d2 = d2
  Deployment = {d1, d2}
  box = box
  Project <- MCProject
  Container <- MCContainer
  Systemd = {box}
  MaxConcurrent = 2
  PerContainer = 1
  MaxMisses = 2
  MaxCancels = 1
  MaxFaults = 1
CHECK_DEADLOCK FALSE
CONSTRAINT InTurn
INVARIANTS TypeOK RowLimits SuccessIsReal  CancelArrives
PROPERTIES FinalStays DeploymentsEnd
