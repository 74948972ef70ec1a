SPECIFICATION FairSpec
CONSTANTS
  Process = {p1, p2}
  Nobody = Nobody
  Top = Top
  Trigger = Trigger
  act = act
  wait = wait
  gate = gate
  test = test
  each = each
  body = body
  halt = halt
  Flows <- MCFlowsLive
  MaxAttempts = 2
  MaxSteps = 3
  MaxParallel = 2
  MaxItems = 1
  MaxMishaps = 1
  MaxCalls = 0
CHECK_DEADLOCK FALSE
PROPERTY RunEnds
