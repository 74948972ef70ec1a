SPECIFICATION Spec
CONSTANTS
  Process = {p1, p2}
  Nobody = Nobody
  Top = Top
  Trigger = Trigger
  act = act
  wait = wait
  gate = gate
  test = test
  each = each
  body = body
  halt = halt
  Flows <- MCFlows
  MaxAttempts = 2
  MaxSteps = 3
  MaxParallel = 2
  MaxItems = 2
  MaxMishaps = 1
  MaxCalls = 2
CHECK_DEADLOCK FALSE
CONSTRAINT Trouble
SYMMETRY Symmetry
INVARIANT NotRepeated
