SPECIFICATION Spec
CONSTANTS
  Caller = {c1, c2}
  Watchdog = Watchdog
  Agent = Agent
  lan = lan
  bond = bond
  isolated = isolated
  Object <- MCObject
  Lan = {lan}
  Advanced = {bond}
  Risky = {lan, bond}
  None = None
  Cuts <- MCCuts
  MaxOps = 2
  MaxFaults = 1
CHECK_DEADLOCK FALSE
INVARIANT ProvenStays
