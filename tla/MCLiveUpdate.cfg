SPECIFICATION FairSpec
CONSTANTS
  ba = ba
  bb = bb
  bc = bc
  Bundle = {ba, bb, bc}
  Comps <- MCComps
  keepReleases = 2
  Faults = {"save", "io", "service"}
  pa = pa
  pb = pb
  Packages <- MCPackages
  MaxCrashes = 1
CONSTRAINT
  Modest
INVARIANTS
  TypeOK
  HostMatchesHistory
  RunsWhatIsInstalled
  RollbackPossible
PROPERTY
  PendingEnds
