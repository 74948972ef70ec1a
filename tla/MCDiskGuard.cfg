SPECIFICATION FairSpec
CONSTANTS
  Caller = {watch, c1}
  Watch = watch
  Total = 10
  Policy <- MCPolicy
  reserveStep = 2
  MaxTaken = 5
  MaxReleases = 2
  MaxRestarts = 1
INVARIANT WithinTarget
PROPERTIES GrowthSafe AdmissionSafe EmergencyReleases ReserveReturns
