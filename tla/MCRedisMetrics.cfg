CONSTANTS
  Fields = {f1}
  Attempts = 2
  MaxEvents = 3
  MaxStops = 1
  MaxFaults = 2
  f1 = f1
SPECIFICATION FairSpec
INVARIANTS NothingMissed RepeatsAreFaults
PROPERTIES EventuallyReported HealthSettles
