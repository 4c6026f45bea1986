CONSTANTS
  Fields = {f1}
  Attempts = 2
  MaxEvents = 3
  MaxStops = 1
  MaxFaults = 0
  f1 = f1
SPECIFICATION Spec
INVARIANT FreshDelta
