CONSTANTS
  MaxRuns = 2
  MaxAttempts = 2
  MaxFaults = 0
SPECIFICATION Spec
PROPERTY ApplyDeploysTheBuild
CHECK_DEADLOCK FALSE
