CONSTANTS
  Inputs <- Deployments
  MaxFaults = 2
SPECIFICATION FairSpec
INVARIANTS LiveIfOffered ListedOnce AgreesWithValidate
PROPERTIES CheckEnds
CHECK_DEADLOCK FALSE
