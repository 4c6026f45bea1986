CONSTANTS
  MaxRuns = 3
  MaxAttempts = 3
  MaxFaults = 1
SPECIFICATION Spec
INVARIANTS FailuresAreReported SuccessIsComplete OnlyScannedCodeRuns NewestIsApplied SomeRunMoves
PROPERTIES OnlyRerunsGoBack EnvironmentSpec
CHECK_DEADLOCK FALSE
