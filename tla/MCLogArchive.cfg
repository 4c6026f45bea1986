SPECIFICATION FairSpec
CONSTANTS
  Entries = {e1}
  Runs = {r1, r2}
  NoRun = NoRun
  Delay = 1
  Overlap = 2
  Lateness = 1
  Retention = 2
  Skew = 1
  UploadAttempts = 2
  SaveAttempts = 2
  MaxTime = 2
  MaxFaults = 1
INVARIANTS
  Coverage
  ManifestHasEntries
  CheckpointNamesSnapshot
  SuccessIsDurable
PROPERTIES
  CheckpointAdvances
  LedgerSpec
  EventuallySaved
CHECK_DEADLOCK FALSE
