CONSTANTS
  a = a
  b = b
  c = c
  u = u
  Listed = {a, b, c}
  Unlisted = {u}
SPECIFICATION FairSpec
INVARIANTS FirstReportIsCircular AcceptedIsBuildable
PROPERTY SearchEnds
CHECK_DEADLOCK FALSE
