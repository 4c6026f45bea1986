CONSTANTS
  r1 = r1
  r2 = r2
  p1 = p1
  p2 = p2
  Runs = {r1, r2}
  Passwords = {p1, p2}
  Missing = Missing
  Empty = Empty
  Down = Down
  MaxReleases = 3
  MaxFaults = 5
SPECIFICATION FairSpec
INVARIANTS PublicNeedsPassword CompleteIsComplete
PROPERTIES CompletedIsRetained InstallationSpec EventuallyComplete
