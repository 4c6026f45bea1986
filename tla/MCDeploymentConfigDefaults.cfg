CONSTANTS
  Inputs <- Deployments
  Paths <- PlacesOfFields
  Depth = 4
  Approved = {"south", "east"}
  Locations = {"world"}
  ZoneSuffixes = {"a"}
  Split <- SplitWords
SPECIFICATION Spec
INVARIANT DefaultTokensResolved
CHECK_DEADLOCK FALSE
