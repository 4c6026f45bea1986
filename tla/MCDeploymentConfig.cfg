CONSTANTS
  Inputs <- Deployments
  Paths <- PlacesOfFields
  Depth = 4
  Approved = {"south", "east"}
  Locations = {"world"}
  ZoneSuffixes = {"a"}
  Split <- SplitWords
SPECIFICATION Spec
INVARIANTS FieldsByPrecedence LabelsComplete TokensResolved DirectVpcIsConsistent LookupsResolve PlacesApproved TypoNeverDisables
PROPERTIES CheckSpec
CHECK_DEADLOCK FALSE
