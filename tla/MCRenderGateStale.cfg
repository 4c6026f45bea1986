CONSTANTS
  p1 = p1
  p2 = p2
  p3 = p3
  Configs <- FewContents
  Errors <- FewErrorsOf
  Renders = {p1, p2}
  Kind <- Two
  NoConfig = NoConfig
  NoRender = NoRender
  MaxEdits = 1
  MaxFaults = 0
SPECIFICATION Spec
INVARIANT RefusalStopsTerraform
CHECK_DEADLOCK FALSE
