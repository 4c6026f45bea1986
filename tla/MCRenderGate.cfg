CONSTANTS
  p1 = p1
  p2 = p2
  p3 = p3
  Configs <- Contents
  Errors <- ErrorsOf
  Renders = {p1, p2, p3}
  Kind <- OneOfEach
  NoConfig = NoConfig
  NoRender = NoRender
  MaxEdits = 2
  MaxFaults = 1
SPECIFICATION Spec
INVARIANTS OnlyEditsEscape SuccessIsAudited
CHECK_DEADLOCK FALSE
