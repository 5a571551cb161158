SPECIFICATION VisualSpec
CONSTANTS
  Kinds = {"plain", "in", "halt", "scan"}
  MaxKeys = 3
  MaxResizes = 2
INVARIANTS
  VisualTypeOK
  InputInOrder
  PausedStepsWereAsked
  ResizeIsPending
PROPERTIES
  QuitIsHeard
  StepComes
CHECK_DEADLOCK FALSE
