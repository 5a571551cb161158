SPECIFICATION VisualSpec
CONSTANTS
  Kinds = {"plain"}
  MaxKeys = 2
  MaxResizes = 1
INVARIANTS
  EveryResizeIsPending
CHECK_DEADLOCK FALSE
