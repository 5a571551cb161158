SPECIFICATION Spec
CONSTANTS
  CellMod = 4
  MemSize = 3
  Sources <- MCSources
INVARIANTS
  AcceptsExactlyBalanced
  NeverUnmatched
  DoneIsWellFormed
  IInv
PROPERTIES
  OnlyPlaceholdersArePatched
  CallEnds
