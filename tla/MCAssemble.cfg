SPECIFICATION AssembleSpec
CONSTANTS
  CellMod = 4
  MemSize = 3
  DualMod = 4
  PipeSize = 2
  MaxWritten = 2
  Listings <- MCListings
  Programs <- MCProgramsOut
  Arguments <- MCArguments
  Originals <- MCOriginals
  Unwritable <- MCUnwritable
INVARIANTS
  StatusZeroIsWhole
  RepresentableIsAccepted
  WordsMeanTheirLines
  CodeIsAsGiven
  StatusTellsTheOutput
  WholeOrNothing
PROPERTIES
  PipelineEnds
CHECK_DEADLOCK FALSE
