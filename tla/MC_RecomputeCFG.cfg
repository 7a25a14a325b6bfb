\* Every function of four blocks up to the names of the blocks, analysed twice.
CONSTANTS
  NumBlocks = 4
  Inputs <- AllFunctions
  MaxVisits = 2
  Switches = {2, 3}
SPECIFICATION RCSpec
CHECK_DEADLOCK FALSE
INVARIANT ForwardAnalysesCorrect
PROPERTY RecomputeEnds
