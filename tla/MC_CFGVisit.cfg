\* Every function of four blocks with at most two branches per block.
CONSTANTS
  NumBlocks = 4
  Inputs <- Functions2
  MaxVisits = 2
SPECIFICATION CVSpec
CHECK_DEADLOCK FALSE
INVARIANT ForwardEdgesDescend
INVARIANT TraversalsSound
