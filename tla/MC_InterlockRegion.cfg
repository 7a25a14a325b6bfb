\* Every connected function of five blocks, with every choice of the blocks that access a
\* rasterizer-ordered view.
CONSTANTS
  NumBlocks = 5
  Inputs <- ConnectedFunctions
  MaxVisits = 1
  Switches = {2}
SPECIFICATION ILSpec
CHECK_DEADLOCK FALSE
INVARIANT LockAnalysesCorrect
INVARIANT LockedOnceOutsideLoops
