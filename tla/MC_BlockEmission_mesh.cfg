SPECIFICATION BESpec
CONSTANTS
  Functions <- MCFunctions
  OpLists <- MCOpLists
  Lists <- MeshLists
CHECK_DEADLOCK FALSE
INVARIANT AssumeCallsFit
