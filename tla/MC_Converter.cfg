\* Every class of resource at every place; pipelines of two and three shaders; two
\* views; structured functions of up to seven nodes.
SPECIFICATION ConverterSpec
CONSTANTS
  WordBits = 7
  SamplerHeapMax = 45
  Bindings <- Passing
  Pipelines <- MCPipelines
  HalfBits = 4
  Vertices = 3
  MaxControlPoints = 4
  ViewSetups <- MCSetups
  LayerOffset <- MCLayers
  ViewportOffset <- MCViewports
  HalfWord = 8
  Primitives = 3
  Named = {0, 1}
  Functions <- MCFunctions
  OpLists <- MCOpLists
  Lists <- MCLists
CHECK_DEADLOCK FALSE
INVARIANT BindingsSound
INVARIANT StagesSound
INVARIANT ViewsPlaced
INVARIANT EmissionSound
