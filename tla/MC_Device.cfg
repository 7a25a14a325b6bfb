\* Up to five records in rows of two, grids of up to three workgroups; two waves
\* and two groups of two threads on two nodes; waves of three lanes, quads in waves of eight.
SPECIFICATION DeviceSpec
CONSTANTS
  RowLength = 2
  ThreadGroup = 2
  CoalesceStride = 2
  MaxRecords = 5
  MaxGrid = 3
  MaxDepth = 2
  WordBits = 8
  Waves = {w1, w2}
  Groups = {g1, g2}
  Threads = 2
  WaveWidth = 2
  Nodes = {0, 1}
  MaxCount = 1
  GroupCalls = 2
  Scenarios <- DeviceScenarios
  CountRange = 4
  Alignment = 4
  RecordSize = 3
  WaveLanes = 3
  QuadLanes = 8
  Samples = {0, 1, 2, 3}
  Keys = {0, 1, 3}
CHECK_DEADLOCK FALSE
INVARIANT NothingRunsTwice
INVARIANT RecordsSound
INVARIANT WavesSound
PROPERTY AllDispatched
PROPERTY AllocationsReturn
PROPERTY WaterfallsEnd
