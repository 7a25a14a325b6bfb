\* Words of eight bits; all halves; two intrinsics of a shader; four calls that
\* share an alloca and an incoming payload; loops of three iterations.
SPECIFICATION OpcodesSpec
CONSTANTS
  Word = 8
  OddWidths = {5}
  OddOps <- SomeOps
  Inputs <- MCInputs
  Packed = {0, 27, 141, 255}
  MaxValues = 4
  Halves <- AllHalves
  Floats <- SomeFloats
  HwModes <- FlushingModes
  Matrices <- SomeMatrices
  Saturation = {TRUE}
  NativeFp8 = {TRUE, FALSE}
  MaxIntrinsics = 2
  Intrinsics <- AllButInstanceID
  UavKind <- Uavs
  Addresses = {0}
  MaxOrdinary = 1
  Mixing = FALSE
  Allocas = {v1}
  Pointers = {in1}
  MaxRayCalls = 4
  Private = {"Invoke", "Attributes", "FromQuery"}
  MaxRounds = 3
  CarriedFresh = FALSE
  Concurrent = FALSE
  DynamicReads = FALSE
  HeapSources = FALSE
CHECK_DEADLOCK FALSE
INVARIANT IntegersSound
INVARIANT FloatsSound
INVARIANT IntrinsicsSound
INVARIANT PayloadsKept
INVARIANT RayObjectsSound
