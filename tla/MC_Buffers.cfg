\* Addresses of six bits and vectors of up to four components; three calls of the
\* driver extension on a buffer and a texture, 21 instructions at most.
SPECIFICATION BuffersSpec
CONSTANTS
  AddressBits = 6
  MaxVecSize = 4
  Cases <- Passing
  MaxCalls = 3
  Buffers = {b1}
  Textures = {t1}
  LaneAddressing = FALSE
  MaxInstructions = 21
INVARIANTS
  AddressesAsWritten
  DeclaredAsAccessed
  ViewsRespected
  PacketsSound
CHECK_DEADLOCK FALSE
