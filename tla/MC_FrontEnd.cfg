\* Two threads, blocks of four bytes aligned to two: sizes that fill a block
\* partly, with padding, exactly, and not at all (huge).  Containers of up to 32
\* words with fields of five bits.  Modules of up to two globals and two bodies.
CONSTANTS
  t1 = t1
  t2 = t2
  Threads = {t1, t2}
  BlockSize = 4
  Alignment = 2
  Sizes = {1, 4, 5}
  MaxChunks = 3
  MaxLive = 2
  MaxChain = 3
  ResetsAfterFailure = FALSE
  UintRange = 32
  SizeRange = 256
  Blobs <- MCBlobs
  NoData = NoData
  NoValue = NoValue
  Forward = Forward
  IdRange = 64
  SignBit = 1024
  MaxGlobals = 2
  MaxArgs = 1
  MaxBlocks = 2
  MaxRecords = 2
SPECIFICATION FrontEndSpec
CHECK_DEADLOCK FALSE
INVARIANT ObjectsSound
INVARIANT ContainerReadsSound
INVARIANT ModuleAsWritten
PROPERTY ParserEnds
