\* One call and an active host with three cookies and one type; two invocations
\* with two accesses each, two hashes, one lock hash.
CONSTANTS
  c1 = c1
  Calls = {c1}
  srv = srv
  AtomicRange = 4
  NoReport = NoReport
  HeapIndex = 7
  Fields = {}
  DescriptorCount = 1
  Offsets = {0, 1}
  Cookies = {0, 1, 2}
  CookiesPerWord = 2
  TypeBits = {srv}
  MaxTime = 1
  i1 = i1
  i2 = i2
  Accessors = {i1, i2}
  Accesses <- MCAccesses
  Windows = {"w1", "w2"}
  WindowBytes = 4
  WordBytes = 2
  NumHashes = 2
  NumLockHashes = 1
  AddrHash <- MCAddrHash
  BufferLen = 6
  UintRange = 256
  IdStep = 7
  MaxAccesses = 2
SPECIFICATION ChecksSpec
CHECK_DEADLOCK FALSE
SYMMETRY InvocationSymmetry
INVARIANT QATypeOK
INVARIANT PassedCallIsValid
INVARIANT FilterSound
INVARIANT EarlierRaceIsReported
