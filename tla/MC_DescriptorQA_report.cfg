\* Two concurrent calls, the host active: the report protocol, with the members of
\* the report that calls can disagree on or that come from the loaded entry.
CONSTANTS
  c1 = c1
  c2 = c2
  Calls = {c1, c2}
  NoReport = NoReport
  AtomicRange = 4
  HeapIndex = 7
  Fields = {"FailedOffset", "FailedCookie", "FailedInstruction",
            "ActualDescriptorTypeMask"}
  DescriptorCount = 1
  Offsets = {0, 1}
  Cookies = {0}
  CookiesPerWord = 2
  TypeBits = {}
  MaxTime = 1
SPECIFICATION QASpec
CHECK_DEADLOCK FALSE
INVARIANT ReportConsistent
PROPERTY ReportImmutable
PROPERTY ImplementsFaultSlot
PROPERTY FaultIsReported
