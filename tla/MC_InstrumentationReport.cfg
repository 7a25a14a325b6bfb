\* Two invocations, two colliding and one other instruction, four slots in two
\* control words, reports with and without a dispatch cookie,
\* with and without aborting assertions.
CONSTANTS
  i1 = i1
  i2 = i2
  Invocations = {i1, i2}
  Insts = {1, 2, 3}
  Values = {21}
  Cookies = {11, 12}
  Kinds = {"NanInf", "AssumeTrue"}
  PayloadLen = 4
  HalfWord = 2
  Hash <- MCHash
  CookieHash <- MCCookieHash
  MaxCalls = 2
  NoPayload = NoPayload
SPECIFICATION IRSpec
CHECK_DEADLOCK FALSE
INVARIANT ReportsSound
PROPERTY ImplementsFaultSlots
PROPERTY BadValueIsPublished
