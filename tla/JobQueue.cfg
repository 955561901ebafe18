CONSTANTS
  p1 = p1
  p2 = p2
  j1 = j1
  j2 = j2
  k1 = k1
  NoKey = NoKey
  NoProc = NoProc
  Procs = {p1, p2}
  Jobs = {j1, j2}
  Keys = {k1}
  KeyOf <- OneKey
  RetryMax = 2
  Concurrency = 1
  LeaseTime = 2
  MaxTries = 1
  Retriable = {j1}
  MaxRetries = 1
  MayStall = {p2}
  MayOverrun = {p2}
  WriteFails = TRUE
CHECK_DEADLOCK FALSE
SPECIFICATION FairSpec
INVARIANTS UniqueKeys NoTakeover ConcurrencyKept
PROPERTIES LateFinishIgnored JobsEnd
