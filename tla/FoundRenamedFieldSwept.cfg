CONSTANTS
  p1 = p1
  p2 = p2
  d1 = d1
  j1 = j1
  Procs = {p1, p2}
  MaxTime = 3
  Deliveries = {}
  RetryMax = 2
  Delays = {1}
  Lease = 2
  MaxInFlight = 1
  Jobs = {}
  Periods = {1, 2}
  MaxReads = 2
  MaxByHand = 1
  f1 = f1
  a = a
  b = b
  Files = {f1}
  Fields = {a, b}
  FirstFields = {a}
  Grace = 0
  MaxChanges = 2
  Nothing = Nothing
  MaxSets = 0
  MaxRereads = 0
CHECK_DEADLOCK FALSE
SPECIFICATION Spec
SYMMETRY Symmetric
INVARIANTS RenamedFilesStay
