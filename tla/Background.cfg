CONSTANTS
  p1 = p1
  p2 = p2
  d1 = d1
  j1 = j1
  Procs = {p1, p2}
  MaxTime = 3
  Deliveries = {d1}
  RetryMax = 2
  Delays = {0, 1}
  Lease = 2
  MaxInFlight = 1
  Jobs = {j1}
  Periods = {1, 2}
  MaxReads = 2
  MaxByHand = 1
  f1 = f1
  a = a
  b = b
  Files = {f1}
  Fields = {a, b}
  FirstFields = {a}
  Grace = 0
  MaxChanges = 3
  Nothing = Nothing
  MaxSets = 3
  MaxRereads = 1
CHECK_DEADLOCK FALSE
SPECIFICATION Spec
SYMMETRY Symmetric
INVARIANTS HeldWhileLeased SlotOnce NoOverlap NamedFilesStay OwnSettingStays
