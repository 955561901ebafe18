CONSTANTS
  a = a
  b = b
  r1 = r1
  r2 = r2
  Workers = {1}
  Size = 1
  Requests = {}
  Restores = {a, b}
  Endings = {}
CHECK_DEADLOCK FALSE
SPECIFICATION Spec
INVARIANTS FailedRestoreKeepsTheDatabase
