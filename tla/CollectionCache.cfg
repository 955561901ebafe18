CONSTANTS
  None = None
  Servers = {a, b}
  Calls = {r1, c1, u1, d1}
  Reads = {r1}
  Creates = {c1}
  Updates = {u1}
  Deletes = {d1}
  MaxCalls = 2
  MaxFaults = 2
CHECK_DEADLOCK FALSE
SPECIFICATION Spec
SYMMETRY Symmetric
INVARIANTS ChangesReachEveryone
