CONSTANTS
  c1 = c1
  c2 = c2
  c3 = c3
  c4 = c4
  Calls = {c1, c2, c3, c4}
  Factors = {f1}
  MaxTokenAttempts = 2
  MaxCodeFailures = 1
  Accounts <- MCAccounts
  Does <- MCDoes
  None = None
  MaxClock = 1
  Refreshes = {r1, r2, r3}
  Logouts = {o1}
CHECK_DEADLOCK FALSE
SPECIFICATION Spec
SYMMETRY Symmetric
INVARIANTS SpentOnce GuessesBounded OneLiveCode TakenBack OneReplacement SignOutSticks
