CONSTANTS
  w1 = w1
  w2 = w2
  b1 = b1
  b2 = b2
  p = p
  k1 = k1
  k2 = k2
  k3 = k3
  None = None
  Writers = {w1, w2}
  Batches = {b1, b2}
  Parent = p
  Children = {k1, k2, k3}
  Cascade <- MCCascade
  Asks <- MCAsks
SPECIFICATION FairSpec
INVARIANTS IfMatchHolds NoDangling
PROPERTIES BatchGetsIn ImplementsLock
