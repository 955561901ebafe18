CONSTANTS
  None = None
  Writers = {w1, w2}
  Hooked = {w1, w2}
  Batches = {}
  Stamps = {s1}
  Raws = {r1}
  Txs = {}
  MaxRows = 2
  GroupCommit = TRUE
  TriggerRollback = FALSE
CHECK_DEADLOCK FALSE
SPECIFICATION Spec
SYMMETRY Symmetric
INVARIANTS JoinedWritesAreKept EffectsFollowCommit
