CONSTANTS
  None = None
  Writers = {w1}
  Hooked = {w1}
  Batches = {b1}
  Stamps = {}
  Raws = {}
  Txs = {t1}
  MaxRows = 2
  GroupCommit = TRUE
  TriggerRollback = TRUE
CHECK_DEADLOCK FALSE
SPECIFICATION FairSpec
INVARIANTS BatchIsolated BatchAtomic
PROPERTIES EveryCallAnswered
