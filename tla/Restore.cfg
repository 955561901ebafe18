CONSTANTS
  a = a
  b = b
  r1 = r1
  r2 = r2
  Workers = {1, 2, 3}
  Size = 2
  Requests = {r1}
  Restores = {a, b}
  Endings = {"revocations", "credentials"}
CHECK_DEADLOCK FALSE
SPECIFICATION FairSpec
INVARIANTS PoolKept NoOldReads EndedStaysEnded
PROPERTIES RestoreEnds
