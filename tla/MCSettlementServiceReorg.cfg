SPECIFICATION Spec
CONSTANTS
  t1 = t1  t2 = t2  t3 = t3  b1 = b1  b2 = b2  s1 = s1
  NoTrade = NoTrade
  Trade <- MCTrade
  Unowned <- MCUnowned
  Batch <- MCBatch
  Sweep <- MCSweep
  MaxHead = 2
  MaxReorgs = 2
  MaxFailures = 0
CHECK_DEADLOCK FALSE
INVARIANT AffectedMarked
