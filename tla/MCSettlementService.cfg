SPECIFICATION Spec
CONSTANTS
  t1 = t1  t2 = t2  t3 = t3  b1 = b1  b2 = b2  s1 = s1
  NoTrade = NoTrade
  Trade <- MCTrade
  Unowned <- MCUnowned
  Batch <- MCBatch
  Sweep <- MCSweep
  MaxHead = 2
  MaxReorgs = 1
  MaxFailures = 1
CHECK_DEADLOCK FALSE
INVARIANTS TypeOK PaidOnce SettledIsRecorded ConfirmedWasIncluded MovedIsMarked
PROPERTIES OnlyReorgsUnsettle
SYMMETRY MCSymmetry
