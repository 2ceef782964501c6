SPECIFICATION FairSpec
CONSTANTS
  c1 = c1  q1 = q1  q2 = q2
  Connection <- MCConnection
  Sequence <- MCSequence
  Recent = 2
  Slot <- MCSlot
  MaxTimers = 2
  MaxBook = 1
  MaxFailures = 1
CHECK_DEADLOCK FALSE
INVARIANTS TypeOK NoneSkipped
PROPERTIES Streamed BookConverges TimersStop
