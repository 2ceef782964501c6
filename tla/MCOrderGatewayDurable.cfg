\* Three requests, one restart of the engine.
SPECIFICATION Spec
CONSTANTS
  h1 = h1
  h2 = h2
  h3 = h3
  Handler <- MCHandler
  Body <- MCBody
  HalfWord <- MCHalfWord
  Misread <- MCMisread
  MaxRestarts = 1
  Nobody = Nobody
  NoRow = NoRow
  NoRequest = NoRequest
SYMMETRY HandlerSymmetry
INVARIANT
  DurableTrades
CHECK_DEADLOCK FALSE
