SPECIFICATION FairSpec
CONSTANTS
  s1 = s1
  Shutdown <- MCShutdown
  Updates = 3
  Quotes = 2
  MaxFailures = 1
CHECK_DEADLOCK FALSE
INVARIANTS TypeOK LossesExplained GoodbyeTrue
PROPERTIES ShutsDown
