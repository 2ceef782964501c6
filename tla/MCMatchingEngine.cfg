\* Three orders, two prices, up to two lots each, four submissions or
\* replacements; no symmetry, since liveness is checked too.
SPECIFICATION FairSpec
CONSTANTS
  o1 = o1
  o2 = o2
  o3 = o3
  Id <- MCId
  Price <- MCPrice
  MaxQty = 2
  MaxRequests = 4
  NoPlace = NoPlace
  NoOrder = NoOrder
INVARIANTS
  TypeOK
  IndexTracksBook
  Uncrossed
  TimePriority
  Conservation
  Whereabouts
  ReplyComplete
PROPERTIES
  NoTradeThrough
  LockReleased
  ImplementsBook
