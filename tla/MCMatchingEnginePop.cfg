\* Three orders, two prices, up to two lots each, five submissions or replacements.
SPECIFICATION Spec
CONSTANTS
  o1 = o1
  o2 = o2
  o3 = o3
  Id <- MCId
  Price <- MCPrice
  MaxQty = 2
  MaxRequests = 5
  NoPlace = NoPlace
  NoOrder = NoOrder
INVARIANT
  LevelHoldsOrder
