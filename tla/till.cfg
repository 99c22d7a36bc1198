SPECIFICATION Spec
CONSTANTS
  tea = tea
  thali = thali
  Content = {tea, thali}
  Price <- MCPrice
  Call = {c1, c2}
  None = None
  MaxKeys = 3
  MaxCarts = 2
  MaxFaults = 1
SYMMETRY Lanes
INVARIANTS
  TypeOK
  CartsBecomeOneOrder
  LegsRingOnce
CHECK_DEADLOCK FALSE
