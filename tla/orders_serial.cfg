CONSTANTS
  Order = {o1}
  Worker = {w1}
  Key = {k1}
  NoKey = NoKey
  NoOrder = NoOrder
  Draft <- Mixed
  Tender = {1, 2}
  Load = {"create", "status", "pay", "refund", "earn", "reverse"}
  MaxRequests = 6
  MaxAttempts = 2
SPECIFICATION Spec
INVARIANT
  TypeOK
PROPERTIES
  ReversedSaleEarnsNothing
  ImplementsSale
CHECK_DEADLOCK FALSE
