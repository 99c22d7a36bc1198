CONSTANTS
  Order = {o1}
  Worker = {w1}
  Key = {k1}
  NoKey = NoKey
  NoOrder = NoOrder
  Draft <- Mixed
  Tender = {2}
  Load = {"create", "status"}
  MaxRequests = 3
  MaxAttempts = 2
SPECIFICATION Spec
INVARIANT
  LiveSaleIsDepleted
CHECK_DEADLOCK FALSE
