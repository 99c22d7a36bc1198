CONSTANTS
  Order = {o1}
  Worker = {w1, w2}
  Key = {k1}
  NoKey = NoKey
  NoOrder = NoOrder
  Draft <- Lifecycles
  Tender = {2}
  Load = {"create", "status", "pay", "refund"}
  MaxRequests = 5
  MaxAttempts = 2
SPECIFICATION Spec
INVARIANT
  RefundedWithinCaptured
CHECK_DEADLOCK FALSE
