CONSTANTS
  Order = {o1, o2}
  Worker = {w1, w2}
  Key = {k1}
  NoKey = NoKey
  NoOrder = NoOrder
  Draft <- Desk
  Tender = {1}
  Load = {"create", "status", "pay", "refund", "reverse"}
  MaxRequests = 5
  MaxAttempts = 2
SPECIFICATION Spec
SYMMETRY Symmetry
INVARIANTS
  TrailTellsStatus
  RefundsFollowAnEnding
  PointsAreForPaidSales
  ReversalsHaveACause
  KeyNamesOneOrder
  NumbersRunOn
CHECK_DEADLOCK FALSE
