CONSTANTS
  Customer = {c1}
  Order = {o1}
  Worker = {w1, w2}
  Key = {k1}
  NoKey = NoKey
  NoOrder = NoOrder
  Nobody = Nobody
  Amount = {2}
  Rate = {0, 1, 3}
  Load = {"redeem", "adjust", "sale", "EARN", "REFUND_REVERSAL", "REDEEM_REVERSAL"}
  MaxRequests = 6
  MaxAttempts = 2
SPECIFICATION Spec
SYMMETRY Crew
INVARIANTS
  TypeOK
  EffectsHappenOnce
PROPERTY
  SpendingLeavesNoDebt
CHECK_DEADLOCK FALSE
