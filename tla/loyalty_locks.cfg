CONSTANTS
  Customer = {c1, c2}
  Order = {o1, o2}
  Worker = {w1, w2, w3}
  Key = {k1}
  NoKey = NoKey
  NoOrder = NoOrder
  Nobody = Nobody
  Amount = {2}
  Rate = {2}
  Load = {"adjust", "sale", "EARN"}
  MaxRequests = 3
  MaxAttempts = 2
SPECIFICATION FairSpec
INVARIANTS
  NoWaitCycle
  KeysApplyOnce
PROPERTY
  EveryRequestEnds
CHECK_DEADLOCK FALSE
