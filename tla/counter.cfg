CONSTANTS
  None = None
  small = small
  large = large
  sauce = sauce
  Worker = {w1, w2}
  Draft <- MCDraft
  Coupon <- MCCoupon
  Config <- MCConfig
  DefaultConfig <- MCDefault
  Tender = {7}
  Float = {3}
  Balance <- MCBalance
  Load = {"sale", "payment", "refund", "drawer", "coupon", "settings"}
  MaxSessions = 2
  MaxTime = 9
  MaxRequests = 5
  MaxAttempts = 2
SPECIFICATION Spec
SYMMETRY Crew
INVARIANTS
  TypeOK
  QuietClosingsReprint
  OveruseIsBounded
  OfferedRewardsApply
CHECK_DEADLOCK FALSE
