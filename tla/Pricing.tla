------------------------------ MODULE Pricing ------------------------------
(***************************************************************************)
(* The money rules of a sale, as pure operators: lines, modifiers and      *)
(* combos (orders.service.ts insert, modifiers.ts, combos.ts), coupons     *)
(* (marketing.service.ts) and loyalty points (loyalty.rules.ts).  Nothing  *)
(* here reads the database; callers pass what they read.  Money is in      *)
(* minor units, rates in basis points.                                     *)
(***************************************************************************)
EXTENDS Integers, Sequences, FiniteSetsExt

CONSTANT None    \* null

\* The rows the rules read: coupons with an amount or a share (CHECK
\* coupons_value_shape), loyalty_settings.
CouponRow == [percent : Nat \cup {None}, amount : Nat, cap : Nat \cup {None},
              floor : Nat, limit : (Nat \ {0}) \cup {None},
              from : Nat \cup {None}, until : Nat \cup {None}]
ConfigRow == [enabled : BOOLEAN, earnAmount : Int, earnPoints : Int,
              redeemPoints : Int, redeemAmount : Int, minimum : Int,
              maximum : Int \cup {None}]

\* Math.round() of a non-negative fraction.
Nearest(a, b) == (2 * a + b) \div (2 * b)

\* Math.ceil() of a fraction.
Ceiling(a, b) == -((-a) \div b)

Larger(a, b) == IF a < b THEN b ELSE a
Smaller(a, b) == IF a < b THEN a ELSE b

(***************************************************************************)
(* Lines                                                                   *)
(***************************************************************************)

\* The options of a group that were chosen.
ChosenOf(group, chosen) == Range(chosen) \cap DOMAIN group.options

\* resolveModifierSelection(): no option twice, none that is not offered, and
\* each group that offers any has as many as it asks for.
SelectionAllowed(groups, chosen) ==
  /\ IsInjective(chosen)
  /\ Range(chosen) \subseteq UNION {DOMAIN g.options : g \in groups}
  /\ \A g \in groups :
       DOMAIN g.options # {} => Cardinality(ChosenOf(g, chosen)) \in g.min .. g.max

\* ... and what the chosen options add to the price of one unit.
PerUnitAdjust(groups, chosen) ==
  MapThenSumSet(LAMBDA g : MapThenSumSet(LAMBDA o : g.options[o], ChosenOf(g, chosen)),
                groups)

\* A product line, or a combo line with the states of its components.
LineAllowed(line) ==
  IF line.combo # None THEN line.combo # {} /\ line.combo \subseteq {"active"}
  ELSE SelectionAllowed(line.groups, line.chosen)

\* buildComboLine(): a combo has its own price.
UnitPrice(line) ==
  IF line.combo # None THEN line.price
  ELSE line.price + PerUnitAdjust(line.groups, line.chosen)

LineTotal(line) == UnitPrice(line) * line.quantity

LineTax(line) == Nearest(LineTotal(line) * line.rate, 10000)

Subtotal(lines) == FoldFunction(+, 0, [i \in DOMAIN lines |-> LineTotal(lines[i])])
TaxTotal(lines) == FoldFunction(+, 0, [i \in DOMAIN lines |-> LineTax(lines[i])])

(***************************************************************************)
(* Coupons                                                                 *)
(***************************************************************************)

\* The last use is given away once more.
MutantCouponUsable(c, active, now, subtotal, used) ==
  active /\ (c.limit # None => used <= c.limit)

\* validateAndComputeDiscount(), the refusals; used is the number of
\* redemptions that could be counted.
CouponUsable(c, active, now, subtotal, used) ==
  /\ active
  /\ c.from # None => c.from <= now
  /\ c.until # None => now <= c.until
  /\ subtotal >= c.floor
  /\ c.limit # None => used < c.limit

\* ... and the discount: a share of the subtotal or an amount, at most the cap
\* and at most the subtotal.
CouponDiscount(c, subtotal) ==
  LET off == IF c.percent # None THEN (subtotal * c.percent) \div 10000 ELSE c.amount
      capped == IF c.cap = None THEN off ELSE Smaller(off, c.cap)
  IN Smaller(capped, subtotal)

(***************************************************************************)
(* Loyalty points                                                          *)
(***************************************************************************)

\* pointsForOrder(): points follow the value without tax, rounded down.
PointsFor(subtotal, discount, c) ==
  IF c.enabled /\ subtotal > discount
  THEN ((subtotal - discount) * c.earnPoints) \div c.earnAmount
  ELSE 0

Worth(points, c) == (points \div c.redeemPoints) * c.redeemAmount

\* redemptionFor(), the refusals.
RedemptionAllowed(points, subtotal, c) ==
  /\ c.enabled
  /\ points > 0 /\ points % c.redeemPoints = 0
  /\ points >= c.minimum
  /\ c.maximum # None => points <= c.maximum
  /\ Worth(points, c) \in 1 .. subtotal

\* The smallest block, whatever the least redemption is.
MutantRewardPoints(c) == c.redeemPoints

\* The least number of points that makes a valid redemption.
RewardPoints(c) ==
  Ceiling(Larger(c.redeemPoints, c.minimum), c.redeemPoints) * c.redeemPoints

\* availableReward(): what the till offers to a customer with this balance.
AvailableReward(balance, c) ==
  LET points == RewardPoints(c)
  IN IF /\ c.enabled
        /\ balance >= points
        /\ c.maximum # None => points <= c.maximum
        /\ Worth(points, c) > 0
     THEN [points |-> points, discount |-> Worth(points, c)]
     ELSE None

\* validateConfig(): the configurations an owner can save.
ConfigAllowed(c) ==
  /\ c.earnAmount > 0 /\ c.earnPoints > 0 /\ c.redeemPoints > 0
  /\ c.redeemAmount >= 0 /\ c.minimum >= 0
  /\ c.earnPoints <= c.earnAmount
  /\ c.redeemAmount <= c.redeemPoints * 10000
  /\ c.minimum % c.redeemPoints = 0
  /\ c.maximum # None =>
       c.maximum >= c.minimum /\ c.maximum % c.redeemPoints = 0

\* TIERS: bronze, silver, gold and platinum begin here.
Tiers == <<0, 1000, 5000, 20000>>

\* tierFor(): the last tier whose threshold is reached.
TierFor(lifetime) == Max({1} \cup {t \in DOMAIN Tiers : Tiers[t] <= lifetime})

\* nextTierFor(): the first tier whose threshold is not.
NextTierFor(lifetime) ==
  LET above == {t \in DOMAIN Tiers : Tiers[t] > lifetime}
  IN IF above = {} THEN None ELSE Min(above)

(***************************************************************************)
(* The sale                                                                *)
(***************************************************************************)

\* Whatever the cashier keys in.
MutantManualDiscount(amount, subtotal) == amount

\* A discount the cashier keys in, up to the subtotal.
ManualDiscount(amount, subtotal) == IF amount <= subtotal THEN amount ELSE None

\* insert(): the discount a draft asks for, or None when it is refused.
Discount(draft, subtotal, coupon, active, now, used, config) ==
  CASE draft.offer = "coupon" ->
         IF /\ CouponUsable(coupon, active, now, subtotal, used)
            /\ CouponDiscount(coupon, subtotal) > 0
         THEN CouponDiscount(coupon, subtotal) ELSE None
    [] draft.offer = "manual" -> ManualDiscount(draft.amount, subtotal)
    [] draft.offer = "points" ->
         IF RedemptionAllowed(draft.amount, subtotal, config)
         THEN Worth(draft.amount, config) ELSE None
    [] OTHER -> 0

=============================================================================
