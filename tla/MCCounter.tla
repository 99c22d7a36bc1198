----------------------------- MODULE MCCounter -----------------------------
(* Instances of Counter for TLC. *)
EXTENDS Counter, TLC

CONSTANTS small, large, sauce

\* A size must be chosen, a sauce may be.
MCGroups ==
  {[min |-> 1, max |-> 1, options |-> (small :> 0) @@ (large :> 20)],
   [min |-> 0, max |-> 2, options |-> (sauce :> 5)]}

Product(chosen) == [combo |-> None, price |-> 100, rate |-> 550, quantity |-> 2,
                    groups |-> MCGroups, chosen |-> chosen]
Meal(parts) == [combo |-> parts, price |-> 90, rate |-> 500, quantity |-> 1,
                groups |-> {}, chosen |-> <<>>]

Sold(lines, offer, amount, paid) ==
  [lines |-> lines, offer |-> offer, amount |-> amount, paid |-> paid]

\* A sale with the coupon, one with points, one with a discount that is too
\* large, and lines that may not be sold.
MCDraft ==
  {Sold(<<Product(<<large, sauce>>)>>, "coupon", 0, "CASH"),
   Sold(<<Product(<<small>>), Meal({"active"})>>, "points", 4, None),
   Sold(<<Meal({"active"})>>, "manual", 100, "OTHER"),
   Sold(<<Product(<<sauce>>)>>, "none", 0, "CASH"),
   Sold(<<Meal({"active", "inactive"})>>, "none", 0, "CASH")}

\* Ten percent off, at most 20, once.
MCCoupon == [percent |-> 1000, amount |-> 0, cap |-> 20, floor |-> 100, limit |-> 1,
             from |-> None, until |-> MaxTime]

Rate(block, worth, least, most) ==
  [enabled |-> TRUE, earnAmount |-> 10, earnPoints |-> 1, redeemPoints |-> block,
   redeemAmount |-> worth, minimum |-> least, maximum |-> most]

MCDefault == Rate(1, 10, 0, None)
\* Blocks of two from four on; the last two cannot be saved.
MCConfig == {MCDefault, Rate(2, 5, 4, 6), [MCDefault EXCEPT !.enabled = FALSE],
             Rate(2, 5, 3, None), Rate(3, 5, 6, 3)}

MCBalance == {-1, 0, 1, 3, 4, 7}

Crew == Permutations(Worker)
=============================================================================
