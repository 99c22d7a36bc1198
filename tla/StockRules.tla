----------------------------- MODULE StockRules -----------------------------
(***************************************************************************)
(* The stock arithmetic the services call: prep.ts and stock-count.ts.     *)
(* Nothing here reads the database; callers pass what they read.           *)
(***************************************************************************)
EXTENDS Integers, FiniteSetsExt

\* Math.round() of a non-negative fraction.
Rounded(a, b) == (2 * a + b) \div (2 * b)

\* scaleComponents(): what a batch of the planned size consumes; a component
\* that rounds to nothing is dropped by its zero.
Scaled(needs, yield, planned) ==
  [i \in DOMAIN needs |-> Rounded(needs[i] * planned, yield)]

\* Short is only what there is none of.
MutantShort(uses, stock) == {i \in DOMAIN uses : uses[i] > 0 /\ stock[i] <= 0}

\* findShortfalls(): the items a batch would take more of than there is.
Short(uses, stock) == {i \in DOMAIN uses : uses[i] > 0 /\ stock[i] < uses[i]}

\* A batch may be drawn: something is left and it is not expired.
Live(b, now) == b.left > 0 /\ b.expires > now

\* First in, first out.
MutantSooner(batches, a, b) == a < b

\* Expiring sooner, or as soon and prepared before.  Batches are numbered in
\* the order they were prepared.
Sooner(batches, a, b) ==
  \/ batches[a].expires < batches[b].expires
  \/ batches[a].expires = batches[b].expires /\ a < b

LiveBatches(batches, dish, now) ==
  {b \in DOMAIN batches : batches[b].dish = dish /\ Live(batches[b], now)}

\* x, kept between 0 and hi.
Between(x, hi) == IF x \in 0 .. hi THEN x ELSE IF x <= 0 THEN 0 ELSE hi

\* allocateFefo(): each live batch gives, up to what it has left, what the
\* sooner ones cannot; what none can give is in no batch.
Drawn(batches, need, now) ==
  [b \in DOMAIN batches |->
     LET dish == batches[b].dish
         live == LiveBatches(batches, dish, now)
         sooner == {a \in live : Sooner(batches, a, b)}
     IN IF b \notin live THEN 0
        ELSE Between(need[dish] - MapThenSumSet(LAMBDA a : batches[a].left, sooner),
                     batches[b].left)]

\* The correction is taken against what the counter saw at the start.
MutantDifference(counted, seen, live) == counted - seen

\* reconcileCount(): what to book so that live stock becomes what was counted.
Difference(counted, seen, live) == counted - live

=============================================================================
