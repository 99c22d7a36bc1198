--------------------------- MODULE CounterProofs ---------------------------
(***************************************************************************)
(* Theorems about the counter: what the money rules return, what           *)
(* concurrent sales can do to a coupon, and what becomes of the drawer's   *)
(* books once it is closed.                                                *)
(***************************************************************************)
EXTENDS Counter, SumLemmas, SequenceTheorems

-----------------------------------------------------------------------------
(***************************************************************************)
(* The money rules                                                         *)
(***************************************************************************)

\* A usable coupon never takes more off than the subtotal.
LEMMA CouponWithin ==
  ASSUME NEW c \in CouponRow, NEW subtotal \in Nat
  PROVE  CouponDiscount(c, subtotal) \in 0 .. subtotal
<1> DEFINE off == IF c.percent # None THEN (subtotal * c.percent) \div 10000 ELSE c.amount
<1>1. c.percent # None => (subtotal * c.percent) \div 10000 \in Nat
  <2>1. ASSUME NEW n \in Nat PROVE n \div 10000 \in Nat
    BY SMT
  <2>2. c.percent # None => subtotal * c.percent \in Nat
    BY DEF CouponRow
  <2> QED BY <2>1, <2>2
<1>2. off \in Nat
  BY <1>1 DEF CouponRow
<1>3. c.cap # None => c.cap \in Nat
  BY DEF CouponRow
<1> HIDE DEF off
<1>4. (IF c.cap = None THEN off ELSE Smaller(off, c.cap)) \in Nat
  BY <1>2, <1>3 DEF Smaller
<1>5. CouponDiscount(c, subtotal) =
        Smaller(IF c.cap = None THEN off ELSE Smaller(off, c.cap), subtotal)
  BY DEF CouponDiscount, off
<1> QED BY <1>4, <1>5 DEF Smaller

\* Whatever discount a draft asks for, what create() grants stays between
\* nothing and the subtotal (orders CHECK discount_minor <= subtotal_minor).
LEMMA DiscountWithin ==
  ASSUME NEW draft, draft.amount \in Nat, NEW subtotal \in Nat, NEW c \in CouponRow,
         NEW on, NEW time, NEW used, NEW settings,
         Discount(draft, subtotal, c, on, time, used, settings) # None
  PROVE  Discount(draft, subtotal, c, on, time, used, settings) \in 0 .. subtotal
<1>1. CASE draft.offer = "coupon"
  BY <1>1, CouponWithin DEF Discount
<1>2. CASE draft.offer = "manual"
  BY <1>2 DEF Discount, ManualDiscount
<1>3. CASE draft.offer = "points"
  BY <1>3 DEF Discount, RedemptionAllowed
<1>4. CASE draft.offer \notin {"coupon", "manual", "points"}
  BY <1>4 DEF Discount
<1> QED BY <1>1, <1>2, <1>3, <1>4

\* A multiple is rounded up to itself.
LEMMA CeilingOfMultiple ==
  ASSUME NEW r \in Nat \ {0}, NEW x \in Nat, x % r = 0
  PROVE  Ceiling(x, r) * r = x
<1> DEFINE q == x \div r
<1>1. q \in Int /\ x = (r * q) + (x % r)
  BY SMT
<1>2. x = r * q
  BY <1>1
<1>3. (-x) \div r = -q
  BY <1>1, <1>2, SMT
<1> QED BY <1>1, <1>2, <1>3, SMT DEF Ceiling

\* The points the till offers are the least that a redemption may have.
LEMMA RewardIsTheLeast ==
  ASSUME NEW c \in ConfigRow, ConfigAllowed(c)
  PROVE  RewardPoints(c) = Larger(c.redeemPoints, c.minimum)
<1> DEFINE r == c.redeemPoints
           least == Larger(c.redeemPoints, c.minimum)
<1>1. r \in Nat \ {0} /\ c.minimum \in Nat /\ c.minimum % r = 0
  BY DEF ConfigRow, ConfigAllowed
<1>2. r % r = 0
  BY <1>1, SMT
<1>3. least \in Nat /\ least % r = 0
  BY <1>1, <1>2 DEF Larger
<1>4. Ceiling(least, r) * r = least
  BY <1>1, <1>3, CeilingOfMultiple
<1> QED BY <1>4 DEF RewardPoints

\* What availableReward() offers is what redemptionFor() accepts: the two
\* functions round, bound and price alike, for every configuration an owner
\* can save and every balance.
LEMMA RewardIsAccepted ==
  ASSUME NEW c \in ConfigRow, ConfigAllowed(c), NEW b \in Int,
         NEW reward, reward = AvailableReward(b, c), reward # None
  PROVE  /\ reward.points <= b
         /\ RedemptionAllowed(reward.points, reward.discount, c)
         /\ Worth(reward.points, c) = reward.discount
         /\ \A p \in 1 .. reward.points - 1 : ~RedemptionAllowed(p, reward.discount, c)
<1> DEFINE r == c.redeemPoints
           n == RewardPoints(c)
<1>1. r \in Nat \ {0} /\ c.minimum \in Nat /\ c.minimum % r = 0 /\ c.redeemAmount \in Nat
  BY DEF ConfigRow, ConfigAllowed
<1>2. n = Larger(r, c.minimum)
  BY RewardIsTheLeast
<1>3. r % r = 0
  BY <1>1, SMT
<1>4. n \in Nat /\ n > 0 /\ n % r = 0 /\ n >= c.minimum
  BY <1>1, <1>2, <1>3 DEF Larger
<1>5. /\ reward = [points |-> n, discount |-> Worth(n, c)]
      /\ c.enabled /\ b >= n /\ Worth(n, c) > 0
      /\ c.maximum # None => n <= c.maximum
  BY DEF AvailableReward
<1>6. Worth(n, c) \in Int
  <2>1. n \div r \in Int
    BY <1>1, <1>4, SMT
  <2> QED BY <2>1, <1>1 DEF Worth
<1>7. \A p \in 1 .. n - 1 : ~RedemptionAllowed(p, reward.discount, c)
  <2> SUFFICES ASSUME NEW p \in 1 .. n - 1, p % r = 0, p >= c.minimum
               PROVE  FALSE
    BY DEF RedemptionAllowed
  <2>1. n = r /\ p \in 1 .. r - 1
    BY <1>1, <1>2, <1>4 DEF Larger
  <2>2. p % r = p
    BY <2>1, <1>1, SMT
  <2> QED BY <2>1, <2>2
<1> HIDE DEF n
<1>8. reward.points = n /\ reward.discount = Worth(n, c)
  BY <1>5
<1>9. Worth(n, c) \in 1 .. Worth(n, c)
  BY <1>5, <1>6
<1> QED BY <1>1, <1>4, <1>5, <1>7, <1>8, <1>9 DEF RedemptionAllowed

\* "Never lets points outrun the value that earned them"
\* (loyalty.rules.ts:71): the points of an order are the most whole points its
\* net value pays for, and never more than its minor units.
LEMMA PointsFollowValue ==
  ASSUME NEW c \in ConfigRow, ConfigAllowed(c), c.enabled,
         NEW subtotal \in Nat, NEW discount \in 0 .. subtotal
  PROVE  LET net == subtotal - discount
             points == PointsFor(subtotal, discount, c)
         IN /\ points \in Nat
            /\ points * c.earnAmount <= net * c.earnPoints
            /\ net * c.earnPoints < (points + 1) * c.earnAmount
            /\ points <= net
<1> DEFINE net == subtotal - discount
           a == c.earnAmount
           e == c.earnPoints
           points == PointsFor(subtotal, discount, c)
<1>1. a \in Nat \ {0} /\ e \in Nat \ {0} /\ e <= a /\ net \in Nat
  BY DEF ConfigRow, ConfigAllowed
<1>2. CASE net = 0
  <2>1. points = 0
    BY <1>2 DEF PointsFor
  <2> QED BY <1>1, <1>2, <2>1
<1>3. CASE net > 0
  <2> DEFINE value == net * e
  <2>1. points = value \div a
    BY <1>3 DEF PointsFor
  <2>2. value \in Nat
    BY <1>1
  <2> HIDE DEF value
  <2>3. /\ value \div a \in Nat
        /\ (value \div a) * a <= value
        /\ value < ((value \div a) + 1) * a
    BY <1>1, <2>2, SMT
  <2>4. value <= net * a
    BY <1>1 DEF value
  <2>5. value \div a <= net
    BY <1>1, <2>2, <2>3, <2>4, SMT
  <2> QED BY <2>1, <2>3, <2>5 DEF value
<1> QED BY <1>1, <1>2, <1>3

-----------------------------------------------------------------------------
(***************************************************************************)
(* Sales                                                                   *)
(***************************************************************************)

\* The part of TypeOK that is about sales and rows of money.
SalesOK ==
  /\ orders \in Nat /\ redeemed \in Nat /\ now \in Time
  /\ payments \subseteq Row /\ refunds \subseteq Row
  /\ req = [w \in Worker |-> req[w]]
  /\ \A w \in Worker :
       /\ req[w].pc \in {"price", "number", "insert", "inserted"} => req[w] \in SaleRequest
       /\ req[w].pc = "row" => req[w] \in RowRequest

\* Replacing one worker's request by one of a proper type, or by one that is
\* not about sales, keeps the requests typed.
LEMMA RequestsStayTyped ==
  ASSUME SalesOK, NEW w \in Worker, NEW r, req' = [req EXCEPT ![w] = r],
         r.pc \in {"price", "number", "insert", "inserted"} => r \in SaleRequest,
         r.pc = "row" => r \in RowRequest
  PROVE  /\ req' = [v \in Worker |-> req'[v]]
         /\ \A v \in Worker :
              /\ req'[v].pc \in {"price", "number", "insert", "inserted"}
                   => req'[v] \in SaleRequest
              /\ req'[v].pc = "row" => req'[v] \in RowRequest
<1>1. req' = [v \in Worker |-> IF v = w THEN r ELSE req[v]]
  BY DEF SalesOK
<1> QED BY <1>1 DEF SalesOK

\* What create() asks for is a natural number: the discount is within the
\* subtotal.
LEMMA TotalIsNatural ==
  ASSUME NEW d \in Draft, PricedTotal(d) # None
  PROVE  PricedTotal(d) \in Nat
<1> DEFINE subtotal == Subtotal(d.lines)
           off == Discount(d, subtotal, Coupon, active, now, redeemed, config)
<1>1. subtotal \in Nat /\ TaxTotal(d.lines) \in Nat /\ d.amount \in Nat /\ Coupon \in CouponRow
  BY CounterAssumption
<1>2. off # None /\ PricedTotal(d) = subtotal - off + TaxTotal(d.lines)
  BY DEF PricedTotal
<1>3. off \in 0 .. subtotal
  BY <1>1, <1>2, DiscountWithin
<1> HIDE DEF subtotal, off
<1> QED BY <1>1, <1>2, <1>3

\* The empty counter is well formed.
LEMMA SalesOKInit == Init => SalesOK
BY CounterAssumption DEF Init, SalesOK, Idle, Time

\* A step that writes no row of money and keeps the request it works on typed.
LEMMA QuietStep ==
  ASSUME SalesOK, NEW w \in Worker, NEW r, req' = [req EXCEPT ![w] = r],
         r.pc \in {"price", "number", "insert", "inserted"} => r \in SaleRequest,
         r.pc = "row" => r \in RowRequest,
         orders' = orders, redeemed' = redeemed, UNCHANGED money, now' \in Time
  PROVE  SalesOK'
BY RequestsStayTyped DEF SalesOK, money

\* No request, at whatever point of its transaction, leaves the sales' tables or a sale's working values badly typed.
LEMMA SalesOKStep ==
  ASSUME SalesOK, [Next]_vars
  PROVE  SalesOK'
<1> USE CounterAssumption
<1> SUFFICES ASSUME NEW w \in Worker, Step(w) \/ Arrival(w)
             PROVE  SalesOK'
  BY DEF Next, SalesOK, vars
<1>0. /\ now \in Time /\ (Stamp => now' \in Time /\ now' \in Nat)
      /\ UNCHANGED now => now' \in Time
  BY DEF SalesOK, Stamp, Time
<1>1. CASE Abort(w) \/ SaleRefused(w) \/ OpenWrite(w) \/ MoveWrite(w)
  <2>1. req' = [req EXCEPT ![w] = Idle] /\ UNCHANGED <<orders, redeemed, payments, refunds, now>>
    BY <1>1 DEF Abort, SaleRefused, OpenWrite, MoveWrite, End, Goto, shop, money
  <2> QED BY <2>1, <1>0, QuietStep DEF Idle, money
<1>2. CASE CloseWrite(w)
  <2>1. /\ req' = [req EXCEPT ![w] = Idle] /\ UNCHANGED <<orders, redeemed, payments, refunds>>
        /\ Stamp
    BY <1>2 DEF CloseWrite, End, Goto, shop, money
  <2> QED BY <2>1, <1>0, QuietStep DEF Idle, money
<1>3. CASE SalePrice(w)
  <2> DEFINE r == [pc |-> "number", draft |-> req[w].draft, attempt |-> req[w].attempt,
                   total |-> PricedTotal(req[w].draft)]
  <2>1. req[w] \in SaleRequest /\ req[w].pc = "price" /\ PricedTotal(req[w].draft) # None
    BY <1>3 DEF SalePrice, SalesOK
  <2>2. req[w].draft \in Draft /\ req[w].attempt \in 0 .. MaxAttempts - 1
    BY <2>1 DEF SaleRequest
  <2>3. PricedTotal(req[w].draft) \in Nat
    BY <2>1, <2>2, TotalIsNatural
  <2>4. r \in SaleRequest
    BY <2>2, <2>3 DEF SaleRequest
  <2>5. req' = [req EXCEPT ![w] = r] /\ UNCHANGED <<orders, redeemed, payments, refunds, now>>
    BY <1>3 DEF SalePrice, Goto, shop, money
  <2> QED BY <2>4, <2>5, <1>0, QuietStep DEF money
<1>4. CASE SaleNumber(w)
  <2> DEFINE r == [pc |-> "insert", draft |-> req[w].draft, attempt |-> req[w].attempt,
                   total |-> req[w].total, number |-> orders + 1]
  <2>1. req[w] \in SaleRequest /\ req[w].pc = "number" /\ orders \in Nat
    BY <1>4 DEF SaleNumber, SalesOK
  <2>2. r \in SaleRequest
    BY <2>1 DEF SaleRequest
  <2>3. req' = [req EXCEPT ![w] = r] /\ UNCHANGED <<orders, redeemed, payments, refunds, now>>
    BY <1>4 DEF SaleNumber, Goto, shop, money
  <2> QED BY <2>2, <2>3, <1>0, QuietStep DEF money
<1>5. CASE SaleInsert(w)
  <2> DEFINE r == [pc |-> "inserted", draft |-> req[w].draft, attempt |-> req[w].attempt,
                   total |-> req[w].total, number |-> req[w].number, at |-> now']
  <2>1. req[w] \in SaleRequest /\ req[w].pc = "insert" /\ now' \in Time
    BY <1>5, <1>0 DEF SaleInsert, SalesOK
  <2>2. r \in SaleRequest
    BY <2>1 DEF SaleRequest
  <2>3. req' = [req EXCEPT ![w] = r] /\ UNCHANGED <<orders, redeemed, payments, refunds>>
    BY <1>5 DEF SaleInsert, Goto, shop, money
  <2> QED BY <2>1, <2>2, <2>3, QuietStep DEF money
<1>6. CASE SaleRetry(w)
  <2> DEFINE r == IF req[w].attempt + 1 < MaxAttempts
                  THEN [pc |-> "price", draft |-> req[w].draft, attempt |-> req[w].attempt + 1]
                  ELSE Idle
  <2>1. req[w] \in SaleRequest /\ req[w].pc = "insert"
    BY <1>6 DEF SaleRetry, SalesOK
  <2>2. req[w].draft \in Draft /\ req[w].attempt \in 0 .. MaxAttempts - 1
    BY <2>1 DEF SaleRequest
  <2>3. r.pc \in {"price", "idle"} /\ (r.pc = "price" => r \in SaleRequest)
    BY <2>2 DEF SaleRequest, Idle
  <2>4. req' = [req EXCEPT ![w] = r] /\ UNCHANGED <<orders, redeemed, payments, refunds, now>>
    BY <1>6 DEF SaleRetry, End, Goto, shop, money
  <2> HIDE DEF r
  <2> QED BY <2>3, <2>4, <1>0, QuietStep DEF money
<1>7. CASE SaleCommit(w)
  <2>1. req[w] \in SaleRequest /\ req[w].pc = "inserted"
    BY <1>7 DEF SaleCommit, SalesOK
  <2>2. /\ req[w].draft \in Draft /\ req[w].total \in Nat /\ req[w].number \in Nat
        /\ req[w].at \in Time
    BY <2>1 DEF SaleRequest
  <2>3. req[w].draft.paid # None =>
          [at |-> req[w].at, method |-> req[w].draft.paid, amount |-> req[w].total] \in Row
    BY <2>2 DEF Row
  <2>4. payments' \subseteq Row
    BY <1>7, <2>3 DEF SaleCommit, SalesOK
  <2>5. req' = [req EXCEPT ![w] = Idle] /\ UNCHANGED <<refunds, now>>
    BY <1>7 DEF SaleCommit, End, Goto
  <2>6. orders' \in Nat /\ redeemed' \in Nat
    BY <1>7, <2>2 DEF SaleCommit, SalesOK
  <2> QED BY <2>4, <2>5, <2>6, RequestsStayTyped DEF SalesOK, Idle
<1>8. CASE TenderCommit(w)
  <2>1. req[w].row \in Row
    BY <1>8 DEF TenderCommit, SalesOK, RowRequest
  <2>2. payments' \subseteq Row /\ refunds' \subseteq Row
    BY <1>8, <2>1 DEF TenderCommit, SalesOK
  <2>3. req' = [req EXCEPT ![w] = Idle] /\ UNCHANGED <<orders, redeemed, now>>
    BY <1>8 DEF TenderCommit, End, Goto, shop
  <2> QED BY <2>2, <2>3, RequestsStayTyped DEF SalesOK, Idle
<1>9. CASE \E d \in Draft : SaleArrive(w, d)
  <2> PICK d \in Draft : SaleArrive(w, d)
    BY <1>9
  <2> DEFINE r == [pc |-> "price", draft |-> d, attempt |-> 0]
  <2>1. r \in SaleRequest
    BY DEF SaleRequest
  <2>2. req' = [req EXCEPT ![w] = r] /\ UNCHANGED <<orders, redeemed, payments, refunds, now>>
    BY DEF SaleArrive, Arrive, shop, money
  <2> QED BY <2>1, <2>2, <1>0, QuietStep DEF money
<1>10. CASE SetCouponActive(w) \/ \E c \in Config : UpdateSettings(w, c)
  BY <1>10 DEF SetCouponActive, UpdateSettings, SalesOK, money
<1>11. CASE \E refund \in BOOLEAN, m \in Method, a \in Tender :
              Tendered(w, refund, [at |-> now + 1, method |-> m, amount |-> a])
  <2> PICK refund \in BOOLEAN, m \in Method, a \in Tender :
             Tendered(w, refund, [at |-> now + 1, method |-> m, amount |-> a])
    BY <1>11
  <2> DEFINE r == [pc |-> "row", refund |-> refund,
                   row |-> [at |-> now + 1, method |-> m, amount |-> a]]
  <2>1. Stamp /\ now + 1 \in Time
    BY <1>0 DEF Tendered, Stamp
  <2>2. r \in RowRequest
    BY <2>1 DEF RowRequest, Row
  <2>3. req' = [req EXCEPT ![w] = r] /\ UNCHANGED <<orders, redeemed, payments, refunds>>
    BY DEF Tendered, Arrive, shop, money
  <2> QED BY <2>1, <2>2, <2>3, <1>0, QuietStep DEF money
<1>12. CASE \E f \in Float : Open(w, f)
  <2> PICK f \in Float : Open(w, f)
    BY <1>12
  <2>1. /\ req' = [req EXCEPT ![w] = [pc |-> "open", float |-> f, at |-> now']]
        /\ UNCHANGED <<orders, redeemed, payments, refunds>> /\ Stamp
    BY DEF Open, Arrive, shop, money
  <2> QED BY <2>1, <1>0, QuietStep DEF money
<1>13. CASE \E s \in Session, a \in Tender : Move(w, s, a) \/ Move(w, s, -a)
  <2> PICK s \in Session, a \in Int : Move(w, s, a)
    BY <1>13
  <2>1. /\ req' = [req EXCEPT ![w] = [pc |-> "move", session |-> s, amount |-> a]]
        /\ UNCHANGED <<orders, redeemed, payments, refunds, now>>
    BY DEF Move, Arrive, shop, money
  <2> QED BY <2>1, <1>0, QuietStep DEF money
<1>14. CASE \E s \in Session, a \in Tender : Close(w, s, a)
  <2> PICK s \in Session, a \in Tender : Close(w, s, a)
    BY <1>14
  <2>1. /\ req' = [req EXCEPT ![w] = [pc |-> "close", session |-> s, counted |-> a,
                                      expected |-> Settlement(s, now')]]
        /\ UNCHANGED <<orders, redeemed, payments, refunds>> /\ Stamp
    BY DEF Close, Arrive, shop, money
  <2> QED BY <2>1, <1>0, QuietStep DEF money
<1> QED BY <1>1, <1>2, <1>3, <1>4, <1>5, <1>6, <1>7, <1>8, <1>9, <1>10, <1>11, <1>12,
           <1>13, <1>14 DEF Step, Arrival

\* Every stored row, request and amount of a sale has its type, whatever the
\* drafts, the coupon, the configurations and the number of tills: no sale is
\* ever charged a negative total.
THEOREM SalesTyping == Spec => []SalesOK
<1>1. SalesOK /\ [Next]_vars => SalesOK'
  BY SalesOKStep
<1> QED BY <1>1, SalesOKInit, PTL DEF Spec

-----------------------------------------------------------------------------
(***************************************************************************)
(* The coupon                                                              *)
(***************************************************************************)

\* A sale that found the coupon usable and has not ended yet.
HasCounted(r) == r.pc \in {"number", "insert", "inserted"} /\ r.draft.offer = "coupon"
Counting == {w \in Worker : HasCounted(req[w])}

\* The strengthening: redemptions and those under way together.
Reserved ==
  Coupon.limit # None =>
    redeemed + Cardinality(Counting) < Coupon.limit + Cardinality(Worker)

\* The sales that have counted a coupon and not committed are at most the requests in flight.
LEMMA CountingIsFinite ==
  /\ IsFiniteSet(Counting) /\ Cardinality(Counting) \in Nat
  /\ Cardinality(Worker) \in Nat /\ Cardinality(Counting) <= Cardinality(Worker)
<1>1. Counting \in SUBSET Worker
  BY DEF Counting
<1> QED BY <1>1, CounterAssumption, FS_Subset, FS_CardinalityType

\* Before any sale nothing is redeemed and nobody has counted.
LEMMA ReservedInit == Init => Reserved
<1> SUFFICES ASSUME Init PROVE Reserved
  OBVIOUS
<1>1. Counting = {}
  BY DEF Init, Counting, HasCounted, Idle
<1>2. Cardinality(Counting) = 0
  BY <1>1, FS_EmptySet
<1>3. Coupon.limit # None => Coupon.limit \in Nat \ {0}
  BY CounterAssumption DEF CouponRow
<1> QED BY <1>2, <1>3, CountingIsFinite DEF Init, Reserved

\* A step of a request that does not count the coupon leaves what is reserved.
LEMMA ReservedShrinks ==
  ASSUME SalesOK, Reserved, redeemed' = redeemed, Counting' \in SUBSET Counting
  PROVE  Reserved'
<1>1. Cardinality(Counting') <= Cardinality(Counting) /\ Cardinality(Counting') \in Nat
  BY CountingIsFinite, FS_Subset, FS_CardinalityType
<1>2. Coupon.limit # None => Coupon.limit \in Nat \ {0}
  BY CounterAssumption DEF CouponRow
<1> QED BY <1>1, <1>2, CountingIsFinite DEF Reserved, SalesOK

\* How the set of sales that have counted changes when one request moves.
LEMMA CountingChange ==
  ASSUME SalesOK, NEW w \in Worker, NEW r, req' = [req EXCEPT ![w] = r]
  PROVE  /\ HasCounted(r) => HasCounted(req[w]) \/ w \in Counting'
         /\ (HasCounted(r) => HasCounted(req[w])) => Counting' \in SUBSET Counting
         /\ ~HasCounted(r) => Counting' = Counting \ {w}
<1>1. req' = [v \in Worker |-> IF v = w THEN r ELSE req[v]]
  BY DEF SalesOK
<1>2. \A v \in Worker : HasCounted(req'[v]) <=> IF v = w THEN HasCounted(r) ELSE HasCounted(req[v])
  BY <1>1
<1>3. Counting' = {v \in Worker : HasCounted(req'[v])}
  BY DEF Counting, HasCounted
<1> QED BY <1>2, <1>3 DEF Counting

\* A request that moves to a point where nothing is counted adds nobody to that set.
LEMMA Uncounted ==
  ASSUME SalesOK, NEW w \in Worker, NEW r, req' = [req EXCEPT ![w] = r],
         r.pc \notin {"number", "insert", "inserted"}
  PROVE  Counting' \in SUBSET Counting
<1>1. ~HasCounted(r)
  BY DEF HasCounted
<1> QED BY <1>1, CountingChange

\* What is redeemed plus what is counted stays within the limit plus the requests in flight: the inductive step behind OveruseBound.
LEMMA ReservedStep ==
  ASSUME SalesOK, Reserved, [Next]_vars
  PROVE  Reserved'
<1> USE CounterAssumption
<1>0. Coupon.limit # None => Coupon.limit \in Nat \ {0}
  BY DEF CouponRow
<1>1. CASE UNCHANGED vars
  BY <1>1 DEF vars, Reserved, Counting, HasCounted
<1> SUFFICES ASSUME NEW w \in Worker, Step(w) \/ Arrival(w)
             PROVE  Reserved'
  BY <1>1 DEF Next
<1>2. CASE SalePrice(w)
  <2>1. PricedTotal(req[w].draft) # None /\ redeemed' = redeemed
    BY <1>2 DEF SalePrice, shop
  <2> DEFINE r == [pc |-> "number", draft |-> req[w].draft, attempt |-> req[w].attempt,
                   total |-> PricedTotal(req[w].draft)]
  <2>2. req' = [req EXCEPT ![w] = r]
    BY <1>2 DEF SalePrice, Goto
  <2>3. CASE req[w].draft.offer = "coupon"
    <3>1. Discount(req[w].draft, Subtotal(req[w].draft.lines), Coupon, active, now,
                   redeemed, config) # None
      BY <2>1 DEF PricedTotal
    <3>2. CouponUsable(Coupon, active, now, Subtotal(req[w].draft.lines), redeemed)
      BY <2>3, <3>1 DEF Discount
    <3>3. Coupon.limit # None => redeemed < Coupon.limit
      BY <3>2 DEF CouponUsable
    <3>4. Cardinality(Counting') \in Nat /\ Cardinality(Counting') <= Cardinality(Worker)
      <4>1. Counting' \in SUBSET Worker
        BY DEF Counting
      <4> QED BY <4>1, FS_Subset, FS_CardinalityType
    <3> QED BY <3>3, <3>4, <2>1, <1>0, CountingIsFinite DEF Reserved, SalesOK
  <2>4. CASE req[w].draft.offer # "coupon"
    <3>1. ~HasCounted(r)
      BY <2>4 DEF HasCounted
    <3> HIDE DEF r
    <3>2. Counting' \in SUBSET Counting
      BY <2>2, <3>1, CountingChange
    <3> QED BY <3>2, <2>1, ReservedShrinks
  <2> QED BY <2>3, <2>4
<1>3. CASE SaleCommit(w)
  <2>1. req' = [req EXCEPT ![w] = Idle] /\ req[w].pc = "inserted"
    BY <1>3 DEF SaleCommit, End, Goto
  <2>2. ~HasCounted(Idle)
    BY DEF HasCounted, Idle
  <2>3. Counting' = Counting \ {w} /\ Counting' \in SUBSET Counting
    BY <2>1, <2>2, CountingChange
  <2>4. CASE req[w].draft.offer = "coupon"
    <3>1. w \in Counting
      BY <2>1, <2>4 DEF Counting, HasCounted
    <3>2. Cardinality(Counting') = Cardinality(Counting) - 1
      BY <2>3, <3>1, CountingIsFinite, FS_RemoveElement
    <3>3. redeemed' = redeemed + 1
      BY <1>3, <2>4 DEF SaleCommit
    <3> QED BY <3>2, <3>3, <1>0, CountingIsFinite DEF Reserved, SalesOK
  <2>5. CASE req[w].draft.offer # "coupon"
    BY <1>3, <2>3, <2>5, ReservedShrinks DEF SaleCommit
  <2> QED BY <2>4, <2>5
<1>4. CASE SaleNumber(w) \/ SaleInsert(w)
  <2> PICK r : /\ req' = [req EXCEPT ![w] = r]
               /\ r.draft = req[w].draft
               /\ req[w].pc \in {"number", "insert"}
    BY <1>4 DEF SaleNumber, SaleInsert, Goto
  <2>1. HasCounted(r) => HasCounted(req[w])
    BY DEF HasCounted
  <2>2. redeemed' = redeemed
    BY <1>4 DEF SaleNumber, SaleInsert, shop
  <2> QED BY <2>1, <2>2, CountingChange, ReservedShrinks
<1>5. CASE SetCouponActive(w) \/ \E c \in Config : UpdateSettings(w, c)
  BY <1>5 DEF SetCouponActive, UpdateSettings, Reserved, Counting, HasCounted
<1>6. CASE \/ Abort(w) \/ SaleRefused(w) \/ SaleRetry(w) \/ TenderCommit(w)
           \/ OpenWrite(w) \/ MoveWrite(w) \/ CloseWrite(w)
           \/ Arrival(w) /\ ~SetCouponActive(w) /\ ~\E c \in Config : UpdateSettings(w, c)
  <2>1. redeemed' = redeemed
    BY <1>6 DEF Abort, SaleRefused, SaleRetry, TenderCommit, OpenWrite, MoveWrite, CloseWrite,
                Arrival, SaleArrive, Tendered, Open, Move, Close, shop
  <2>2. CASE Abort(w) \/ SaleRefused(w) \/ TenderCommit(w) \/ OpenWrite(w) \/ MoveWrite(w)
             \/ CloseWrite(w)
    <3>1. req' = [req EXCEPT ![w] = Idle]
      BY <2>2 DEF Abort, SaleRefused, TenderCommit, OpenWrite, MoveWrite, CloseWrite, End, Goto
    <3> QED BY <3>1, <2>1, Uncounted, ReservedShrinks DEF Idle
  <2>3. CASE SaleRetry(w)
    <3> DEFINE r == IF req[w].attempt + 1 < MaxAttempts
                    THEN [pc |-> "price", draft |-> req[w].draft, attempt |-> req[w].attempt + 1]
                    ELSE Idle
    <3>1. r.pc \in {"price", "idle"} /\ req' = [req EXCEPT ![w] = r]
      BY <2>3 DEF SaleRetry, End, Goto, Idle
    <3> HIDE DEF r
    <3> QED BY <3>1, <2>1, Uncounted, ReservedShrinks
  <2>4. CASE \E d \in Draft : SaleArrive(w, d)
    <3> PICK d \in Draft : SaleArrive(w, d)
      BY <2>4
    <3>1. req' = [req EXCEPT ![w] = [pc |-> "price", draft |-> d, attempt |-> 0]]
      BY DEF SaleArrive, Arrive
    <3> QED BY <3>1, <2>1, Uncounted, ReservedShrinks
  <2>5. CASE \E refund \in BOOLEAN, m \in Method, a \in Tender :
               Tendered(w, refund, [at |-> now + 1, method |-> m, amount |-> a])
    <3> PICK refund \in BOOLEAN, m \in Method, a \in Tender :
               Tendered(w, refund, [at |-> now + 1, method |-> m, amount |-> a])
      BY <2>5
    <3>1. req' = [req EXCEPT ![w] = [pc |-> "row", refund |-> refund,
                                     row |-> [at |-> now + 1, method |-> m, amount |-> a]]]
      BY DEF Tendered, Arrive
    <3> QED BY <3>1, <2>1, Uncounted, ReservedShrinks
  <2>6. CASE \E f \in Float : Open(w, f)
    <3> PICK f \in Float : Open(w, f)
      BY <2>6
    <3>1. req' = [req EXCEPT ![w] = [pc |-> "open", float |-> f, at |-> now']]
      BY DEF Open, Arrive
    <3> QED BY <3>1, <2>1, Uncounted, ReservedShrinks
  <2>7. CASE \E s \in Session, a \in Tender : Move(w, s, a) \/ Move(w, s, -a)
    <3> PICK s \in Session, a \in Int : Move(w, s, a)
      BY <2>7
    <3>1. req' = [req EXCEPT ![w] = [pc |-> "move", session |-> s, amount |-> a]]
      BY DEF Move, Arrive
    <3> QED BY <3>1, <2>1, Uncounted, ReservedShrinks
  <2>8. CASE \E s \in Session, a \in Tender : Close(w, s, a)
    <3> PICK s \in Session, a \in Tender : Close(w, s, a)
      BY <2>8
    <3>1. req' = [req EXCEPT ![w] = [pc |-> "close", session |-> s, counted |-> a,
                                     expected |-> Settlement(s, now')]]
      BY DEF Close, Arrive
    <3> QED BY <3>1, <2>1, Uncounted, ReservedShrinks
  <2> QED BY <1>6, <2>2, <2>3, <2>4, <2>5, <2>6, <2>7, <2>8 DEF Arrival
<1> QED BY <1>2, <1>3, <1>4, <1>5, <1>6 DEF Step

\* However many tills sell with a coupon at once and however their requests
\* interleave and retry, the coupon is used beyond its limit by fewer sales
\* than there are requests in flight; with one request at a time it is not
\* overused at all.
THEOREM OveruseBound == Spec => []OveruseIsBounded
<1>1. Reserved /\ SalesOK => OveruseIsBounded
  <2> SUFFICES ASSUME Reserved, SalesOK, Coupon.limit # None
               PROVE  redeemed < Coupon.limit + Cardinality(Worker)
    BY DEF OveruseIsBounded
  <2>1. Coupon.limit \in Nat
    BY CounterAssumption DEF CouponRow
  <2> QED BY <2>1, CountingIsFinite DEF Reserved, SalesOK
<1>2. SalesOK /\ Reserved /\ [Next]_vars => Reserved'
  BY ReservedStep
<1> QED BY <1>1, <1>2, ReservedInit, SalesTyping, PTL DEF Spec

-----------------------------------------------------------------------------
(***************************************************************************)
(* The rewards                                                             *)
(***************************************************************************)

\* What owners can save is all that is ever in force.
SettingsOK == config \in Config /\ ConfigAllowed(config)

\* In every reachable state the reward shown to a customer with any balance is
\* one create() accepts, at the value shown, and the least such.
THEOREM RewardsApply == Spec => []OfferedRewardsApply
<1>1. Init => SettingsOK
  BY CounterAssumption DEF Init, SettingsOK
<1>2. SettingsOK /\ [Next]_vars => SettingsOK'
  <2> SUFFICES ASSUME SettingsOK, [Next]_vars
               PROVE  SettingsOK'
    OBVIOUS
  <2>1. CASE UNCHANGED config
    BY <2>1 DEF SettingsOK
  <2>2. CASE \E w \in Worker, c \in Config : UpdateSettings(w, c)
    BY <2>2 DEF UpdateSettings, SettingsOK
  <2>3. UNCHANGED config \/ \E w \in Worker, c \in Config : UpdateSettings(w, c)
    BY DEF Next, Step, Arrival, Abort, SalePrice, SaleRefused, SaleNumber, SaleInsert,
           SaleRetry, SaleCommit, TenderCommit, OpenWrite, MoveWrite, CloseWrite, SaleArrive,
           SetCouponActive, Tendered, Open, Move, Close, shop, vars
  <2> QED BY <2>1, <2>2, <2>3
<1>3. SettingsOK => OfferedRewardsApply
  <2> SUFFICES ASSUME SettingsOK, NEW b \in Balance, AvailableReward(b, config) # None
               PROVE  LET reward == AvailableReward(b, config)
                      IN /\ reward.points <= b
                         /\ RedemptionAllowed(reward.points, reward.discount, config)
                         /\ Worth(reward.points, config) = reward.discount
                         /\ \A p \in 1 .. reward.points - 1 :
                              ~RedemptionAllowed(p, reward.discount, config)
    BY DEF OfferedRewardsApply
  <2>1. b \in Int /\ config \in ConfigRow /\ ConfigAllowed(config)
    BY CounterAssumption DEF SettingsOK
  <2> QED BY <2>1, RewardIsAccepted
<1> QED BY <1>1, <1>2, <1>3, PTL DEF Spec

-----------------------------------------------------------------------------
(***************************************************************************)
(* The drawer                                                              *)
(***************************************************************************)

\* A step of one request, and what it tells the others in flight.
Turn(w, r) ==
  /\ req' = [req EXCEPT ![w] = r]
  /\ overlapped' = IF req[w] # Idle THEN overlapped
                   ELSE IF Busy = {} THEN overlapped \ {w}
                   ELSE overlapped \cup Busy \cup {w}

\* A request that goes on with its sale, or ends, without a stamp.
PlainTurn(w, r) ==
  /\ Turn(w, r) /\ UNCHANGED <<money, till, now>>
  /\ r = Idle \/ r.pc \in {"price", "number", "insert"}

\* The time of the row a request will commit.
Stamped(r) == r.pc \in {"row", "inserted"}
StampOf(r) == IF r.pc = "row" THEN r.row.at ELSE r.at

\* A request that takes a stamp.
StampTurn(w, r) ==
  /\ Turn(w, r) /\ UNCHANGED <<money, till>>
  /\ Stamp
  /\ \/ Stamped(r) /\ StampOf(r) = now'
     \/ \E f \in Float : r = [pc |-> "open", float |-> f, at |-> now']

\* Settings and coupons change: neither money nor the requests do.
StillTurn == UNCHANGED <<money, till, now, req, overlapped>>

\* Every step of a request is one of these, or writes money or the drawer.
LEMMA Turning ==
  ASSUME [Next]_vars
  PROVE  \/ StillTurn
         \/ \E w \in Worker :
              \/ \E r : PlainTurn(w, r) \/ StampTurn(w, r)
              \/ SaleCommit(w) \/ TenderCommit(w)
              \/ OpenWrite(w) \/ MoveWrite(w) \/ CloseWrite(w)
              \/ \E s \in Session, a \in Int : Move(w, s, a)
              \/ \E s \in Session, a \in Tender : Close(w, s, a)
<1> USE DEF money, till, shop
<1>1. ASSUME NEW w \in Worker, Abort(w) \/ SaleRefused(w)
      PROVE  PlainTurn(w, Idle)
  BY <1>1 DEF Abort, SaleRefused, End, Goto, PlainTurn, Turn, Idle
<1>2. ASSUME NEW w \in Worker, SalePrice(w)
      PROVE  \E r : PlainTurn(w, r)
  <2> DEFINE r == [pc |-> "number", draft |-> req[w].draft, attempt |-> req[w].attempt,
                   total |-> PricedTotal(req[w].draft)]
  <2>1. PlainTurn(w, r)
    BY <1>2 DEF SalePrice, Goto, PlainTurn, Turn, Idle
  <2> QED BY <2>1
<1>3. ASSUME NEW w \in Worker, SaleNumber(w)
      PROVE  \E r : PlainTurn(w, r)
  <2> DEFINE r == [pc |-> "insert", draft |-> req[w].draft, attempt |-> req[w].attempt,
                   total |-> req[w].total, number |-> orders + 1]
  <2>1. PlainTurn(w, r)
    BY <1>3 DEF SaleNumber, Goto, PlainTurn, Turn, Idle
  <2> QED BY <2>1
<1>4. ASSUME NEW w \in Worker, SaleRetry(w)
      PROVE  \E r : PlainTurn(w, r)
  <2> DEFINE r == [pc |-> "price", draft |-> req[w].draft, attempt |-> req[w].attempt + 1]
  <2>1. PlainTurn(w, r) \/ PlainTurn(w, Idle)
    BY <1>4 DEF SaleRetry, Goto, End, PlainTurn, Turn, Idle
  <2> QED BY <2>1
<1>5. ASSUME NEW w \in Worker, NEW d \in Draft, SaleArrive(w, d)
      PROVE  \E r : PlainTurn(w, r)
  <2> DEFINE r == [pc |-> "price", draft |-> d, attempt |-> 0]
  <2>1. PlainTurn(w, r)
    BY <1>5 DEF SaleArrive, Arrive, PlainTurn, Turn
  <2> QED BY <2>1
<1>6. ASSUME NEW w \in Worker, SaleInsert(w)
      PROVE  \E r : StampTurn(w, r)
  <2> DEFINE r == [pc |-> "inserted", draft |-> req[w].draft, attempt |-> req[w].attempt,
                   total |-> req[w].total, number |-> req[w].number, at |-> now']
  <2>1. Stamped(r) /\ StampOf(r) = now'
    BY DEF Stamped, StampOf
  <2>2. Turn(w, r) /\ Stamp /\ UNCHANGED <<money, till>>
    BY <1>6 DEF SaleInsert, Goto, Turn, Idle
  <2> QED BY <2>1, <2>2 DEF StampTurn
<1>7. ASSUME NEW w \in Worker, NEW refund \in BOOLEAN, NEW m \in Method, NEW a \in Tender,
             Tendered(w, refund, [at |-> now + 1, method |-> m, amount |-> a])
      PROVE  \E r : StampTurn(w, r)
  <2> DEFINE r == [pc |-> "row", refund |-> refund,
                   row |-> [at |-> now + 1, method |-> m, amount |-> a]]
  <2>1. Turn(w, r) /\ Stamp /\ UNCHANGED <<money, till>>
    BY <1>7 DEF Tendered, Arrive, Turn
  <2>2. Stamped(r) /\ StampOf(r) = now'
    BY <2>1 DEF Stamped, StampOf, Stamp
  <2> QED BY <2>1, <2>2 DEF StampTurn
<1>8. ASSUME NEW w \in Worker, NEW f \in Float, Open(w, f)
      PROVE  \E r : StampTurn(w, r)
  <2> DEFINE r == [pc |-> "open", float |-> f, at |-> now']
  <2>1. StampTurn(w, r)
    BY <1>8 DEF Open, Arrive, StampTurn, Turn
  <2> QED BY <2>1
<1>9. ASSUME NEW w \in Worker, SetCouponActive(w) \/ \E c \in Config : UpdateSettings(w, c)
      PROVE  StillTurn
  BY <1>9 DEF SetCouponActive, UpdateSettings, StillTurn
<1>10. UNCHANGED vars => StillTurn
  BY DEF vars, StillTurn
<1>11. \A a \in Tender : a \in Int /\ -a \in Int
  BY CounterAssumption
<1>12. ASSUME NEW w \in Worker, Step(w)
       PROVE  \/ \E r : PlainTurn(w, r) \/ StampTurn(w, r)
              \/ SaleCommit(w) \/ TenderCommit(w)
              \/ OpenWrite(w) \/ MoveWrite(w) \/ CloseWrite(w)
  BY <1>1, <1>2, <1>3, <1>4, <1>6, <1>12 DEF Step
<1>13. ASSUME NEW w \in Worker, Arrival(w)
       PROVE  \/ StillTurn
              \/ \E r : PlainTurn(w, r) \/ StampTurn(w, r)
              \/ \E s \in Session, a \in Int : Move(w, s, a)
              \/ \E s \in Session, a \in Tender : Close(w, s, a)
  BY <1>5, <1>7, <1>8, <1>9, <1>11, <1>13 DEF Arrival
<1> QED BY <1>10, <1>12, <1>13 DEF Next

\* A sum of rows is one of the values of a function.
LEMMA SumOfRows ==
  ASSUME NEW rows
  PROVE  SumOf(rows) = SumFunctionOnSet([r \in rows |-> r.amount], rows)
BY DEF SumOf, MapThenSumSet, SumFunctionOnSet, FoldFunctionOnSet, MapThenFoldSet

\* The money of finitely many rows is an integer.
LEMMA SumOfIsInt ==
  ASSUME NEW rows, rows \subseteq Row, IsFiniteSet(rows)
  PROVE  SumOf(rows) \in Int
<1> DEFINE f == [r \in rows |-> r.amount]
<1>1. \A r \in rows : f[r] \in Int
  BY DEF Row
<1> HIDE DEF f
<1>2. SumFunctionOnSet(f, rows) \in Int
  BY <1>1, SumType
<1> QED BY <1>2, SumOfRows DEF f

\* The cash rows that settlement() looks at.
Cash(rows, from, until) == {p \in rows : p.method = "CASH" /\ p.at \in from .. until}

\* The part of TypeOK that is about the drawer and the requests.
DrawersOK ==
  /\ active \in BOOLEAN /\ config \in Config
  /\ session \in Seq(Drawer)
  /\ moved \in [Session -> Int]
  /\ overlapped \subseteq Worker /\ quiet \subseteq Session
  /\ sent \in 0 .. MaxRequests
  /\ IsFiniteSet(payments) /\ IsFiniteSet(refunds)
  /\ \A w \in Worker : req[w] \in Request

\* What a request in the middle of an operation on the drawer is.
LEMMA DrawerShapes ==
  ASSUME NEW r \in Request
  PROVE  /\ r.pc = "open" => r \in [pc : {"open"}, float : Float, at : Time]
         /\ r.pc = "move" => r \in [pc : {"move"}, session : Session, amount : Int]
         /\ r.pc = "close" =>
              r \in [pc : {"close"}, session : Session, counted : Nat, expected : Int]
         /\ r.pc = "inserted" => r \in SaleRequest
         /\ r.pc = "row" => r \in RowRequest
         /\ r.pc \in {"price", "number", "insert"} => r \in SaleRequest
BY DEF Request, DrawerRequest, SaleRequest, RowRequest, Idle

\* What a drawer should hold is an integer.
LEMMA SettlementIsInt ==
  ASSUME SalesOK, DrawersOK, NEW s \in Session, s \in DOMAIN session, NEW until
  PROVE  Settlement(s, until) \in Int
<1>1. session[s] \in Drawer
  BY ElementOfSeq, LenProperties DEF DrawersOK
<1>2. session[s].float \in Int
  <2>1. session[s].float \in Float
    BY <1>1 DEF Drawer
  <2>2. Float \subseteq Int
    BY CounterAssumption
  <2> QED BY <2>1, <2>2
<1>3. PICK P, R : /\ P = Cash(payments, session[s].openedAt, until)
                  /\ R = Cash(refunds, session[s].openedAt, until)
  OBVIOUS
<1>4. P \subseteq payments /\ R \subseteq refunds
  BY <1>3 DEF Cash
<1>5. P \subseteq Row /\ R \subseteq Row /\ IsFiniteSet(P) /\ IsFiniteSet(R)
  BY <1>4, FS_Subset DEF SalesOK, DrawersOK
<1>6. SumOf(P) \in Int /\ SumOf(R) \in Int
  BY <1>5, SumOfIsInt
<1>7. moved[s] \in Int
  BY DEF DrawersOK
<1>8. Settlement(s, until) = session[s].float + moved[s] + SumOf(P) - SumOf(R)
  BY <1>3 DEF Settlement, Cash
<1> QED BY <1>2, <1>6, <1>7, <1>8

\* The settings and the count of requests stay in their types.
LEMMA SettingsStayTyped ==
  ASSUME active \in BOOLEAN, config \in Config, sent \in 0 .. MaxRequests, [Next]_vars
  PROVE  active' \in BOOLEAN /\ config' \in Config /\ sent' \in 0 .. MaxRequests
<1> USE DEF shop
<1>1. sent < MaxRequests /\ sent' = sent + 1 => sent' \in 0 .. MaxRequests
  BY CounterAssumption
<1>2. ASSUME NEW w \in Worker, Step(w)
      PROVE  UNCHANGED <<active, config, sent>>
  BY <1>2 DEF Step, Abort, SalePrice, SaleRefused, SaleNumber, SaleInsert, SaleRetry,
              SaleCommit, TenderCommit, OpenWrite, MoveWrite, CloseWrite, End, Goto
<1>3. ASSUME NEW w \in Worker, SetCouponActive(w)
      PROVE  active' \in BOOLEAN /\ config' = config /\ sent < MaxRequests /\ sent' = sent + 1
  BY <1>3 DEF SetCouponActive
<1>4. ASSUME NEW w \in Worker, NEW c \in Config, UpdateSettings(w, c)
      PROVE  config' \in Config /\ active' = active /\ sent < MaxRequests /\ sent' = sent + 1
  BY <1>4 DEF UpdateSettings
<1>5. ASSUME NEW w \in Worker, Arrival(w), ~SetCouponActive(w),
             ~ \E c \in Config : UpdateSettings(w, c)
      PROVE  UNCHANGED <<active, config>> /\ sent < MaxRequests /\ sent' = sent + 1
  BY <1>5 DEF Arrival, SaleArrive, Tendered, Open, Move, Close, Arrive
<1>6. CASE UNCHANGED vars
  BY <1>6 DEF vars
<1> QED BY <1>1, <1>2, <1>3, <1>4, <1>5, <1>6 DEF Next

\* The rows of money stay finitely many.
LEMMA MoneyStaysFinite ==
  ASSUME IsFiniteSet(payments), IsFiniteSet(refunds), [Next]_vars
  PROVE  IsFiniteSet(payments') /\ IsFiniteSet(refunds')
<1> USE DEF money
<1>1. ASSUME NEW w \in Worker, SaleCommit(w) \/ TenderCommit(w)
      PROVE  /\ payments' = payments \/ \E p : payments' = payments \cup {p}
             /\ refunds' = refunds \/ \E p : refunds' = refunds \cup {p}
  BY <1>1 DEF SaleCommit, TenderCommit
<1>2. UNCHANGED money \/ \E w \in Worker : SaleCommit(w) \/ TenderCommit(w)
  BY Turning DEF StillTurn, PlainTurn, StampTurn, OpenWrite, MoveWrite, CloseWrite, Move,
                 Close
<1> QED BY <1>1, <1>2, FS_AddElement

\* The drawer is well formed after every step.
LEMMA DrawersOKStep ==
  ASSUME SalesOK, SalesOK', DrawersOK, [Next]_vars
  PROVE  DrawersOK'
<1> USE DEF till
<1>0. /\ active' \in BOOLEAN /\ config' \in Config /\ sent' \in 0 .. MaxRequests
      /\ IsFiniteSet(payments') /\ IsFiniteSet(refunds')
  BY SettingsStayTyped, MoneyStaysFinite DEF DrawersOK
<1>1. /\ session \in Seq(Drawer) /\ moved \in [Session -> Int]
      /\ overlapped \subseteq Worker /\ quiet \subseteq Session
      /\ \A v \in Worker : req[v] \in Request
  BY DEF DrawersOK
<1>2. Idle \in Request
  BY DEF Request
<1>3. ASSUME NEW w \in Worker, NEW r, r \in Request, req' = [req EXCEPT ![w] = r]
      PROVE  \A v \in Worker : req'[v] \in Request
  BY <1>1, <1>3 DEF SalesOK
<1>4. ASSUME NEW w \in Worker, NEW r, Turn(w, r)
      PROVE  overlapped' \subseteq Worker
  BY <1>1, <1>4 DEF Turn, Busy
<1>5. ASSUME NEW w \in Worker, NEW r, PlainTurn(w, r) \/ StampTurn(w, r)
      PROVE  DrawersOK'
  <2>1. req' = [req EXCEPT ![w] = r] /\ overlapped' \subseteq Worker
    BY <1>4, <1>5 DEF PlainTurn, StampTurn, Turn
  <2>2. req'[w] = r
    BY <2>1 DEF SalesOK
  <2>3. r \in Request
    <3>1. CASE r = Idle
      BY <1>2, <3>1
    <3>2. CASE r.pc \in {"price", "number", "insert", "inserted", "row"}
      BY <2>2, <3>2 DEF SalesOK, Request
    <3>3. ASSUME NEW f \in Float, r = [pc |-> "open", float |-> f, at |-> now']
          PROVE  r \in Request
      <4>1. r \in DrawerRequest
        BY <3>3 DEF SalesOK, DrawerRequest
      <4> QED BY <4>1 DEF Request
    <3> QED BY <1>5, <3>1, <3>2, <3>3 DEF PlainTurn, StampTurn, Stamped
  <2>4. UNCHANGED <<session, moved, quiet>>
    BY <1>5 DEF PlainTurn, StampTurn
  <2> QED BY <1>0, <1>1, <1>3, <2>1, <2>3, <2>4 DEF DrawersOK
<1>6. ASSUME NEW w \in Worker, SaleCommit(w) \/ TenderCommit(w)
      PROVE  DrawersOK'
  <2>1. /\ req' = [req EXCEPT ![w] = Idle]
        /\ UNCHANGED <<session, moved, quiet, overlapped>>
    BY <1>6 DEF SaleCommit, TenderCommit, End, Goto
  <2> QED BY <1>0, <1>1, <1>2, <1>3, <2>1 DEF DrawersOK
<1>7. ASSUME NEW w \in Worker, OpenWrite(w)
      PROVE  DrawersOK'
  <2>1. req' = [req EXCEPT ![w] = Idle] /\ UNCHANGED <<moved, quiet, overlapped>>
    BY <1>7 DEF OpenWrite, End, Goto
  <2>2. PICK r, d : /\ r = req[w] /\ r.pc = "open"
                    /\ d = [status |-> "OPEN", openedAt |-> r.at, float |-> r.float]
    BY <1>7 DEF OpenWrite
  <2>3. r.at \in Time /\ r.float \in Float
    BY <1>1, <2>2, DrawerShapes
  <2>4. d \in Drawer
    BY <2>2, <2>3 DEF Drawer
  <2>5. session' = session \/ session' = Append(session, d)
    BY <1>7, <2>2 DEF OpenWrite
  <2>6. session' \in Seq(Drawer)
    BY <1>1, <2>4, <2>5, AppendProperties
  <2> QED BY <1>0, <1>1, <1>2, <1>3, <2>1, <2>6 DEF DrawersOK
<1>8. ASSUME NEW w \in Worker, MoveWrite(w)
      PROVE  DrawersOK'
  <2>1. req' = [req EXCEPT ![w] = Idle] /\ UNCHANGED <<session, quiet, overlapped>>
    BY <1>8 DEF MoveWrite, End, Goto
  <2>2. PICK r : r = req[w]
    OBVIOUS
  <2>3. r.session \in Session /\ r.amount \in Int
    BY <1>1, <1>8, <2>2, DrawerShapes DEF MoveWrite
  <2>4. moved' = [moved EXCEPT ![r.session] = @ + r.amount]
    BY <1>8, <2>2 DEF MoveWrite
  <2>5. moved' \in [Session -> Int]
    BY <1>1, <2>3, <2>4
  <2> QED BY <1>0, <1>1, <1>2, <1>3, <2>1, <2>5 DEF DrawersOK
<1>9. ASSUME NEW w \in Worker, CloseWrite(w)
      PROVE  DrawersOK'
  <2>1. req' = [req EXCEPT ![w] = Idle] /\ UNCHANGED <<moved, overlapped>>
    BY <1>9 DEF CloseWrite, End, Goto
  <2>2. PICK r, n, d : /\ r = req[w] /\ n = r.session
                       /\ d = [status |-> "CLOSED", openedAt |-> session[n].openedAt,
                               float |-> session[n].float, closedAt |-> now',
                               counted |-> r.counted, expected |-> r.expected]
    OBVIOUS
  <2>3. n \in Session /\ r.counted \in Nat /\ r.expected \in Int /\ r.pc = "close"
    BY <1>1, <1>9, <2>2, DrawerShapes DEF CloseWrite
  <2>4. session' = [session EXCEPT ![n] = d]
    BY <1>9, <2>2 DEF CloseWrite
  <2>5. quiet' \subseteq Session
    BY <1>1, <1>9, <2>2, <2>3 DEF CloseWrite
  <2>6. DOMAIN session = 1 .. Len(session) /\ Len(session) \in Nat
    BY <1>1, LenProperties
  <2>7. \A s \in 1 .. Len(session) : session'[s] \in Drawer
    <3>1. ASSUME NEW s \in 1 .. Len(session)
          PROVE  session[s] \in Drawer
      BY <1>1, <2>6, ElementOfSeq
    <3>2. n \in 1 .. Len(session) => d \in Drawer
      <4>1. ASSUME n \in 1 .. Len(session)
            PROVE  session[n].openedAt \in Time /\ session[n].float \in Float
        BY <3>1, <4>1 DEF Drawer
      <4>2. now' \in Time
        BY DEF SalesOK
      <4> QED BY <2>2, <2>3, <4>1, <4>2 DEF Drawer
    <3> QED BY <2>4, <2>6, <3>1, <3>2
  <2>8. session' = [s \in 1 .. Len(session) |-> session'[s]]
    BY <2>4, <2>6
  <2>9. session' \in Seq(Drawer)
    BY <2>6, <2>7, <2>8, IsASeq
  <2> QED BY <1>0, <1>1, <1>2, <1>3, <2>1, <2>5, <2>9 DEF DrawersOK
<1>10. ASSUME NEW w \in Worker, NEW s \in Session, NEW a \in Int, Move(w, s, a)
       PROVE  DrawersOK'
  <2>1. PICK r : r = [pc |-> "move", session |-> s, amount |-> a]
    OBVIOUS
  <2>2. r \in Request
    BY <2>1 DEF Request, DrawerRequest
  <2>3. Turn(w, r) /\ UNCHANGED <<session, moved, quiet>>
    BY <1>10, <2>1 DEF Move, Arrive, Turn
  <2> QED BY <1>0, <1>1, <1>3, <1>4, <2>2, <2>3 DEF DrawersOK, Turn
<1>11. ASSUME NEW w \in Worker, NEW s \in Session, NEW a \in Tender, Close(w, s, a)
       PROVE  DrawersOK'
  <2>1. PICK t, r : /\ t = now'
                    /\ r = [pc |-> "close", session |-> s, counted |-> a,
                            expected |-> Settlement(s, t)]
    OBVIOUS
  <2>2. Settlement(s, t) \in Int
    BY <1>11, SettlementIsInt DEF Close, IsOpen
  <2>3. a \in Nat
    BY CounterAssumption
  <2>4. r \in Request
    BY <2>1, <2>2, <2>3 DEF Request, DrawerRequest
  <2>5. Turn(w, r) /\ UNCHANGED <<session, moved, quiet>>
    BY <1>11, <2>1 DEF Close, Arrive, Turn
  <2> QED BY <1>0, <1>1, <1>3, <1>4, <2>4, <2>5 DEF DrawersOK, Turn
<1>12. CASE StillTurn
  BY <1>0, <1>1, <1>12 DEF StillTurn, DrawersOK
<1> QED BY <1>5, <1>6, <1>7, <1>8, <1>9, <1>10, <1>11, <1>12, Turning

\* The drawer and the requests have their types.
LEMMA DrawersTyping == Spec => []DrawersOK
<1>1. Init => DrawersOK
  BY EmptySeq, FS_EmptySet, CounterAssumption
  DEF Init, DrawersOK, Request
<1>2. SalesOK /\ SalesOK' /\ DrawersOK /\ [Next]_vars => DrawersOK'
  BY DrawersOKStep
<1> QED BY <1>1, <1>2, SalesTyping, PTL DEF Spec

\* Every table, request and working value of the counter has its type.
THEOREM Typing == Spec => []TypeOK
<1>1. SalesOK /\ DrawersOK => TypeOK
  BY DEF SalesOK, DrawersOK, TypeOK
<1> QED BY <1>1, SalesTyping, DrawersTyping, PTL

\* What settlement() finds depends on the session's opening, its movements and
\* the cash rows in its window.
Settled(d, booked, p, r) == d.float + booked + SumOf(p) - SumOf(r)

\* A settlement, by what it depends on.
LEMMA SettlementBy ==
  ASSUME NEW s, NEW until
  PROVE  Settlement(s, until) =
           Settled(session[s], moved[s], Cash(payments, session[s].openedAt, until),
                   Cash(refunds, session[s].openedAt, until))
BY DEF Settlement, Settled, Cash

\* The same, after a step.
LEMMA SettlementByNext ==
  ASSUME NEW s, NEW until
  PROVE  Settlement(s, until)' =
           Settled(session'[s], moved'[s], Cash(payments', session'[s].openedAt, until),
                   Cash(refunds', session'[s].openedAt, until))
BY DEF Settlement, Settled, Cash

\* No row is from the future, nor is one that is about to be committed.
RowsArePast ==
  /\ \A p \in payments \cup refunds : p.at <= now
  /\ \A w \in Worker : Stamped(req[w]) => StampOf(req[w]) <= now

\* A request that met no other one is alone.
Unmet ==
  \A v, w \in Worker : req[w] # Idle /\ w \notin overlapped /\ req[v] # Idle => v = w

\* Requests on a drawer are about one that was opened, and whose last closing,
\* if there was one, met another request.
DrawersInFlight ==
  \A w \in Worker :
    req[w].pc \in {"close", "move"} =>
      req[w].session \in DOMAIN session /\ req[w].session \notin quiet

\* A closing that met no other request would settle the same now.
ClosingsAreFresh ==
  \A w \in Worker :
    req[w].pc = "close" /\ w \notin overlapped =>
      req[w].expected = Settlement(req[w].session, now)

\* A drawer whose closing met no other request is closed, settles to what was
\* stored, and no row is about to enter the time it was open.
QuietOnesReprint ==
  \A s \in quiet :
    /\ s \in DOMAIN session /\ session[s].status = "CLOSED"
    /\ session[s].closedAt \in Time /\ session[s].closedAt <= now
    /\ Settlement(s, session[s].closedAt) = session[s].expected
    /\ \A w \in Worker : Stamped(req[w]) => session[s].closedAt < StampOf(req[w])

\* All of it.
ReprintInv ==
  RowsArePast /\ Unmet /\ DrawersInFlight /\ ClosingsAreFresh /\ QuietOnesReprint

\* The time of the row a request will commit is a time.
LEMMA StampTyped ==
  ASSUME SalesOK, NEW w \in Worker, Stamped(req[w])
  PROVE  StampOf(req[w]) \in Time
<1> PICK r : r = req[w]
  OBVIOUS
<1>1. CASE r.pc = "row"
  <2>1. r \in RowRequest
    BY <1>1 DEF SalesOK
  <2> QED BY <1>1, <2>1 DEF RowRequest, Row, StampOf
<1>2. CASE r.pc = "inserted"
  <2>1. r \in SaleRequest
    BY <1>2 DEF SalesOK
  <2>2. r.at \in Time
    BY <1>2, <2>1 DEF SaleRequest
  <2> QED BY <1>2, <2>2 DEF StampOf
<1> QED BY <1>1, <1>2 DEF Stamped

\* A request that commits a row commits one of the time it was stamped with.
LEMMA RowsEnterStamped ==
  ASSUME SalesOK, NEW w \in Worker, SaleCommit(w) \/ TenderCommit(w)
  PROVE  /\ Stamped(req[w])
         /\ \A p \in payments' \cup refunds' :
              p \in payments \cup refunds \/ p.at = StampOf(req[w])
         /\ payments \subseteq payments' /\ refunds \subseteq refunds'
         /\ \A p \in payments' \ payments : p.at = StampOf(req[w])
         /\ \A p \in refunds' \ refunds : p.at = StampOf(req[w])
<1>1. ASSUME SaleCommit(w)
      PROVE  /\ Stamped(req[w]) /\ refunds' = refunds
             /\ \/ payments' = payments
                \/ \E p : payments' = payments \cup {p} /\ p.at = StampOf(req[w])
  BY <1>1 DEF SaleCommit, Stamped, StampOf
<1>2. ASSUME TenderCommit(w)
      PROVE  /\ Stamped(req[w])
             /\ \/ refunds' = refunds
                \/ \E p : refunds' = refunds \cup {p} /\ p.at = StampOf(req[w])
             /\ \/ payments' = payments
                \/ \E p : payments' = payments \cup {p} /\ p.at = StampOf(req[w])
  BY <1>2 DEF TenderCommit, Stamped, StampOf
<1> QED BY <1>1, <1>2

\* Which request a step is about, and what becomes of its turn.
LEMMA TurnOf ==
  ASSUME SalesOK, [Next]_vars
  PROVE  StillTurn \/ \E w \in Worker : \E r : Turn(w, r)
<1> USE DEF till
<1>1. ASSUME NEW w \in Worker,
             SaleCommit(w) \/ TenderCommit(w) \/ OpenWrite(w) \/ MoveWrite(w) \/ CloseWrite(w)
      PROVE  Turn(w, Idle)
  BY <1>1 DEF SaleCommit, TenderCommit, OpenWrite, MoveWrite, CloseWrite, End, Goto, Turn,
              Idle
<1>2. ASSUME NEW w \in Worker,
             \/ \E s \in Session, a \in Int : Move(w, s, a)
             \/ \E s \in Session, a \in Tender : Close(w, s, a)
      PROVE  \E r : Turn(w, r)
  BY <1>2 DEF Move, Close, Arrive, Turn
<1>3. ASSUME NEW w \in Worker, NEW r, PlainTurn(w, r) \/ StampTurn(w, r)
      PROVE  Turn(w, r)
  BY <1>3 DEF PlainTurn, StampTurn
<1> QED BY <1>1, <1>2, <1>3, Turning

\* While a request meets no other one, the turns are its own.
LEMMA AloneMoves ==
  ASSUME Unmet, NEW w \in Worker, NEW r, Turn(w, r),
         NEW v \in Worker, req[v] # Idle, v \notin overlapped'
  PROVE  v \notin overlapped /\ v = w
<1>1. CASE req[w] # Idle
  BY <1>1 DEF Turn, Unmet
<1>2. CASE req[w] = Idle
  <2>1. v \in Busy
    BY DEF Busy
  <2> QED BY <1>2, <2>1 DEF Turn
<1> QED BY <1>1, <1>2

\* A request that met no other one stays alone.
LEMMA UnmetStays ==
  ASSUME SalesOK, Unmet, [Next]_vars
  PROVE  Unmet'
<1>1. ASSUME NEW w \in Worker, NEW r, Turn(w, r)
      PROVE  Unmet'
  <2>1. req' = [v \in Worker |-> IF v = w THEN r ELSE req[v]]
    BY <1>1 DEF Turn, SalesOK
  <2>2. CASE req[w] # Idle
    <3>1. overlapped' = overlapped
      BY <1>1, <2>2 DEF Turn
    <3> QED BY <2>1, <2>2, <3>1 DEF Unmet
  <2>3. CASE req[w] = Idle /\ Busy = {}
    <3>1. \A v \in Worker : req[v] = Idle
      BY <2>3 DEF Busy
    <3> QED BY <2>1, <3>1 DEF Unmet
  <2>4. CASE req[w] = Idle /\ Busy # {}
    <3>1. overlapped' = overlapped \cup Busy \cup {w}
      BY <1>1, <2>4 DEF Turn
    <3>2. \A v \in Worker : req'[v] # Idle => v \in overlapped'
      BY <2>1, <3>1 DEF Busy
    <3> QED BY <3>2 DEF Unmet
  <2> QED BY <2>2, <2>3, <2>4
<1>2. CASE StillTurn
  BY <1>2 DEF StillTurn, Unmet
<1> QED BY <1>1, <1>2, TurnOf

\* A step that takes no stamp leaves the stamps of the requests.
LEMMA NoNewStamp ==
  ASSUME SalesOK, NEW w \in Worker, NEW r, req' = [req EXCEPT ![w] = r], ~Stamped(r)
  PROVE  \A v \in Worker : Stamped(req'[v]) => v # w /\ req'[v] = req[v]
<1>1. req' = [v \in Worker |-> IF v = w THEN r ELSE req[v]]
  BY DEF SalesOK
<1> QED BY <1>1

\* Stamps are of the present, rows enter with the stamp their request took, and
\* the clock does not go back.
Stamping ==
  /\ now \in Time /\ now' \in Time /\ now <= now'
  /\ \A v \in Worker : Stamped(req'[v]) =>
       \/ req'[v] = req[v]
       \/ StampOf(req'[v]) = now' /\ now < now'
  /\ payments \subseteq payments' /\ refunds \subseteq refunds'
  /\ \A p \in (payments' \ payments) \cup (refunds' \ refunds) :
       \E w \in Worker : Stamped(req[w]) /\ p.at = StampOf(req[w])

\* Every step stamps so.
LEMMA StepsStamp ==
  ASSUME SalesOK, SalesOK', [Next]_vars
  PROVE  Stamping
<1> USE DEF money, till
<1>0. /\ now \in Time /\ now' \in Time /\ (Stamp => now < now')
  BY DEF SalesOK, Stamp, Time
<1>00. now \in Int /\ now' \in Int
  BY <1>0 DEF Time
<1>01. ~Stamped(Idle)
  BY DEF Stamped, Idle
<1>1. ASSUME NEW w \in Worker, NEW r, PlainTurn(w, r)
      PROVE  Stamping
  <2>1. ~Stamped(r)
    BY <1>01, <1>1 DEF PlainTurn, Stamped
  <2> QED BY <1>0, <1>00, <1>1, <2>1, NoNewStamp DEF PlainTurn, Turn, Stamping
<1>2. ASSUME NEW w \in Worker, NEW r, StampTurn(w, r)
      PROVE  Stamping
  <2>1. req' = [v \in Worker |-> IF v = w THEN r ELSE req[v]]
    BY <1>2 DEF StampTurn, Turn, SalesOK
  <2>2. Stamped(r) => StampOf(r) = now'
    BY <1>2 DEF StampTurn, Stamped
  <2>3. now < now' /\ UNCHANGED money
    BY <1>0, <1>2 DEF StampTurn
  <2> QED BY <1>0, <1>00, <2>1, <2>2, <2>3 DEF Stamping
<1>3. ASSUME NEW w \in Worker, SaleCommit(w) \/ TenderCommit(w)
      PROVE  Stamping
  <2>1. req' = [req EXCEPT ![w] = Idle] /\ now' = now
    BY <1>3 DEF SaleCommit, TenderCommit, End, Goto
  <2> QED BY <1>0, <1>00, <1>01, <1>3, <2>1, NoNewStamp, RowsEnterStamped DEF Stamping
<1>4. ASSUME NEW w \in Worker, OpenWrite(w) \/ MoveWrite(w) \/ CloseWrite(w)
      PROVE  Stamping
  <2>1. /\ req' = [req EXCEPT ![w] = Idle] /\ UNCHANGED money
        /\ now' = now \/ Stamp
    BY <1>4 DEF OpenWrite, MoveWrite, CloseWrite, End, Goto
  <2> QED BY <1>0, <1>00, <1>01, <2>1, NoNewStamp DEF Stamping
<1>5. ASSUME NEW w \in Worker, NEW r, req' = [req EXCEPT ![w] = r],
             r.pc \in {"move", "close"}, UNCHANGED money, now' = now \/ Stamp
      PROVE  Stamping
  <2>1. ~Stamped(r)
    BY <1>5 DEF Stamped
  <2> QED BY <1>0, <1>00, <1>5, <2>1, NoNewStamp DEF Stamping
<1>6. ASSUME NEW w \in Worker, NEW s \in Session, NEW a \in Int, Move(w, s, a)
      PROVE  Stamping
  <2> DEFINE r == [pc |-> "move", session |-> s, amount |-> a]
  <2>1. req' = [req EXCEPT ![w] = r] /\ UNCHANGED <<money, now>>
    BY <1>6 DEF Move, Arrive
  <2>2. r.pc = "move"
    OBVIOUS
  <2> HIDE DEF r
  <2> QED BY <1>5, <2>1, <2>2
<1>7. ASSUME NEW w \in Worker, NEW s \in Session, NEW a \in Tender, Close(w, s, a)
      PROVE  Stamping
  <2> DEFINE r == [pc |-> "close", session |-> s, counted |-> a,
                   expected |-> Settlement(s, now')]
  <2>1. req' = [req EXCEPT ![w] = r] /\ UNCHANGED money /\ Stamp
    BY <1>7 DEF Close, Arrive
  <2>2. r.pc = "close"
    OBVIOUS
  <2> HIDE DEF r
  <2> QED BY <1>5, <2>1, <2>2
<1>8. CASE StillTurn
  BY <1>0, <1>00, <1>8 DEF StillTurn, Stamping
<1> QED BY <1>1, <1>2, <1>3, <1>4, <1>6, <1>7, <1>8, Turning

\* The rows stay of the past.
LEMMA RowsStayPast ==
  ASSUME SalesOK, SalesOK', RowsArePast, Stamping
  PROVE  RowsArePast'
<1>1. now \in Int /\ now' \in Int /\ now <= now'
  BY DEF Stamping, Time
<1>2. ASSUME NEW p \in payments' \cup refunds'
      PROVE  p.at <= now'
  <2>1. p \in Row
    BY <1>2 DEF SalesOK
  <2>2. p.at \in Int
    BY <2>1 DEF Row, Time
  <2>3. p.at <= now
    BY DEF RowsArePast, Stamping
  <2> QED BY <1>1, <2>2, <2>3
<1>3. ASSUME NEW v \in Worker, Stamped(req'[v])
      PROVE  StampOf(req'[v]) <= now'
  <2>1. CASE req'[v] = req[v]
    <3>1. StampOf(req[v]) \in Time /\ StampOf(req[v]) <= now
      BY <1>3, <2>1, StampTyped DEF RowsArePast
    <3> QED BY <1>1, <2>1, <3>1 DEF Time
  <2>2. CASE StampOf(req'[v]) = now'
    BY <1>1, <2>2
  <2> QED BY <1>3, <2>1, <2>2 DEF Stamping
<1> QED BY <1>2, <1>3 DEF RowsArePast, Stamped, StampOf

\* A quiet drawer is left alone, or has just been closed by a request that met
\* no other one.
LEMMA DrawersKept ==
  ASSUME SalesOK, DrawersOK, DrawersInFlight, QuietOnesReprint, [Next]_vars
  PROVE  /\ DOMAIN session \subseteq DOMAIN session'
         /\ \A s \in quiet' :
              \/ s \in quiet /\ session'[s] = session[s] /\ moved'[s] = moved[s]
              \/ \E w \in Worker :
                   CloseWrite(w) /\ w \notin overlapped /\ s = req[w].session
<1> USE DEF till
<1>1. session \in Seq(Drawer) /\ moved \in [Session -> Int] /\ quiet \subseteq DOMAIN session
  BY DEF DrawersOK, QuietOnesReprint
<1>2. ASSUME UNCHANGED <<session, moved, quiet>>
      PROVE  /\ DOMAIN session \subseteq DOMAIN session'
             /\ \A s \in quiet' :
                  s \in quiet /\ session'[s] = session[s] /\ moved'[s] = moved[s]
  BY <1>2
<1>3. ASSUME NEW w \in Worker, OpenWrite(w)
      PROVE  /\ DOMAIN session \subseteq DOMAIN session'
             /\ \A s \in quiet' :
                  s \in quiet /\ session'[s] = session[s] /\ moved'[s] = moved[s]
  <2>1. PICK d : /\ d = [status |-> "OPEN", openedAt |-> req[w].at, float |-> req[w].float]
                 /\ session' = session \/ session' = Append(session, d)
    BY <1>3 DEF OpenWrite
  <2>2. UNCHANGED <<moved, quiet>>
    BY <1>3 DEF OpenWrite
  <2>3. ASSUME session' = Append(session, d)
        PROVE  /\ DOMAIN session \subseteq DOMAIN session'
               /\ \A s \in DOMAIN session : session'[s] = session[s]
    <3>1. d \in Drawer
      <4>1. req[w] \in [pc : {"open"}, float : Float, at : Time]
        BY <1>3, DrawerShapes DEF OpenWrite, DrawersOK
      <4> QED BY <2>1, <4>1 DEF Drawer
    <3>2. /\ DOMAIN session = 1 .. Len(session) /\ Len(session) \in Nat
          /\ DOMAIN session' = 1 .. Len(session) + 1
          /\ \A s \in 1 .. Len(session) : session'[s] = session[s]
      BY <1>1, <2>3, <3>1, AppendProperties, LenProperties
    <3> QED BY <3>2
  <2> QED BY <1>1, <2>1, <2>2, <2>3
<1>4. ASSUME NEW w \in Worker, MoveWrite(w)
      PROVE  /\ DOMAIN session \subseteq DOMAIN session'
             /\ \A s \in quiet' :
                  s \in quiet /\ session'[s] = session[s] /\ moved'[s] = moved[s]
  <2>1. req[w].session \notin quiet
    BY <1>4 DEF MoveWrite, DrawersInFlight
  <2>2. /\ UNCHANGED <<session, quiet>>
        /\ moved' = [moved EXCEPT ![req[w].session] = @ + req[w].amount]
    BY <1>4 DEF MoveWrite
  <2>3. quiet \subseteq Session
    BY DEF DrawersOK
  <2> QED BY <1>1, <2>1, <2>2, <2>3
<1>5. ASSUME NEW w \in Worker, CloseWrite(w)
      PROVE  /\ DOMAIN session \subseteq DOMAIN session'
             /\ \A s \in quiet' :
                  \/ s \in quiet /\ session'[s] = session[s] /\ moved'[s] = moved[s]
                  \/ w \notin overlapped /\ s = req[w].session
  <2>1. PICK n, d : n = req[w].session /\ session' = [session EXCEPT ![n] = d]
    BY <1>5 DEF CloseWrite
  <2>2. moved' = moved
    BY <1>5 DEF CloseWrite
  <2>3. quiet' = IF w \in overlapped THEN quiet \ {n} ELSE quiet \cup {n}
    BY <1>5, <2>1 DEF CloseWrite
  <2> QED BY <1>1, <2>1, <2>2, <2>3
<1>6. UNCHANGED <<session, moved, quiet>> \/ \E w \in Worker : OpenWrite(w) \/ MoveWrite(w) \/ CloseWrite(w)
  BY Turning DEF StillTurn, PlainTurn, StampTurn, SaleCommit, TenderCommit, Move, Close
<1> QED BY <1>2, <1>3, <1>4, <1>5, <1>6

\* A request begins on a drawer that is open.
LEMMA DrawerBegins ==
  ASSUME SalesOK, [Next]_vars, NEW v \in Worker, req'[v] # req[v],
         req'[v].pc \in {"close", "move"}
  PROVE  \E s \in Session :
           \/ \E a \in Int : Move(v, s, a) /\ req'[v].session = s
           \/ \E a \in Tender : Close(v, s, a) /\ req'[v].session = s
                                /\ req'[v].expected = Settlement(s, now')
<1>1. ASSUME NEW w \in Worker, NEW r, req' = [req EXCEPT ![w] = r]
      PROVE  v = w /\ req'[v] = r
  BY <1>1 DEF SalesOK
<1>2. ASSUME NEW w \in Worker, NEW r, PlainTurn(w, r) \/ StampTurn(w, r)
      PROVE  FALSE
  <2>1. req'[v] = r
    BY <1>1, <1>2 DEF PlainTurn, StampTurn, Turn
  <2>2. r.pc \in {"idle", "price", "number", "insert", "row", "inserted", "open"}
    BY <1>2 DEF PlainTurn, StampTurn, Stamped, Idle
  <2> QED BY <2>1, <2>2
<1>3. ASSUME NEW w \in Worker,
             SaleCommit(w) \/ TenderCommit(w) \/ OpenWrite(w) \/ MoveWrite(w) \/ CloseWrite(w)
      PROVE  FALSE
  <2>1. req' = [req EXCEPT ![w] = Idle]
    BY <1>3 DEF SaleCommit, TenderCommit, OpenWrite, MoveWrite, CloseWrite, End, Goto
  <2> QED BY <1>1, <2>1 DEF Idle
<1>4. ASSUME NEW w \in Worker, NEW s \in Session, NEW a \in Int, Move(w, s, a)
      PROVE  v = w /\ req'[v].session = s
  <2>1. req' = [req EXCEPT ![w] = [pc |-> "move", session |-> s, amount |-> a]]
    BY <1>4 DEF Move, Arrive
  <2> QED BY <1>1, <2>1
<1>5. ASSUME NEW w \in Worker, NEW s \in Session, NEW a \in Tender, Close(w, s, a)
      PROVE  v = w /\ req'[v].session = s /\ req'[v].expected = Settlement(s, now')
  <2>1. req' = [req EXCEPT ![w] = [pc |-> "close", session |-> s, counted |-> a,
                                   expected |-> Settlement(s, now')]]
    BY <1>5 DEF Close, Arrive
  <2> QED BY <1>1, <2>1
<1>6. ~StillTurn
  BY DEF StillTurn
<1> QED BY <1>2, <1>3, <1>4, <1>5, <1>6, Turning

\* Requests on a drawer stay away from the quiet ones.
LEMMA DrawersStayInFlight ==
  ASSUME SalesOK, DrawersOK, ReprintInv, [Next]_vars
  PROVE  DrawersInFlight'
<1> USE DEF till
<1> SUFFICES ASSUME NEW v \in Worker, req'[v].pc \in {"close", "move"}
             PROVE  req'[v].session \in DOMAIN session' /\ req'[v].session \notin quiet'
  BY DEF DrawersInFlight
<1>1. CASE req'[v] = req[v]
  <2>1. req[v].session \in DOMAIN session /\ req[v].session \notin quiet
    BY <1>1 DEF ReprintInv, DrawersInFlight
  <2>2. ASSUME NEW w \in Worker, CloseWrite(w), w \notin overlapped
        PROVE  FALSE
    <3>1. req[w] # Idle /\ req[v] # Idle
      BY <1>1, <2>2 DEF CloseWrite, Idle
    <3>2. w = v
      BY <2>2, <3>1 DEF ReprintInv, Unmet
    <3>3. req'[w] = Idle
      BY <2>2 DEF CloseWrite, End, Goto, SalesOK
    <3> QED BY <1>1, <3>1, <3>2, <3>3
  <2> QED BY <1>1, <2>1, <2>2, DrawersKept DEF ReprintInv
<1>2. CASE req'[v] # req[v]
  <2>1. PICK s \in Session : /\ req'[v].session = s
                             /\ \/ \E a \in Int : Move(v, s, a)
                                \/ \E a \in Tender : Close(v, s, a)
    BY <1>2, DrawerBegins
  <2>2. IsOpen(s) /\ UNCHANGED <<session, quiet>>
    BY <2>1 DEF Move, Close
  <2>3. s \notin quiet
    BY <2>2 DEF IsOpen, ReprintInv, QuietOnesReprint
  <2> QED BY <2>1, <2>2, <2>3 DEF IsOpen
<1> QED BY <1>1, <1>2

\* A settlement that was true when a closing began stays so while it meets no
\* other request.
LEMMA ClosingsStayFresh ==
  ASSUME SalesOK, ReprintInv, [Next]_vars
  PROVE  ClosingsAreFresh'
<1> USE DEF till, money
<1> SUFFICES ASSUME NEW v \in Worker, req'[v].pc = "close", v \notin overlapped'
             PROVE  req'[v].expected = Settlement(req[v].session, now)'
  BY DEF ClosingsAreFresh
<1>0. PICK m : m = req'[v].session
  OBVIOUS
<1>00. Settlement(req[v].session, now)' = Settlement(m, now)'
  BY <1>0 DEF Settlement
<1>1. CASE req'[v] = req[v]
  <2>1. req[v] # Idle /\ req'[v] # Idle
    BY <1>1 DEF Idle
  <2>2. ASSUME NEW w \in Worker, NEW r, Turn(w, r)
        PROVE  v \notin overlapped /\ v = w /\ r = req[v]
    <3>1. v \notin overlapped /\ v = w
      BY <2>1, <2>2, AloneMoves DEF ReprintInv
    <3>2. req'[w] = r
      BY <2>2 DEF Turn, SalesOK
    <3> QED BY <1>1, <3>1, <3>2
  <2>3. StillTurn
    <3>1. ASSUME NEW w \in Worker, NEW r, PlainTurn(w, r) \/ StampTurn(w, r)
          PROVE  FALSE
      <4>1. r.pc \in {"idle", "price", "number", "insert", "row", "inserted", "open"}
        BY <3>1 DEF PlainTurn, StampTurn, Stamped, Idle
      <4> QED BY <1>1, <2>2, <3>1, <4>1 DEF PlainTurn, StampTurn
    <3>2. ASSUME NEW w \in Worker,
                 SaleCommit(w) \/ TenderCommit(w) \/ OpenWrite(w) \/ MoveWrite(w) \/ CloseWrite(w)
          PROVE  FALSE
      <4>1. Turn(w, Idle)
        BY <3>2 DEF SaleCommit, TenderCommit, OpenWrite, MoveWrite, CloseWrite, End, Goto,
                    Turn, Idle
      <4> QED BY <2>1, <2>2, <4>1
    <3>3. ASSUME NEW w \in Worker,
                 \/ \E s \in Session, a \in Int : Move(w, s, a)
                 \/ \E s \in Session, a \in Tender : Close(w, s, a)
          PROVE  FALSE
      <4>1. req[w] = Idle /\ \E r : Turn(w, r)
        BY <3>3 DEF Move, Close, Arrive, Turn
      <4> QED BY <2>1, <2>2, <4>1
    <3> QED BY <3>1, <3>2, <3>3, Turning
  <2>4. PICK n, t : n = req[v].session /\ t = now
    OBVIOUS
  <2>5. req[v].expected = Settlement(n, t)
    BY <1>1, <2>3, <2>4 DEF StillTurn, ReprintInv, ClosingsAreFresh
  <2>6. Settlement(n, now)' = Settlement(n, now)
    BY <2>3 DEF StillTurn, Settlement
  <2> QED BY <1>0, <1>00, <1>1, <2>4, <2>5, <2>6
<1>2. CASE req'[v] # req[v]
  <2>1. PICK s, a : /\ Close(v, s, a) /\ req'[v].session = s
                    /\ req'[v].expected = Settlement(s, now')
    <3>1. ASSUME NEW s, NEW a, Move(v, s, a)
          PROVE  FALSE
      <4>1. req' = [req EXCEPT ![v] = [pc |-> "move", session |-> s, amount |-> a]]
        BY <3>1 DEF Move, Arrive
      <4> QED BY <4>1 DEF SalesOK
    <3> QED BY <1>2, <3>1, DrawerBegins
  <2>2. UNCHANGED <<payments, refunds, session, moved>>
    BY <2>1 DEF Close
  <2>3. Settlement(s, now)' = Settlement(s, now')
    BY <2>2 DEF Settlement
  <2> QED BY <1>0, <1>00, <2>1, <2>3
<1> QED BY <1>1, <1>2

\* No row enters the window of a session that is closed and quiet.
LEMMA WindowsStay ==
  ASSUME SalesOK, SalesOK', QuietOnesReprint, Stamping, NEW s \in quiet, NEW from
  PROVE  LET until == session[s].closedAt
         IN  /\ Cash(payments', from, until) = Cash(payments, from, until)
             /\ Cash(refunds', from, until) = Cash(refunds, from, until)
<1> DEFINE until == session[s].closedAt
<1>1. until \in Int
  BY DEF QuietOnesReprint, Time
<1>2. ASSUME NEW p \in (payments' \ payments) \cup (refunds' \ refunds)
      PROVE  ~(p.at \in from .. until)
  <2>1. PICK w \in Worker : Stamped(req[w]) /\ p.at = StampOf(req[w])
    BY <1>2 DEF Stamping
  <2>2. StampOf(req[w]) \in Int
    BY <2>1, StampTyped DEF Time
  <2>3. until < StampOf(req[w])
    BY <2>1 DEF QuietOnesReprint
  <2> HIDE DEF until
  <2> QED BY <1>1, <2>1, <2>2, <2>3
<1> HIDE DEF until
<1> QED BY <1>2 DEF Stamping, Cash, until

\* What is so of a quiet drawer stays so.
LEMMA QuietOneStays ==
  ASSUME SalesOK, SalesOK', QuietOnesReprint, Stamping, NEW s \in quiet,
         s \in DOMAIN session', session'[s] = session[s], moved'[s] = moved[s]
  PROVE  /\ session'[s].status = "CLOSED"
         /\ session'[s].closedAt \in Time /\ session'[s].closedAt <= now'
         /\ Settlement(s, session[s].closedAt)' = session'[s].expected
         /\ \A w \in Worker : Stamped(req'[w]) => session'[s].closedAt < StampOf(req'[w])
<1>1. PICK d, c : d = session[s] /\ c = d.closedAt
  OBVIOUS
<1>2. /\ d.status = "CLOSED" /\ c \in Time /\ c <= now
      /\ Settlement(s, c) = d.expected
      /\ \A w \in Worker : Stamped(req[w]) => c < StampOf(req[w])
  BY <1>1 DEF QuietOnesReprint
<1>3. now \in Int /\ now' \in Int /\ now <= now' /\ c \in Int
  BY <1>2 DEF Stamping, Time
<1>4. c <= now'
  BY <1>2, <1>3
<1>5. /\ Cash(payments', d.openedAt, c) = Cash(payments, d.openedAt, c)
      /\ Cash(refunds', d.openedAt, c) = Cash(refunds, d.openedAt, c)
  BY <1>1, WindowsStay
<1>6. Settlement(s, c)' = Settlement(s, c)
  BY <1>1, <1>5, SettlementBy, SettlementByNext
<1>7. Settlement(s, session[s].closedAt)' = Settlement(s, c)'
  BY <1>1 DEF Settlement
<1>8. ASSUME NEW w \in Worker, Stamped(req'[w])
      PROVE  c < StampOf(req'[w])
  <2>1. CASE req'[w] = req[w]
    BY <1>2, <1>8, <2>1
  <2>2. CASE StampOf(req'[w]) = now' /\ now < now'
    BY <1>2, <1>3, <2>2
  <2> QED BY <1>8, <2>1, <2>2 DEF Stamping
<1> QED BY <1>1, <1>2, <1>4, <1>6, <1>7, <1>8

\* A closing that met no other request stores what it can compute again.
LEMMA QuietOneBegins ==
  ASSUME SalesOK, SalesOK', DrawersOK, ReprintInv, NEW w \in Worker, CloseWrite(w),
         w \notin overlapped, NEW s, s = req[w].session
  PROVE  /\ s \in DOMAIN session' /\ session'[s].status = "CLOSED"
         /\ session'[s].closedAt \in Time /\ session'[s].closedAt <= now'
         /\ Settlement(s, session[s].closedAt)' = session'[s].expected
         /\ \A v \in Worker : Stamped(req'[v]) => session'[s].closedAt < StampOf(req'[v])
<1>1. PICK o, e, t, u : /\ o = session[s] /\ e = req[w].expected /\ t = now /\ u = now'
  OBVIOUS
<1>2. s \in DOMAIN session
  BY DEF CloseWrite, ReprintInv, DrawersInFlight
<1>3. /\ session' = [session EXCEPT ![s] =
           [status |-> "CLOSED", openedAt |-> o.openedAt, float |-> o.float,
            closedAt |-> u, counted |-> req[w].counted, expected |-> e]]
      /\ Stamp
  BY <1>1 DEF CloseWrite
<1>4. /\ s \in DOMAIN session' /\ session'[s].status = "CLOSED"
      /\ session'[s].openedAt = o.openedAt /\ session'[s].float = o.float
      /\ session'[s].closedAt = u /\ session'[s].expected = e
  BY <1>2, <1>3
<1>5. t \in Int /\ u = t + 1 /\ u \in Time
  BY <1>1, <1>3 DEF SalesOK, Stamp, Time
<1>6. UNCHANGED <<payments, refunds, moved>>
  BY DEF CloseWrite, money
<1>7. /\ Cash(payments, o.openedAt, u) = Cash(payments, o.openedAt, t)
      /\ Cash(refunds, o.openedAt, u) = Cash(refunds, o.openedAt, t)
  <2>1. ASSUME NEW p \in payments \cup refunds
        PROVE  p.at \in Int /\ p.at <= t
    <3>1. p.at \in Int
      BY <2>1 DEF SalesOK, Row, Time
    <3> QED BY <1>1, <2>1, <3>1 DEF ReprintInv, RowsArePast
  <2>2. \A p \in payments \cup refunds : p.at \in o.openedAt .. u <=> p.at \in o.openedAt .. t
    BY <1>5, <2>1
  <2> QED BY <2>2 DEF Cash
<1>8. Settlement(s, u)' = Settlement(s, t)
  <2>1. Settlement(s, u)' =
          Settled(session'[s], moved'[s], Cash(payments', session'[s].openedAt, u),
                  Cash(refunds', session'[s].openedAt, u))
    BY SettlementByNext
  <2>2. Settlement(s, t) =
          Settled(session[s], moved[s], Cash(payments, session[s].openedAt, t),
                  Cash(refunds, session[s].openedAt, t))
    BY SettlementBy
  <2> QED BY <1>1, <1>4, <1>6, <1>7, <2>1, <2>2 DEF Settled
<1>9. Settlement(s, t) = e
  BY <1>1 DEF CloseWrite, ReprintInv, ClosingsAreFresh
<1>10. Settlement(s, session[s].closedAt)' = Settlement(s, u)'
  BY <1>4 DEF Settlement
<1>11. \A v \in Worker : ~Stamped(req'[v])
  <2>1. req' = [v \in Worker |-> IF v = w THEN Idle ELSE req[v]]
    BY DEF CloseWrite, End, Goto, SalesOK
  <2>2. req[w] # Idle
    BY DEF CloseWrite, Idle
  <2>3. \A v \in Worker : v # w => req[v] = Idle
    BY <2>2 DEF ReprintInv, Unmet
  <2> QED BY <2>1, <2>3 DEF Stamped, Idle
<1> QED BY <1>1, <1>4, <1>5, <1>8, <1>9, <1>10, <1>11

\* All of it stays so.
LEMMA ReprintInductive ==
  ASSUME SalesOK, SalesOK', DrawersOK, ReprintInv, [Next]_vars
  PROVE  ReprintInv'
<1>1. Stamping
  BY StepsStamp
<1>2. RowsArePast' /\ Unmet' /\ DrawersInFlight' /\ ClosingsAreFresh'
  BY <1>1, RowsStayPast, UnmetStays, DrawersStayInFlight, ClosingsStayFresh DEF ReprintInv
<1>3. ASSUME NEW s \in quiet'
      PROVE  /\ s \in DOMAIN session' /\ session'[s].status = "CLOSED"
             /\ session'[s].closedAt \in Time /\ session'[s].closedAt <= now'
             /\ Settlement(s, session[s].closedAt)' = session'[s].expected
             /\ \A w \in Worker :
                  Stamped(req'[w]) => session'[s].closedAt < StampOf(req'[w])
  <2>1. QuietOnesReprint /\ DrawersInFlight
    BY DEF ReprintInv
  <2>2. CASE s \in quiet /\ session'[s] = session[s] /\ moved'[s] = moved[s]
    <3>1. s \in DOMAIN session'
      BY <2>1, <2>2, DrawersKept DEF QuietOnesReprint
    <3> QED BY <1>1, <2>1, <2>2, <3>1, QuietOneStays
  <2>3. ASSUME NEW w \in Worker, CloseWrite(w), w \notin overlapped, s = req[w].session
        PROVE  /\ s \in DOMAIN session' /\ session'[s].status = "CLOSED"
               /\ session'[s].closedAt \in Time /\ session'[s].closedAt <= now'
               /\ Settlement(s, session[s].closedAt)' = session'[s].expected
               /\ \A v \in Worker :
                    Stamped(req'[v]) => session'[s].closedAt < StampOf(req'[v])
    BY <2>3, QuietOneBegins
  <2> QED BY <1>3, <2>1, <2>2, <2>3, DrawersKept
<1>4. QuietOnesReprint'
  BY <1>3 DEF QuietOnesReprint, Stamped, StampOf
<1> QED BY <1>2, <1>4 DEF ReprintInv

\* What close() stored for a session is what getById() computes again, at any
\* later time and whatever overlaps, if its closing met no other request on its
\* way ("The Z-report reprints identically forever", cash.service.ts:107).
THEOREM QuietClosings == Spec => []QuietClosingsReprint
<1>1. Init => ReprintInv
  BY DEF Init, ReprintInv, RowsArePast, Unmet, DrawersInFlight, ClosingsAreFresh,
         QuietOnesReprint, Stamped, Idle
<1>2. SalesOK /\ SalesOK' /\ DrawersOK /\ ReprintInv /\ [Next]_vars => ReprintInv'
  BY ReprintInductive
<1>3. ReprintInv => QuietClosingsReprint
  BY DEF ReprintInv, QuietOnesReprint, QuietClosingsReprint
<1> QED BY <1>1, <1>2, <1>3, SalesTyping, DrawersTyping, PTL DEF Spec
=============================================================================
