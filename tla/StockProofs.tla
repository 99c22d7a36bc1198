---------------------------- MODULE StockProofs ----------------------------
(***************************************************************************)
(* Theorems about Stock, for every set of items, sales, counts, purchase   *)
(* orders, workers and keys, every recipe, and every bound.                *)
(***************************************************************************)
EXTENDS Stock, SumLemmas, SequenceTheorems

\* What a request in the middle of an operation is.
LEMMA RequestShapes ==
  ASSUME NEW r \in Request
  PROVE  /\ r.pc = "move" => r \in MoveRequest
         /\ r.pc = "sell" => r \in SellRequest
         /\ r.pc = "recipe" => r \in RecipeRequest
         /\ r.pc = "prepare" => r \in PrepareRequest
         /\ r.pc \in {"left", "waste"} => r \in WasteRequest
         /\ r.pc = "submit" => r \in SubmitRequest
         /\ r.pc = "transition" => r \in TransitionRequest
         /\ r.pc = "idle" <=> r = Idle
  BY DEF Request, Idle, MoveRequest, SellRequest, RecipeRequest, PrepareRequest,
         WasteRequest, SubmitRequest, TransitionRequest

\* What the table of batches holds.
LEMMA BatchFields ==
  ASSUME batch \in Seq(Batches), NEW b \in DOMAIN batch
  PROVE  /\ b \in 1 .. Len(batch)
         /\ batch[b] \in Batches
         /\ batch[b].left \in Int
         /\ batch[b].dish \in Dish
  <1>1. DOMAIN batch = 1 .. Len(batch) /\ batch[b] \in Batches
    BY ElementOfSeq, LenProperties
  <1>2. QED
    BY <1>1 DEF Batches

\* A table of as many batches is again a table.
LEMMA SameLength ==
  ASSUME batch \in Seq(Batches), NEW t \in [DOMAIN batch -> Batches]
  PROVE  t \in Seq(Batches) /\ Len(t) = Len(batch) /\ DOMAIN t = DOMAIN batch
  <1>1. DOMAIN batch = 1 .. Len(batch) /\ Len(batch) \in Nat
    BY LenProperties
  <1>2. t = [b \in 1 .. Len(batch) |-> t[b]] /\ \A b \in 1 .. Len(batch) : t[b] \in Batches
    BY <1>1
  <1>3. t \in Seq(Batches)
    BY <1>1, <1>2, IsASeq
  <1>4. QED
    BY <1>1, <1>3, LenProperties

\* A sale takes from a batch no more than it had left when the sale looked, and
\* never gives (allocateFefo): whatever the sooner batches hold.
LEMMA DrawnWithinLeft ==
  ASSUME batch \in Seq(Batches), NEW need, NEW b \in DOMAIN batch
  PROVE  LET drawn == Drawn(batch, need, clock)[b]
         IN  /\ drawn \in Nat
             /\ drawn = 0 \/ drawn <= batch[b].left
  <1>1. batch[b].left \in Int
    BY BatchFields
  <1>2. ASSUME NEW x, batch[b].left > 0
        PROVE  Between(x, batch[b].left) \in 0 .. batch[b].left
    BY <1>1, <1>2 DEF Between
  <1>3. ASSUME NEW dish, b \in LiveBatches(batch, dish, clock)
        PROVE  batch[b].left > 0
    BY <1>3 DEF LiveBatches, Live
  <1>. DEFINE live == LiveBatches(batch, batch[b].dish, clock)
              before == need[batch[b].dish]
                - MapThenSumSet(LAMBDA a : batch[a].left,
                                {a \in live : Sooner(batch, a, b)})
  <1>4. Drawn(batch, need, clock)[b]
          = IF b \notin live THEN 0 ELSE Between(before, batch[b].left)
    BY DEF Drawn
  <1>. HIDE DEF before
  <1>5. QED
    BY <1>1, <1>2, <1>3, <1>4

\* An allocation made from the live batches is a quantity of each.
LEMMA DrawnNowTyped ==
  ASSUME batch \in Seq(Batches), NEW need
  PROVE  DrawnNow(need) \in [Batch -> Nat]
  BY DrawnWithinLeft DEF DrawnNow

\* Scaling a recipe gives quantities.
LEMMA ScaledTyped ==
  ASSUME NEW f \in Formula, NEW planned \in Nat
  PROVE  Scaled(f.needs, f.yield, planned) \in Quantities
  <1>1. f.yield \in Nat \ {0} /\ f.needs \in Quantities
    BY StockAssumption
  <1>2. ASSUME NEW a \in Nat, NEW b \in Nat \ {0}
        PROVE  Rounded(a, b) \in Nat
    <2>1. 2 * a + b \in Nat /\ 2 * b \in Nat /\ 2 * b > 0
      BY <1>2
    <2>2. ASSUME NEW x \in Nat, NEW y \in Nat, y > 0
          PROVE  x \div y \in Nat
      BY <2>2
    <2>3. QED
      BY <2>1, <2>2 DEF Rounded
  <1>3. \A i \in Item : f.needs[i] * planned \in Nat
    BY <1>1 DEF Quantities
  <1>4. QED
    BY <1>1, <1>2, <1>3 DEF Scaled, Quantities

-----------------------------------------------------------------------------
(* Types.                                                                  *)

\* The tables, without the requests.
TablesOK ==
  /\ stock \in [Item -> Int]
  /\ batch \in Seq(Batches) /\ Len(batch) <= MaxBatches
  /\ wasted \in [Batch -> Nat]
  /\ taken \in [Order -> [need : Quantities, from : [Batch -> Nat]]]
  /\ sale \in [Order -> {"none", "sold", "reversed"}]
  /\ rows \in [Key -> Nat]
  /\ count \in [Count -> Sheet]
  /\ purchase \in [Purchase -> [status : PurchaseStatus, lines : Quantities]]
  /\ applied \in [Count \cup Purchase -> Nat]
  /\ recipe \in Recipe
  /\ formula \in [Dish -> Formula]
  /\ clock \in 0 .. MaxTime

RequestsOK == req \in [Worker -> Request] /\ sent \in 0 .. MaxRequests

\* A step that writes nothing keeps the tables well formed.
LEMMA NothingWrittenTyped ==
  ASSUME TablesOK, NothingWritten
  PROVE  TablesOK'
  BY DEF TablesOK, NothingWritten, books, sheets, menu

\* A request arrives at a free worker.
LEMMA ArriveTyped ==
  ASSUME RequestsOK, NEW w \in Worker, NEW op, NEW r \in Request, Arrive(w, op, r)
  PROVE  RequestsOK'
  BY StockAssumption DEF RequestsOK, Arrive

\* A request goes on to its next read or write.
LEMMA GoOnTyped ==
  ASSUME RequestsOK, NEW w \in Worker, NEW r \in Request, GoOn(w, r)
  PROVE  RequestsOK'
  BY DEF RequestsOK, GoOn

\* A request ends.
LEMMA DoneTyped ==
  ASSUME RequestsOK, NEW w \in Worker, Done(w)
  PROVE  RequestsOK'
  BY GoOnTyped DEF Done, Request

\* A request that arrives is a request, and has written nothing.
LEMMA ArrivalsTyped ==
  ASSUME TablesOK, RequestsOK, NEW w \in Worker, Arrivals(w)
  PROVE  TablesOK' /\ RequestsOK'
  <1>1. ASSUME NEW i \in Item, NEW q \in Int, NEW k \in MaybeKey, Move(w, i, q, k)
        PROVE  TablesOK' /\ RequestsOK'
    <2>1. [pc |-> "move", item |-> i, quantity |-> q, key |-> k] \in Request
      BY DEF Request, MoveRequest
    <2>2. QED
      BY <1>1, <2>1, ArriveTyped, NothingWrittenTyped DEF Move
  <1>2. ASSUME NEW o \in Order, NEW n \in Amount, Sell(w, o, n)
        PROVE  TablesOK' /\ RequestsOK'
    <2>. DEFINE need == [i \in Item |-> n * recipe[i]]
                r == [pc |-> "sell", order |-> o, need |-> need, from |-> DrawnNow(need)]
    <2>1. need \in Quantities
      BY StockAssumption DEF TablesOK, Quantities
    <2>2. DrawnNow(need) \in [Batch -> Nat]
      BY DrawnNowTyped DEF TablesOK
    <2>3. Arrive(w, "sell", r) /\ NothingWritten
      BY <1>2 DEF Sell
    <2>. HIDE DEF need
    <2>4. r \in Request
      BY <2>1, <2>2 DEF Request, SellRequest
    <2>5. QED
      BY <2>3, <2>4, ArriveTyped, NothingWrittenTyped
  <1>3. ASSUME NEW o \in Order, Reverse(w, o)
        PROVE  TablesOK' /\ RequestsOK'
    <2>1. RequestsOK'
      BY <1>3, ArriveTyped DEF Reverse, Request
    <2>2. taken[o].need \in [Item -> Nat] /\ taken[o].from \in [Batch -> Nat]
      BY DEF TablesOK, Quantities
    <2>3. stock' \in [Item -> Int]
      BY <1>3, <2>2 DEF TablesOK, Reverse, Returned
    <2>4. batch' \in [DOMAIN batch -> Batches]
      <3>1. ASSUME NEW b \in DOMAIN batch
            PROVE  [batch[b] EXCEPT !.left = @ + taken[o].from[b]] \in Batches
        <4>1. b \in Batch /\ batch[b] \in Batches /\ batch[b].left \in Int
          BY BatchFields, LenProperties, StockAssumption DEF TablesOK, Batch
        <4>2. QED
          BY <2>2, <4>1 DEF Batches
      <3>2. batch' = [b \in DOMAIN batch |->
                       [batch[b] EXCEPT !.left = @ + taken[o].from[b]]]
        BY <1>3 DEF Reverse, Returned
      <3>3. QED
        BY <3>1, <3>2
    <2>5. batch' \in Seq(Batches) /\ Len(batch') <= MaxBatches
      BY <2>4, SameLength DEF TablesOK
    <2>6. QED
      BY <1>3, <2>1, <2>3, <2>5 DEF TablesOK, Reverse, sheets, menu
  <1>4. ASSUME NEW plan \in Plan, Prepare(w, plan)
        PROVE  TablesOK' /\ RequestsOK'
    <2>1. [pc |-> "recipe", plan |-> plan, attempt |-> 0] \in Request
      BY StockAssumption DEF Request, RecipeRequest
    <2>2. QED
      BY <1>4, <2>1, ArriveTyped, NothingWrittenTyped DEF Prepare
  <1>5. ASSUME NEW b \in Batch, NEW q \in Amount, NEW k \in MaybeKey, Waste(w, b, q, k)
        PROVE  TablesOK' /\ RequestsOK'
    <2>1. [pc |-> "left", batch |-> b, quantity |-> q, key |-> k] \in Request
      BY DEF Request, WasteRequest
    <2>2. QED
      BY <1>5, <2>1, ArriveTyped, NothingWrittenTyped DEF Waste
  <1>6. ASSUME NEW c \in Count, NEW counted \in Tally, Submit(w, c, counted)
        PROVE  TablesOK' /\ RequestsOK'
    <2>. DEFINE d == [i \in Item |-> IF i \in Counted(counted)
                        THEN Difference(counted[i], count[c].seen[i], stock[i])
                        ELSE 0]
                r == [pc |-> "submit", count |-> c, counted |-> counted,
                      difference |-> d]
    <2>1. counted \in [Item -> Nat \cup {Uncounted}]
      BY StockAssumption DEF Item, Uncounted
    <2>2. d \in [Item -> Int]
      BY <2>1 DEF TablesOK, Difference, Counted
    <2>3. Arrive(w, "count", r) /\ NothingWritten
      BY <1>6 DEF Submit
    <2>. HIDE DEF d
    <2>4. r \in Request
      BY <2>1, <2>2 DEF Request, SubmitRequest
    <2>5. QED
      BY <2>3, <2>4, ArriveTyped, NothingWrittenTyped
  <1>7. ASSUME NEW p \in Purchase, NEW to \in PurchaseStatus, Transition(w, p, to)
        PROVE  TablesOK' /\ RequestsOK'
    <2>1. [pc |-> "transition", purchase |-> p, to |-> to] \in Request
      BY DEF Request, TransitionRequest
    <2>2. QED
      BY <1>7, <2>1, ArriveTyped, NothingWrittenTyped DEF Transition
  <1>8. \A a \in Amount : a \in Int /\ -a \in Int
    BY StockAssumption
  <1>9. QED
    BY <1>1, <1>2, <1>3, <1>4, <1>5, <1>6, <1>7, <1>8 DEF Arrivals

\* Taking from, or giving to, each batch what a sale took keeps the table.
LEMMA StepsTyped ==
  ASSUME TablesOK, RequestsOK, NEW w \in Worker, Steps(w)
  PROVE  TablesOK' /\ RequestsOK'
  <1>. DEFINE r == req[w]
  <1>0. r \in Request
    BY DEF RequestsOK
  <1>. HIDE DEF r
  <1>1. CASE MoveWrite(w)
    <2>1. r \in MoveRequest
      BY <1>0, <1>1, RequestShapes DEF MoveWrite, At, r
    <2>2. stock' \in [Item -> Int]
      BY <1>1, <2>1 DEF TablesOK, MoveWrite, MoveRequest, r
    <2>3. rows' \in [Key -> Nat]
      BY <1>1, <2>1 DEF TablesOK, MoveWrite, MoveRequest, MaybeKey, WithKey, r
    <2>4. RequestsOK'
      BY <1>1, DoneTyped DEF MoveWrite
    <2>5. QED
      BY <1>1, <2>2, <2>3, <2>4 DEF TablesOK, MoveWrite, books, sheets, menu
  <1>2. CASE MoveLost(w) \/ WasteLost(w)
    BY <1>2, DoneTyped, NothingWrittenTyped DEF MoveLost, WasteLost
  <1>3. CASE SellWrite(w)
    <2>1. r \in SellRequest
      BY <1>0, <1>3, RequestShapes DEF SellWrite, At, r
    <2>2. r.need \in [Item -> Nat] /\ r.from \in [Batch -> Nat] /\ r.order \in Order
      BY <2>1 DEF SellRequest, Quantities
    <2>3. stock' \in [Item -> Int]
      BY <1>3, <2>2 DEF TablesOK, SellWrite, r
    <2>4. batch' \in [DOMAIN batch -> Batches]
      <3>1. ASSUME NEW b \in DOMAIN batch
            PROVE  [batch[b] EXCEPT !.left = @ - r.from[b]] \in Batches
        <4>1. b \in Batch /\ batch[b] \in Batches /\ batch[b].left \in Int
          BY BatchFields, LenProperties, StockAssumption DEF TablesOK, Batch
        <4>2. QED
          BY <2>2, <4>1 DEF Batches
      <3>2. batch' = [b \in DOMAIN batch |-> [batch[b] EXCEPT !.left = @ - r.from[b]]]
        BY <1>3 DEF SellWrite, r
      <3>3. QED
        BY <3>1, <3>2
    <2>5. batch' \in Seq(Batches) /\ Len(batch') <= MaxBatches
      BY <2>4, SameLength DEF TablesOK
    <2>6. /\ taken' \in [Order -> [need : Quantities, from : [Batch -> Nat]]]
          /\ sale' \in [Order -> {"none", "sold", "reversed"}]
      BY <1>3, <2>2 DEF TablesOK, SellWrite, Quantities, r
    <2>7. RequestsOK'
      BY <1>3, DoneTyped DEF SellWrite
    <2>8. QED
      BY <1>3, <2>3, <2>5, <2>6, <2>7 DEF TablesOK, SellWrite, sheets, menu
  <1>4. CASE PrepareRead(w)
    <2>1. r \in RecipeRequest
      BY <1>0, <1>4, RequestShapes DEF PrepareRead, At, r
    <2>. DEFINE f == formula[r.plan.dish]
                uses == Scaled(f.needs, f.yield, r.plan.planned)
                next == [pc |-> "prepare", plan |-> r.plan, uses |-> uses,
                         attempt |-> r.attempt]
    <2>2. f \in Formula /\ r.plan.planned \in Nat
      BY <2>1, StockAssumption DEF TablesOK, RecipeRequest, Plan
    <2>3. uses \in Quantities
      BY <2>2, ScaledTyped
    <2>4. Done(w) \/ GoOn(w, next)
      BY <1>4 DEF PrepareRead, r
    <2>. HIDE DEF uses
    <2>5. next \in Request
      BY <2>1, <2>3 DEF Request, PrepareRequest, RecipeRequest
    <2>6. QED
      BY <1>4, <2>4, <2>5, DoneTyped, GoOnTyped, NothingWrittenTyped DEF PrepareRead
  <1>5. CASE PrepareWrite(w)
    <2>1. r \in PrepareRequest
      BY <1>0, <1>5, RequestShapes DEF PrepareWrite, At, r
    <2>. DEFINE p == r.plan
                new == [dish |-> p.dish, made |-> p.actual, expires |-> p.expires,
                        key |-> p.key, left |-> p.actual]
    <2>2. p \in Plan /\ p.actual \in Nat /\ r.uses \in [Item -> Nat]
      BY <2>1, StockAssumption DEF PrepareRequest, Plan, Quantities
    <2>3. new \in Batches
      BY <2>2 DEF Plan, Batches
    <2>4. batch' = Append(batch, new) /\ Len(batch) < MaxBatches
      BY <1>5 DEF PrepareWrite, r
    <2>5. stock' = [i \in Item |-> stock[i] - r.uses[i]
                                     + (IF i = p.dish THEN p.actual ELSE 0)]
      BY <1>5 DEF PrepareWrite, r
    <2>. HIDE DEF new, p
    <2>6. batch' \in Seq(Batches) /\ Len(batch') <= MaxBatches
      BY <2>3, <2>4, AppendProperties, LenProperties, StockAssumption DEF TablesOK
    <2>7. stock' \in [Item -> Int]
      BY <2>2, <2>5 DEF TablesOK
    <2>8. RequestsOK'
      BY <1>5, DoneTyped DEF PrepareWrite
    <2>9. QED
      BY <1>5, <2>6, <2>7, <2>8 DEF TablesOK, PrepareWrite, books, sheets, menu
  <1>6. CASE PrepareLost(w)
    <2>1. r \in PrepareRequest
      BY <1>0, <1>6, RequestShapes DEF PrepareLost, At, r
    <2>2. CASE More(r.attempt + 1)
      <3>1. [pc |-> "recipe", plan |-> r.plan, attempt |-> r.attempt + 1] \in Request
        BY <2>1, <2>2, StockAssumption
        DEF More, Request, RecipeRequest, PrepareRequest
      <3>2. QED
        BY <1>6, <2>2, <3>1, DoneTyped, GoOnTyped, NothingWrittenTyped
        DEF PrepareLost, r
    <2>3. CASE ~More(r.attempt + 1)
      BY <1>6, <2>3, DoneTyped, NothingWrittenTyped DEF PrepareLost, r
    <2>4. QED
      BY <2>2, <2>3
  <1>7. CASE WasteRead(w)
    <2>1. r \in WasteRequest
      BY <1>0, <1>7, RequestShapes DEF WasteRead, At, r
    <2>2. [r EXCEPT !.pc = "waste"] \in Request
      BY <2>1 DEF Request, WasteRequest
    <2>3. QED
      BY <1>7, <2>2, DoneTyped, GoOnTyped, NothingWrittenTyped DEF WasteRead, r
  <1>8. CASE WasteWrite(w)
    <2>1. r \in WasteRequest
      BY <1>0, <1>8, RequestShapes DEF WasteWrite, At, r
    <2>2. r.quantity \in Nat /\ r.batch \in Batch
      BY <2>1, StockAssumption DEF WasteRequest
    <2>3. stock' \in [Item -> Int]
      <3>. DEFINE d == batch[r.batch].dish
      <3>1. stock' = [stock EXCEPT ![d] = @ - r.quantity]
        BY <1>8 DEF WasteWrite, r
      <3>. HIDE DEF d
      <3>2. stock \in [Item -> Int] /\ r.quantity \in Int
        BY <2>2 DEF TablesOK
      <3>. HIDE DEF r
      <3>3. stock' = [i \in Item |-> IF i = d THEN stock[i] - r.quantity ELSE stock[i]]
        BY <3>1, <3>2
      <3>4. QED
        BY <3>2, <3>3
    <2>4. batch' \in [DOMAIN batch -> Batches]
      <3>1. batch' = [batch EXCEPT ![r.batch].left = @ - r.quantity]
        BY <1>8 DEF WasteWrite, r
      <3>2. ASSUME NEW b \in DOMAIN batch
            PROVE  /\ batch[b] \in Batches
                   /\ [batch[b] EXCEPT !.left = @ - r.quantity] \in Batches
        <4>1. batch[b] \in Batches /\ batch[b].left \in Int
          BY BatchFields DEF TablesOK
        <4>2. QED
          BY <2>2, <4>1 DEF Batches
      <3>3. batch \in [DOMAIN batch -> Batches]
        BY LenProperties DEF TablesOK
      <3>4. QED
        BY <3>1, <3>2, <3>3
    <2>5. batch' \in Seq(Batches) /\ Len(batch') <= MaxBatches
      BY <2>4, SameLength DEF TablesOK
    <2>6. wasted' \in [Batch -> Nat] /\ rows' \in [Key -> Nat]
      BY <1>8, <2>1, <2>2 DEF TablesOK, WasteWrite, WasteRequest, MaybeKey, WithKey, r
    <2>7. RequestsOK'
      BY <1>8, DoneTyped DEF WasteWrite
    <2>8. QED
      BY <1>8, <2>3, <2>5, <2>6, <2>7 DEF TablesOK, WasteWrite, books, sheets, menu
  <1>9. CASE SubmitWrite(w)
    <2>1. r \in SubmitRequest
      BY <1>0, <1>9, RequestShapes DEF SubmitWrite, At, r
    <2>2. stock' \in [Item -> Int]
      BY <1>9, <2>1 DEF TablesOK, SubmitWrite, SubmitRequest, r
    <2>3. count' \in [Count -> Sheet] /\ applied' \in [Count \cup Purchase -> Nat]
      <3>1. /\ count' = [count EXCEPT ![r.count].status = "COMPLETED"]
            /\ applied' = [applied EXCEPT ![r.count] = @ + 1]
            /\ r.count \in Count
        BY <1>9, <2>1 DEF SubmitWrite, SubmitRequest, r
      <3>. HIDE DEF r
      <3>2. count[r.count] \in Sheet
        BY <3>1 DEF TablesOK
      <3>3. [count[r.count] EXCEPT !.status = "COMPLETED"] \in Sheet
        BY <3>2 DEF Sheet, CountStatus
      <3>4. count' \in [Count -> Sheet]
        BY <3>1, <3>3 DEF TablesOK
      <3>5. applied' \in [Count \cup Purchase -> Nat]
        BY <3>1 DEF TablesOK
      <3>6. QED
        BY <3>4, <3>5
    <2>4. RequestsOK'
      BY <1>9, DoneTyped DEF SubmitWrite
    <2>5. QED
      BY <1>9, <2>2, <2>3, <2>4 DEF TablesOK, SubmitWrite, books, menu
  <1>10. CASE TransitionWrite(w)
    <2>1. r \in TransitionRequest
      BY <1>0, <1>10, RequestShapes DEF TransitionWrite, At, r
    <2>2. r.purchase \in Purchase /\ r.to \in PurchaseStatus
      BY <2>1 DEF TransitionRequest
    <2>3. purchase[r.purchase].lines \in [Item -> Nat]
      BY <2>2 DEF TablesOK, Quantities
    <2>4. stock' \in [Item -> Int]
      BY <1>10, <2>3 DEF TablesOK, TransitionWrite, r
    <2>5. /\ purchase' \in [Purchase -> [status : PurchaseStatus, lines : Quantities]]
          /\ applied' \in [Count \cup Purchase -> Nat]
      <3>. DEFINE Slip == [status : PurchaseStatus, lines : Quantities]
      <3>1. /\ purchase' = [purchase EXCEPT ![r.purchase].status = r.to]
            /\ \/ applied' = [applied EXCEPT ![r.purchase] = @ + 1]
               \/ applied' = applied
        BY <1>10 DEF TransitionWrite, r
      <3>. HIDE DEF r
      <3>2. [purchase[r.purchase] EXCEPT !.status = r.to] \in Slip
        BY <2>2 DEF TablesOK
      <3>3. purchase' \in [Purchase -> Slip]
        BY <2>2, <3>1, <3>2 DEF TablesOK
      <3>4. applied' \in [Count \cup Purchase -> Nat]
        <4>1. applied \in [Count \cup Purchase -> Nat]
          BY DEF TablesOK
        <4>2. QED
          BY <3>1, <4>1
      <3>5. QED
        BY <3>3, <3>4
    <2>6. RequestsOK'
      BY <1>10, DoneTyped DEF TransitionWrite
    <2>7. QED
      BY <1>10, <2>4, <2>5, <2>6 DEF TablesOK, TransitionWrite, books, menu
  <1>11. QED
    BY <1>1, <1>2, <1>3, <1>4, <1>5, <1>6, <1>7, <1>8, <1>9, <1>10 DEF Steps

\* What happens beside the requests keeps the types.
LEMMA OthersTyped ==
  ASSUME TablesOK, RequestsOK, Next,
         \A w \in Worker : ~Arrivals(w) /\ ~Steps(w) /\ ~Abort(w)
  PROVE  TablesOK' /\ RequestsOK'
  <1>1. ASSUME NEW c \in Count, CancelCount(c)
        PROVE  TablesOK' /\ RequestsOK'
    <2>1. count' \in [Count -> Sheet]
      BY <1>1 DEF TablesOK, CancelCount, Sheet, CountStatus
    <2>2. QED
      BY <1>1, <2>1 DEF TablesOK, RequestsOK, CancelCount, books, menu
  <1>2. ASSUME NEW c \in Count, NEW S \in SUBSET Item, StartCount(c, S)
        PROVE  TablesOK' /\ RequestsOK'
    <2>1. [status |-> "OPEN", lines |-> S,
           seen |-> [i \in Item |-> IF i \in S THEN stock[i] ELSE 0]] \in Sheet
      BY DEF TablesOK, Sheet, CountStatus
    <2>2. count' \in [Count -> Sheet]
      BY <1>2, <2>1 DEF TablesOK, StartCount
    <2>3. QED
      BY <1>2, <2>2 DEF TablesOK, RequestsOK, StartCount, books, menu
  <1>3. ASSUME NEW p \in Purchase, NEW lines \in Lines, Draft(p, lines)
        PROVE  TablesOK' /\ RequestsOK'
    <2>1. purchase' \in [Purchase -> [status : PurchaseStatus, lines : Quantities]]
      BY <1>3, StockAssumption DEF TablesOK, Draft, PurchaseStatus
    <2>2. QED
      BY <1>3, <2>1 DEF TablesOK, RequestsOK, Draft, books, menu
  <1>4. CASE SetRecipe
    BY <1>4 DEF TablesOK, RequestsOK, SetRecipe, books, sheets
  <1>5. ASSUME NEW d \in Dish, SetFormula(d)
        PROVE  TablesOK' /\ RequestsOK'
    BY <1>5 DEF TablesOK, RequestsOK, SetFormula, books, sheets
  <1>6. CASE Tick
    BY <1>6, StockAssumption DEF TablesOK, RequestsOK, Tick, books, sheets, menu
  <1>7. QED
    BY <1>1, <1>2, <1>3, <1>4, <1>5, <1>6 DEF Next

\* Every table and every request has its type in every reachable state.
THEOREM Typing == Spec => []TypeOK
  <1>. DEFINE Typed == TablesOK /\ RequestsOK
  <1>1. Typed <=> TypeOK
    BY DEF TablesOK, RequestsOK, TypeOK
  <1>2. Init => Typed
    <2>1. ASSUME Init
          PROVE  TablesOK
      <3>1. Nothing \in [need : Quantities, from : [Batch -> Nat]]
        BY DEF Nothing, Quantities
      <3>2. <<>> \in Seq(Batches) /\ Len(<<>>) = 0
        BY EmptySeq
      <3>3. QED
        BY <2>1, <3>1, <3>2, StockAssumption
        DEF Init, TablesOK, Item, Sheet, CountStatus, PurchaseStatus, Quantities
    <2>2. Init => RequestsOK
      BY StockAssumption DEF Init, RequestsOK, Request
    <2>3. QED
      BY <2>1, <2>2
  <1>3. Typed /\ [Next]_vars => Typed'
    <2>1. ASSUME Typed, NEW w \in Worker, Arrivals(w) \/ Steps(w) \/ Abort(w)
          PROVE  Typed'
      BY <2>1, ArrivalsTyped, StepsTyped, DoneTyped, NothingWrittenTyped DEF Abort
    <2>2. CASE UNCHANGED vars
      BY <2>2 DEF vars, books, sheets, menu, TablesOK, RequestsOK
    <2>3. QED
      BY <2>1, <2>2, OthersTyped
  <1>4. QED
    BY <1>1, <1>2, <1>3, PTL DEF Spec

-----------------------------------------------------------------------------
(* A count or a purchase order is booked once.                             *)

\* A request that has a count or a purchase order locked still finds it in the
\* status it read, and is alone with it.
LocksKeepTheStatus ==
  \A w \in Worker :
    /\ At(w, "submit") =>
         /\ count[req[w].count].status = "OPEN"
         /\ \A v \in Worker :
              At(v, "submit") /\ req[v].count = req[w].count => v = w
    /\ At(w, "transition") =>
         /\ req[w].to \in Transitions[purchase[req[w].purchase].status]
         /\ \A v \in Worker :
              At(v, "transition") /\ req[v].purchase = req[w].purchase => v = w

\* No step but a submit or a transition takes a lock, and no step but theirs, a
\* start, a cancel or a draft writes a count or a purchase order.
LEMMA Bystanders ==
  ASSUME TypeOK, Next,
         \A w \in Worker : ~SubmitWrite(w) /\ ~TransitionWrite(w),
         \A w \in Worker, c \in Count, counted \in Tally : ~Submit(w, c, counted),
         \A w \in Worker, p \in Purchase, to \in PurchaseStatus : ~Transition(w, p, to),
         \A c \in Count : ~CancelCount(c) /\ \A S \in SUBSET Item : ~StartCount(c, S),
         \A p \in Purchase, lines \in Lines : ~Draft(p, lines)
  PROVE  /\ sheets' = sheets
         /\ \A v \in Worker :
              At(v, "submit")' \/ At(v, "transition")' => req'[v] = req[v]
  <1>1. req \in [Worker -> Request]
    BY DEF TypeOK
  <1>2. ASSUME NEW w \in Worker, NEW r,
               r.pc \notin {"submit", "transition"}, req' = [req EXCEPT ![w] = r]
        PROVE  \A v \in Worker :
                 At(v, "submit")' \/ At(v, "transition")' => req'[v] = req[v]
    BY <1>1, <1>2 DEF At
  <1>3. ASSUME NEW w \in Worker, Done(w)
        PROVE  \A v \in Worker :
                 At(v, "submit")' \/ At(v, "transition")' => req'[v] = req[v]
    BY <1>2, <1>3 DEF Done, GoOn, Idle
  <1>4. ASSUME NEW w \in Worker, Arrivals(w)
        PROVE  /\ sheets' = sheets
               /\ \A v \in Worker :
                    At(v, "submit")' \/ At(v, "transition")' => req'[v] = req[v]
    <2>1. ASSUME NEW i, NEW q, NEW k, Move(w, i, q, k)
          PROVE  /\ sheets' = sheets
                 /\ \E r : r.pc = "move" /\ req' = [req EXCEPT ![w] = r]
      BY <2>1 DEF Move, Arrive, NothingWritten, sheets
    <2>2. ASSUME NEW o, NEW n, Sell(w, o, n)
          PROVE  /\ sheets' = sheets
                 /\ \E r : r.pc = "sell" /\ req' = [req EXCEPT ![w] = r]
      BY <2>2 DEF Sell, Arrive, NothingWritten, sheets
    <2>3. ASSUME NEW o, Reverse(w, o)
          PROVE  /\ sheets' = sheets
                 /\ \E r : r.pc = "idle" /\ req' = [req EXCEPT ![w] = r]
      BY <2>3 DEF Reverse, Arrive, Idle, sheets
    <2>4. ASSUME NEW plan, Prepare(w, plan)
          PROVE  /\ sheets' = sheets
                 /\ \E r : r.pc = "recipe" /\ req' = [req EXCEPT ![w] = r]
      BY <2>4 DEF Prepare, Arrive, NothingWritten, sheets
    <2>5. ASSUME NEW b, NEW q, NEW k, Waste(w, b, q, k)
          PROVE  /\ sheets' = sheets
                 /\ \E r : r.pc = "left" /\ req' = [req EXCEPT ![w] = r]
      BY <2>5 DEF Waste, Arrive, NothingWritten, sheets
    <2>6. QED
      BY <1>2, <1>4, <2>1, <2>2, <2>3, <2>4, <2>5 DEF Arrivals
  <1>5. ASSUME NEW w \in Worker, Steps(w)
        PROVE  /\ sheets' = sheets
               /\ \A v \in Worker :
                    At(v, "submit")' \/ At(v, "transition")' => req'[v] = req[v]
    <2>1. CASE PrepareRead(w)
      <3>1. sheets' = sheets
            /\ (Done(w) \/ \E r : r.pc = "prepare" /\ req' = [req EXCEPT ![w] = r])
        BY <2>1 DEF PrepareRead, GoOn, NothingWritten, sheets
      <3>2. QED
        BY <1>2, <1>3, <3>1
    <2>2. CASE PrepareLost(w)
      <3>1. sheets' = sheets
            /\ (Done(w) \/ \E r : r.pc = "recipe" /\ req' = [req EXCEPT ![w] = r])
        BY <2>2 DEF PrepareLost, GoOn, NothingWritten, sheets
      <3>2. QED
        BY <1>2, <1>3, <3>1
    <2>3. CASE WasteRead(w)
      <3>1. [req[w] EXCEPT !.pc = "waste"].pc = "waste"
        <4>1. req[w] \in WasteRequest
          BY <1>1, <2>3, RequestShapes DEF WasteRead, At
        <4>2. QED
          BY <4>1 DEF WasteRequest
      <3>2. sheets' = sheets
            /\ (Done(w) \/ \E r : r.pc = "waste" /\ req' = [req EXCEPT ![w] = r])
        BY <2>3, <3>1 DEF WasteRead, GoOn, NothingWritten, sheets
      <3>3. QED
        BY <1>2, <1>3, <3>2
    <2>4. CASE \/ MoveWrite(w) \/ MoveLost(w) \/ SellWrite(w) \/ PrepareWrite(w)
               \/ WasteWrite(w) \/ WasteLost(w)
      BY <1>3, <2>4
      DEF MoveWrite, MoveLost, SellWrite, PrepareWrite, WasteWrite, WasteLost,
          NothingWritten, sheets
    <2>5. QED
      BY <1>5, <2>1, <2>2, <2>3, <2>4 DEF Steps
  <1>6. ASSUME NEW w \in Worker, Abort(w)
        PROVE  /\ sheets' = sheets
               /\ \A v \in Worker :
                    At(v, "submit")' \/ At(v, "transition")' => req'[v] = req[v]
    BY <1>3, <1>6 DEF Abort, NothingWritten, sheets
  <1>7. CASE SetRecipe \/ (\E d \in Dish : SetFormula(d)) \/ Tick
    BY <1>7 DEF SetRecipe, SetFormula, Tick, sheets
  <1>8. QED
    BY <1>4, <1>5, <1>6, <1>7 DEF Next

\* A lock that goes on keeps the status when the locked row does.
LEMMA LocksGoOn ==
  ASSUME TypeOK, LocksKeepTheStatus,
         \A v \in Worker :
           At(v, "submit")' \/ At(v, "transition")' => req'[v] = req[v],
         \A v \in Worker :
           At(v, "submit")' => count'[req[v].count].status = count[req[v].count].status,
         \A v \in Worker :
           At(v, "transition")' =>
             purchase'[req[v].purchase].status = purchase[req[v].purchase].status
  PROVE  LocksKeepTheStatus'
  <1>1. \A v \in Worker : /\ At(v, "submit")' => At(v, "submit")
                          /\ At(v, "transition")' => At(v, "transition")
    BY DEF At
  <1>2. QED
    BY <1>1 DEF LocksKeepTheStatus

\* The booking and the end of a count or a purchase order go together.
LEMMA WritesBookOnce ==
  ASSUME TypeOK, LocksKeepTheStatus, BookedOnce, NEW w \in Worker,
         SubmitWrite(w) \/ TransitionWrite(w)
  PROVE  LocksKeepTheStatus' /\ BookedOnce'
  <1>1. /\ req[w] \in Request /\ req' = [req EXCEPT ![w] = Idle]
        /\ req \in [Worker -> Request]
    BY DEF TypeOK, SubmitWrite, TransitionWrite, Done, GoOn
  <1>2. ~At(w, "submit")' /\ ~At(w, "transition")'
    BY <1>1 DEF At, Idle
  <1>3. \A v \in Worker \ {w} : req'[v] = req[v]
    BY <1>1
  <1>4. /\ count \in [Count -> Sheet] /\ applied \in [Count \cup Purchase -> Nat]
        /\ purchase \in [Purchase -> [status : PurchaseStatus, lines : Quantities]]
        /\ Count \cap Purchase = {}
    BY StockAssumption DEF TypeOK
  <1>5. CASE SubmitWrite(w)
    <2>. DEFINE c == req[w].count
    <2>1. /\ c \in Count /\ At(w, "submit") /\ count[c].status = "OPEN"
          /\ count' = [count EXCEPT ![c].status = "COMPLETED"]
          /\ applied' = [applied EXCEPT ![c] = @ + 1]
          /\ purchase' = purchase
      BY <1>1, <1>5, RequestShapes
      DEF SubmitWrite, At, SubmitRequest, LocksKeepTheStatus
    <2>2. \A v \in Worker : At(v, "submit")' => req[v].count # c
      BY <1>2, <1>3, <2>1 DEF LocksKeepTheStatus, At
    <2>3. \A x \in Count \ {c} : count'[x] = count[x] /\ applied'[x] = applied[x]
      BY <1>4, <2>1
    <2>4. \A p \in Purchase : purchase'[p] = purchase[p] /\ applied'[p] = applied[p]
      BY <1>4, <2>1
    <2>5. count'[c].status = "COMPLETED" /\ applied'[c] = 1
      <3>1. applied[c] = 0
        BY <2>1 DEF BookedOnce
      <3>2. QED
        BY <1>4, <2>1, <3>1 DEF Sheet
    <2>6. BookedOnce'
      BY <2>3, <2>4, <2>5 DEF BookedOnce
    <2>7. \A v \in Worker :
            At(v, "submit")' => req[v].count \in Count \ {c}
      <3>1. ASSUME NEW v \in Worker, At(v, "submit")'
            PROVE  req[v].count \in Count
        BY <1>1, <1>2, <1>3, <3>1, RequestShapes DEF At, SubmitRequest
      <3>2. QED
        BY <2>2, <3>1
    <2>8. LocksKeepTheStatus'
      BY <1>2, <1>3, <2>1, <2>3, <2>7, LocksGoOn
    <2>9. QED
      BY <2>6, <2>8
  <1>6. CASE TransitionWrite(w)
    <2>. DEFINE p == req[w].purchase
                to == req[w].to
    <2>1. /\ p \in Purchase /\ to \in PurchaseStatus /\ At(w, "transition")
          /\ to \in Transitions[purchase[p].status]
          /\ purchase' = [purchase EXCEPT ![p].status = to]
          /\ applied' = IF to = "RECEIVED" THEN [applied EXCEPT ![p] = @ + 1] ELSE applied
          /\ count' = count
      BY <1>1, <1>6, RequestShapes
      DEF TransitionWrite, At, TransitionRequest, LocksKeepTheStatus
    <2>. HIDE DEF to
    <2>2. \A v \in Worker : At(v, "transition")' => req[v].purchase # p
      BY <1>2, <1>3, <2>1 DEF LocksKeepTheStatus, At
    <2>3. \A x \in Purchase \ {p} :
            purchase'[x] = purchase[x] /\ applied'[x] = applied[x]
      BY <1>4, <2>1
    <2>4. \A c \in Count : count'[c] = count[c] /\ applied'[c] = applied[c]
      BY <1>4, <2>1
    <2>5. /\ purchase'[p].status = to
          /\ applied'[p] = IF to = "RECEIVED" THEN 1 ELSE 0
      <3>1. purchase[p].status # "RECEIVED"
        BY <1>4, <2>1 DEF Transitions, PurchaseStatus
      <3>2. applied[p] = 0
        BY <2>1, <3>1 DEF BookedOnce
      <3>3. QED
        BY <1>4, <2>1, <3>2
    <2>6. BookedOnce'
      BY <2>3, <2>4, <2>5 DEF BookedOnce
    <2>7. \A v \in Worker :
            At(v, "transition")' => req[v].purchase \in Purchase \ {p}
      <3>1. ASSUME NEW v \in Worker, At(v, "transition")'
            PROVE  req[v].purchase \in Purchase
        BY <1>1, <1>2, <1>3, <3>1, RequestShapes DEF At, TransitionRequest
      <3>2. QED
        BY <2>2, <3>1
    <2>8. LocksKeepTheStatus'
      BY <1>2, <1>3, <2>1, <2>3, <2>7, LocksGoOn
    <2>9. QED
      BY <2>6, <2>8
  <1>7. QED
    BY <1>5, <1>6

\* A lock is taken on a row nobody has locked, in the status it is in.
LEMMA LocksAreTaken ==
  ASSUME TypeOK, LocksKeepTheStatus, BookedOnce, NEW w \in Worker,
         \/ \E c \in Count, counted \in Tally : Submit(w, c, counted)
         \/ \E p \in Purchase, to \in PurchaseStatus : Transition(w, p, to)
  PROVE  LocksKeepTheStatus' /\ BookedOnce'
  <1>1. sheets' = sheets /\ req \in [Worker -> Request]
    BY DEF TypeOK, Submit, Transition, NothingWritten, sheets
  <1>2. BookedOnce'
    BY <1>1 DEF BookedOnce, sheets
  <1>3. ASSUME NEW c \in Count, NEW counted \in Tally, Submit(w, c, counted)
        PROVE  LocksKeepTheStatus'
    <2>1. /\ count[c].status = "OPEN" /\ ~Held(c)
          /\ req'[w].pc = "submit" /\ req'[w].count = c
          /\ \A v \in Worker \ {w} : req'[v] = req[v]
      <3>1. \E r : r.pc = "submit" /\ r.count = c /\ req' = [req EXCEPT ![w] = r]
        BY <1>3 DEF Submit, Arrive
      <3>2. QED
        BY <1>1, <1>3, <3>1 DEF Submit
    <2>2. \A v \in Worker \ {w} : At(v, "submit") => req[v].count # c
      BY <2>1 DEF Held
    <2>3. QED
      BY <1>1, <2>1, <2>2 DEF LocksKeepTheStatus, At, sheets
  <1>4. ASSUME NEW p \in Purchase, NEW to \in PurchaseStatus, Transition(w, p, to)
        PROVE  LocksKeepTheStatus'
    <2>1. /\ to \in Transitions[purchase[p].status] /\ ~Held(p)
          /\ req'[w].pc = "transition" /\ req'[w].purchase = p /\ req'[w].to = to
          /\ \A v \in Worker \ {w} : req'[v] = req[v]
      <3>1. \E r : /\ r.pc = "transition" /\ r.purchase = p /\ r.to = to
                   /\ req' = [req EXCEPT ![w] = r]
        BY <1>4 DEF Transition, Arrive
      <3>2. QED
        BY <1>1, <1>4, <3>1 DEF Transition
    <2>2. \A v \in Worker \ {w} : At(v, "transition") => req[v].purchase # p
      BY <2>1 DEF Held
    <2>3. QED
      BY <1>1, <2>1, <2>2 DEF LocksKeepTheStatus, At, sheets
  <1>5. QED
    BY <1>2, <1>3, <1>4

\* A start, a cancel or a draft writes a row nobody has locked and nothing was
\* booked for.
LEMMA UnlockedWrites ==
  ASSUME TypeOK, LocksKeepTheStatus, BookedOnce,
         \/ \E c \in Count : CancelCount(c) \/ \E S \in SUBSET Item : StartCount(c, S)
         \/ \E p \in Purchase, lines \in Lines : Draft(p, lines)
  PROVE  LocksKeepTheStatus' /\ BookedOnce'
  <1>1. req' = req /\ applied' = applied /\ req \in [Worker -> Request]
    BY DEF TypeOK, CancelCount, StartCount, Draft
  <1>2. /\ count \in [Count -> Sheet]
        /\ purchase \in [Purchase -> [status : PurchaseStatus, lines : Quantities]]
    BY DEF TypeOK
  <1>3. ASSUME NEW c \in Count, CancelCount(c) \/ \E S \in SUBSET Item : StartCount(c, S)
        PROVE  LocksKeepTheStatus' /\ BookedOnce'
    <2>1. /\ purchase' = purchase
          /\ \A x \in Count \ {c} : count'[x] = count[x]
          /\ count[c].status # "COMPLETED" /\ count'[c].status # "COMPLETED"
      BY <1>2, <1>3 DEF CancelCount, StartCount, Sheet
    <2>2. \A v \in Worker : At(v, "submit") => req[v].count # c
      BY <1>3 DEF CancelCount, StartCount, Held, LocksKeepTheStatus
    <2>3. \A v \in Worker : At(v, "submit") => req[v].count \in Count
      BY <1>1, RequestShapes DEF At, SubmitRequest
    <2>4. BookedOnce'
      BY <1>1, <2>1 DEF BookedOnce
    <2>5. LocksKeepTheStatus'
      BY <1>1, <2>1, <2>2, <2>3, LocksGoOn DEF At
    <2>6. QED
      BY <2>4, <2>5
  <1>4. ASSUME NEW p \in Purchase, NEW lines \in Lines, Draft(p, lines)
        PROVE  LocksKeepTheStatus' /\ BookedOnce'
    <2>1. /\ count' = count
          /\ \A x \in Purchase \ {p} : purchase'[x] = purchase[x]
          /\ purchase[p].status = "NONE" /\ purchase'[p].status = "DRAFT"
      BY <1>2, <1>4 DEF Draft
    <2>2. \A v \in Worker : At(v, "transition") => req[v].purchase # p
      BY <2>1 DEF LocksKeepTheStatus, Transitions
    <2>3. \A v \in Worker : At(v, "transition") => req[v].purchase \in Purchase
      BY <1>1, RequestShapes DEF At, TransitionRequest
    <2>4. BookedOnce'
      BY <1>1, <2>1 DEF BookedOnce
    <2>5. LocksKeepTheStatus'
      BY <1>1, <2>1, <2>2, <2>3, LocksGoOn DEF At
    <2>6. QED
      BY <2>4, <2>5
  <1>5. QED
    BY <1>3, <1>4

\* A count is booked if and only if it is completed, and once; a purchase order
\* if and only if it is received, and once.
THEOREM BooksAreBookedOnce == Spec => []BookedOnce
  <1>. DEFINE Inv == LocksKeepTheStatus /\ BookedOnce
  <1>1. Init => Inv
    BY DEF Init, Idle, At, LocksKeepTheStatus, BookedOnce
  <1>2. TypeOK /\ Inv /\ [Next]_vars => Inv'
    <2>1. CASE UNCHANGED vars
      BY <2>1 DEF vars, sheets, LocksKeepTheStatus, BookedOnce, At
    <2>2. ASSUME TypeOK, Inv, Next,
                 sheets' = sheets,
                 \A v \in Worker :
                   At(v, "submit")' \/ At(v, "transition")' => req'[v] = req[v]
          PROVE  Inv'
      <3>1. BookedOnce'
        BY <2>2 DEF BookedOnce, sheets
      <3>2. LocksKeepTheStatus'
        BY <2>2, LocksGoOn DEF sheets
      <3>3. QED
        BY <3>1, <3>2
    <2>3. QED
      BY <2>1, <2>2, Bystanders, WritesBookOnce, LocksAreTaken, UnlockedWrites
  <1>3. QED
    BY <1>1, <1>2, Typing, PTL DEF Spec

-----------------------------------------------------------------------------
(* A key writes once.                                                      *)

\* Movements enter with no key, or with one that no movement has.
RowsEnterOnce ==
  rows' = rows \/ \E k \in MaybeKey : ~KeyTaken(k) /\ rows' = WithKey(k)

\* Batches keep their keys.
KeysKept ==
  DOMAIN batch' = DOMAIN batch /\ \A b \in DOMAIN batch : batch'[b].key = batch[b].key

\* A batch enters with no key, or with one that no batch has.
BatchEnters ==
  \E new \in Batches : ~BatchOfKey(new.key) /\ batch' = Append(batch, new)

\* A lookup and an insert overlap with other inserts; the insert looks again, in
\* the unique index.
LEMMA KeysEnterOnce ==
  ASSUME TypeOK, [Next]_vars
  PROVE  RowsEnterOnce /\ (KeysKept \/ BatchEnters)
  <1>1. req \in [Worker -> Request] /\ batch \in Seq(Batches)
    BY DEF TypeOK
  <1>2. batch' = batch => KeysKept
    BY DEF KeysKept
  <1>3. ASSUME NEW w \in Worker, Arrivals(w)
        PROVE  rows' = rows /\ KeysKept
    <2>1. ASSUME NEW o, Reverse(w, o)
          PROVE  rows' = rows /\ KeysKept
      <3>1. /\ rows' = rows
            /\ batch' = [b \in DOMAIN batch |->
                           [batch[b] EXCEPT !.left = @ + Returned(o).from[b]]]
        BY <2>1 DEF Reverse
      <3>2. \A b \in DOMAIN batch :
              [batch[b] EXCEPT !.left = @ + Returned(o).from[b]].key = batch[b].key
        BY BatchFields, <1>1 DEF Batches
      <3>3. QED
        BY <3>1, <3>2 DEF KeysKept
    <2>2. ASSUME ~ \E o \in Order : Reverse(w, o)
          PROVE  rows' = rows /\ batch' = batch
      BY <1>3, <2>2
      DEF Arrivals, Move, Sell, Prepare, Waste, Submit, Transition, NothingWritten
    <2>3. QED
      BY <1>2, <2>1, <2>2
  <1>4. ASSUME NEW w \in Worker, MoveWrite(w)
        PROVE  RowsEnterOnce /\ KeysKept
    <2>1. req[w] \in MoveRequest
      BY <1>1, <1>4, RequestShapes DEF MoveWrite, At
    <2>2. req[w].key \in MaybeKey
      BY <2>1 DEF MoveRequest
    <2>3. QED
      BY <1>2, <1>4, <2>2 DEF MoveWrite, RowsEnterOnce
  <1>5. ASSUME NEW w \in Worker, WasteWrite(w)
        PROVE  RowsEnterOnce /\ KeysKept
    <2>1. req[w] \in WasteRequest
      BY <1>1, <1>5, RequestShapes DEF WasteWrite, At
    <2>2. req[w].key \in MaybeKey
      BY <2>1 DEF WasteRequest
    <2>. DEFINE b0 == req[w].batch
                q == req[w].quantity
    <2>3. batch' = [batch EXCEPT ![b0].left = @ - q]
      BY <1>5 DEF WasteWrite
    <2>. HIDE DEF b0, q
    <2>4. \A b \in DOMAIN batch : [batch[b] EXCEPT !.left = @ - q].key = batch[b].key
      BY BatchFields, <1>1 DEF Batches
    <2>5. DOMAIN batch' = DOMAIN batch
      BY <2>3
    <2>6. \A b \in DOMAIN batch :
            batch'[b] = IF b = b0 THEN [batch[b] EXCEPT !.left = @ - q] ELSE batch[b]
      BY <1>1, <2>3
    <2>7. KeysKept
      BY <2>4, <2>5, <2>6 DEF KeysKept
    <2>8. QED
      BY <1>5, <2>2, <2>7 DEF WasteWrite, RowsEnterOnce
  <1>6. ASSUME NEW w \in Worker, SellWrite(w)
        PROVE  rows' = rows /\ KeysKept
    <2>1. /\ rows' = rows
          /\ batch' = [b \in DOMAIN batch |->
                         [batch[b] EXCEPT !.left = @ - req[w].from[b]]]
      BY <1>6 DEF SellWrite
    <2>2. \A b \in DOMAIN batch :
            [batch[b] EXCEPT !.left = @ - req[w].from[b]].key = batch[b].key
      BY BatchFields, <1>1 DEF Batches
    <2>3. QED
      BY <2>1, <2>2 DEF KeysKept
  <1>7. ASSUME NEW w \in Worker, PrepareWrite(w)
        PROVE  rows' = rows /\ BatchEnters
    <2>. DEFINE p == req[w].plan
                new == [dish |-> p.dish, made |-> p.actual, expires |-> p.expires,
                        key |-> p.key, left |-> p.actual]
    <2>1. req[w] \in PrepareRequest
      BY <1>1, <1>7, RequestShapes DEF PrepareWrite, At
    <2>2. p \in Plan /\ p.actual \in Nat
      BY <2>1, StockAssumption DEF PrepareRequest, Plan
    <2>3. new \in Batches
      BY <2>2 DEF Plan, Batches
    <2>4. rows' = rows /\ ~BatchOfKey(p.key) /\ batch' = Append(batch, new)
      BY <1>7 DEF PrepareWrite
    <2>. HIDE DEF p
    <2>5. new.key = p.key
      OBVIOUS
    <2>6. QED
      BY <2>3, <2>4, <2>5 DEF BatchEnters
  <1>8. ASSUME NEW w \in Worker,
               \/ MoveLost(w) \/ PrepareRead(w) \/ PrepareLost(w) \/ WasteRead(w)
               \/ WasteLost(w) \/ SubmitWrite(w) \/ TransitionWrite(w) \/ Abort(w)
        PROVE  rows' = rows /\ KeysKept
    BY <1>2, <1>8
    DEF MoveLost, PrepareRead, PrepareLost, WasteRead, WasteLost, SubmitWrite,
        TransitionWrite, Abort, NothingWritten
  <1>9. CASE \/ \E c \in Count : CancelCount(c) \/ \E S \in SUBSET Item : StartCount(c, S)
             \/ \E p \in Purchase, lines \in Lines : Draft(p, lines)
             \/ SetRecipe \/ (\E d \in Dish : SetFormula(d)) \/ Tick
             \/ UNCHANGED vars
    <2>1. rows' = rows /\ batch' = batch
      BY <1>9 DEF CancelCount, StartCount, Draft, SetRecipe, SetFormula, Tick, vars
    <2>2. QED
      BY <1>2, <2>1 DEF RowsEnterOnce
  <1>10. QED
    BY <1>3, <1>4, <1>5, <1>6, <1>7, <1>8, <1>9 DEF Next, Steps, RowsEnterOnce

\* A key writes one movement, and one batch, however the tries overlap.
THEOREM KeysAreWrittenOnce == Spec => []KeysWriteOnce
  <1>1. Init => KeysWriteOnce
    BY DEF Init, KeysWriteOnce
  <1>2. ASSUME TypeOK, KeysWriteOnce, RowsEnterOnce
        PROVE  \A k \in Key : rows'[k] <= 1
    <2>1. rows \in [Key -> Nat]
      BY <1>2 DEF TypeOK
    <2>2. ASSUME NEW k \in MaybeKey, ~KeyTaken(k), rows' = WithKey(k)
          PROVE  \A j \in Key : rows'[j] <= 1
      BY <1>2, <2>1, <2>2 DEF KeyTaken, WithKey, MaybeKey, KeysWriteOnce
    <2>3. QED
      BY <1>2, <2>2 DEF RowsEnterOnce, KeysWriteOnce
  <1>3. ASSUME TypeOK, KeysWriteOnce, KeysKept \/ BatchEnters
        PROVE  \A a, b \in DOMAIN batch' :
                 batch'[a].key = batch'[b].key /\ batch'[a].key # NoKey => a = b
    <2>1. ASSUME NEW new \in Batches, ~BatchOfKey(new.key), batch' = Append(batch, new),
                 NEW a \in DOMAIN batch', NEW b \in DOMAIN batch',
                 batch'[a].key = batch'[b].key, batch'[a].key # NoKey
          PROVE  a = b
      <3>1. batch \in Seq(Batches)
        BY <1>3 DEF TypeOK
      <3>2. /\ DOMAIN batch = 1 .. Len(batch) /\ Len(batch) \in Nat
            /\ DOMAIN batch' = 1 .. Len(batch) + 1
            /\ \A i \in 1 .. Len(batch) : batch'[i] = batch[i]
            /\ batch'[Len(batch) + 1] = new
        BY <2>1, <3>1, AppendProperties, LenProperties
      <3>3. \A i \in 1 .. Len(batch) : new.key # NoKey => batch[i].key # new.key
        BY <2>1, <3>2 DEF BatchOfKey
      <3>4. QED
        BY <1>3, <2>1, <3>2, <3>3 DEF KeysWriteOnce
    <2>2. QED
      BY <1>3, <2>1 DEF KeysKept, BatchEnters, KeysWriteOnce
  <1>4. TypeOK /\ KeysWriteOnce /\ [Next]_vars => KeysWriteOnce'
    <2>1. ASSUME TypeOK, KeysWriteOnce, [Next]_vars
          PROVE  KeysWriteOnce'
      BY <1>2, <1>3, <2>1, KeysEnterOnce DEF KeysWriteOnce
    <2>2. QED
      BY <2>1
  <1>5. QED
    BY <1>1, <1>4, Typing, PTL DEF Spec

-----------------------------------------------------------------------------
(* Who writes what.                                                        *)

\* What a request is in the middle of is what its own last step made it.
LEMMA Turns ==
  ASSUME TypeOK, [Next]_vars, NEW v \in Worker, req'[v] # req[v]
  PROVE  \/ req'[v] = Idle
         \/ \E i \in Item, q \in Int, k \in MaybeKey : Move(v, i, q, k)
         \/ \E o \in Order, n \in Amount : Sell(v, o, n)
         \/ \E plan \in Plan : Prepare(v, plan)
         \/ \E b \in Batch, q \in Amount, k \in MaybeKey : Waste(v, b, q, k)
         \/ \E c \in Count, counted \in Tally : Submit(v, c, counted)
         \/ \E p \in Purchase, to \in PurchaseStatus : Transition(v, p, to)
         \/ PrepareRead(v) \/ PrepareLost(v) \/ WasteRead(v)
  <1>1. req \in [Worker -> Request]
    BY DEF TypeOK
  <1>2. ASSUME NEW w \in Worker, NEW r, req' = [req EXCEPT ![w] = r]
        PROVE  v = w
    BY <1>1, <1>2
  <1>3. ASSUME NEW w \in Worker, NEW op, NEW r, Arrive(w, op, r)
        PROVE  v = w
    BY <1>2, <1>3 DEF Arrive
  <1>4. ASSUME NEW w \in Worker, NEW r, GoOn(w, r)
        PROVE  v = w
    BY <1>2, <1>4 DEF GoOn
  <1>5. ASSUME NEW w \in Worker, Done(w)
        PROVE  req'[v] = Idle
    BY <1>1, <1>5 DEF Done, GoOn
  <1>6. ASSUME NEW w \in Worker, NEW o \in Order, Reverse(w, o)
        PROVE  req'[v] = Idle
    BY <1>1, <1>6 DEF Reverse, Arrive
  <1>7. ASSUME NEW w \in Worker, Arrivals(w), ~ \E o \in Order : Reverse(w, o)
        PROVE  v = w
    BY <1>3, <1>7 DEF Arrivals, Move, Sell, Prepare, Waste, Submit, Transition
  <1>8. ASSUME NEW w \in Worker, Arrivals(v), ~ \E o \in Order : Reverse(v, o)
        PROVE  \/ \E i \in Item, q \in Int, k \in MaybeKey : Move(v, i, q, k)
               \/ \E o \in Order, n \in Amount : Sell(v, o, n)
               \/ \E plan \in Plan : Prepare(v, plan)
               \/ \E b \in Batch, q \in Amount, k \in MaybeKey : Waste(v, b, q, k)
               \/ \E c \in Count, counted \in Tally : Submit(v, c, counted)
               \/ \E p \in Purchase, to \in PurchaseStatus : Transition(v, p, to)
    <2>1. \A a \in Amount : a \in Int /\ -a \in Int
      BY StockAssumption
    <2> QED BY <1>8, <2>1 DEF Arrivals
  <1>9. ASSUME NEW w \in Worker, PrepareRead(w) \/ PrepareLost(w) \/ WasteRead(w)
        PROVE  req'[v] = Idle \/ v = w
    BY <1>4, <1>5, <1>9 DEF PrepareRead, PrepareLost, WasteRead
  <1>10. ASSUME NEW w \in Worker,
                \/ MoveWrite(w) \/ MoveLost(w) \/ SellWrite(w) \/ PrepareWrite(w)
                \/ WasteWrite(w) \/ WasteLost(w) \/ SubmitWrite(w) \/ TransitionWrite(w)
                \/ Abort(w)
         PROVE  req'[v] = Idle
    BY <1>5, <1>10
    DEF MoveWrite, MoveLost, SellWrite, PrepareWrite, WasteWrite, WasteLost,
        SubmitWrite, TransitionWrite, Abort
  <1>11. CASE \/ \E c \in Count : CancelCount(c) \/ \E S \in SUBSET Item : StartCount(c, S)
              \/ \E p \in Purchase, lines \in Lines : Draft(p, lines)
              \/ SetRecipe \/ (\E d \in Dish : SetFormula(d)) \/ Tick
              \/ UNCHANGED vars
    BY <1>11 DEF CancelCount, StartCount, Draft, SetRecipe, SetFormula, Tick, vars
  <1> QED BY <1>6, <1>7, <1>8, <1>9, <1>10, <1>11 DEF Next, Steps

\* Each kind of request in flight begins with its own step.
LEMMA Begins ==
  ASSUME TypeOK, [Next]_vars, NEW v \in Worker, req'[v] # req[v]
  PROVE  /\ At(v, "sell")' => \E o \in Order, n \in Amount : Sell(v, o, n)
         /\ At(v, "prepare")' => PrepareRead(v)
         /\ At(v, "left")' =>
              \E b \in Batch, q \in Amount, k \in MaybeKey : Waste(v, b, q, k)
         /\ At(v, "waste")' => WasteRead(v)
         /\ At(v, "submit")' =>
              \E c \in Count, counted \in Tally : Submit(v, c, counted)
  <1>1. req \in [Worker -> Request]
    BY DEF TypeOK
  <1>2. ASSUME NEW i, NEW q, NEW k, Move(v, i, q, k)
        PROVE  req'[v].pc = "move"
    BY <1>1, <1>2 DEF Move, Arrive
  <1>3. ASSUME NEW o, NEW n, Sell(v, o, n)
        PROVE  req'[v].pc = "sell"
    BY <1>1, <1>3 DEF Sell, Arrive
  <1>4. ASSUME NEW plan, Prepare(v, plan)
        PROVE  req'[v].pc = "recipe"
    BY <1>1, <1>4 DEF Prepare, Arrive
  <1>5. ASSUME NEW b, NEW q, NEW k, Waste(v, b, q, k)
        PROVE  req'[v].pc = "left"
    BY <1>1, <1>5 DEF Waste, Arrive
  <1>6. ASSUME NEW c, NEW counted, Submit(v, c, counted)
        PROVE  req'[v].pc = "submit"
    BY <1>1, <1>6 DEF Submit, Arrive
  <1>7. ASSUME NEW p, NEW to, Transition(v, p, to)
        PROVE  req'[v].pc = "transition"
    BY <1>1, <1>7 DEF Transition, Arrive
  <1>8. ASSUME PrepareRead(v)
        PROVE  req'[v].pc \in {"idle", "prepare"}
    BY <1>1, <1>8 DEF PrepareRead, Done, GoOn, Idle
  <1>9. ASSUME PrepareLost(v)
        PROVE  req'[v].pc \in {"idle", "recipe"}
    BY <1>1, <1>9 DEF PrepareLost, Done, GoOn, Idle
  <1>10. ASSUME WasteRead(v)
         PROVE  req'[v].pc \in {"idle", "waste"}
    <2>. DEFINE next == [req[v] EXCEPT !.pc = "waste"]
    <2>1. req[v] \in WasteRequest
      BY <1>1, <1>10, RequestShapes DEF WasteRead, At
    <2>2. next.pc = "waste"
      BY <2>1 DEF WasteRequest
    <2>3. Done(v) \/ GoOn(v, next)
      BY <1>10 DEF WasteRead
    <2>. HIDE DEF next
    <2>4. QED
      BY <1>1, <2>2, <2>3 DEF Done, GoOn, Idle
  <1>11. req'[v] = Idle => req'[v].pc = "idle"
    BY DEF Idle
  <1> QED
    BY <1>2, <1>3, <1>4, <1>5, <1>6, <1>7, <1>8, <1>9, <1>10, <1>11, Turns DEF At

\* Four commits write the batches, their waste and the sales.
LEMMA BookWriters ==
  ASSUME [Next]_vars
  PROVE  \/ UNCHANGED <<batch, wasted, taken, sale>>
         \/ \E w \in Worker : \/ SellWrite(w) \/ PrepareWrite(w) \/ WasteWrite(w)
                              \/ \E o \in Order : Reverse(w, o)
  <1> USE DEF books
  <1>1. ASSUME NEW w \in Worker, Arrivals(w), ~ \E o \in Order : Reverse(w, o)
        PROVE  UNCHANGED <<batch, wasted, taken, sale>>
    BY <1>1
    DEF Arrivals, Move, Sell, Prepare, Waste, Submit, Transition, NothingWritten
  <1>2. ASSUME NEW w \in Worker,
               \/ MoveWrite(w) \/ MoveLost(w) \/ PrepareRead(w) \/ PrepareLost(w)
               \/ WasteRead(w) \/ WasteLost(w) \/ SubmitWrite(w) \/ TransitionWrite(w)
               \/ Abort(w)
        PROVE  UNCHANGED <<batch, wasted, taken, sale>>
    BY <1>2
    DEF MoveWrite, MoveLost, PrepareRead, PrepareLost, WasteRead, WasteLost,
        SubmitWrite, TransitionWrite, Abort, NothingWritten
  <1>3. CASE \/ \E c \in Count : CancelCount(c) \/ \E S \in SUBSET Item : StartCount(c, S)
             \/ \E p \in Purchase, lines \in Lines : Draft(p, lines)
             \/ SetRecipe \/ (\E d \in Dish : SetFormula(d)) \/ Tick
             \/ UNCHANGED vars
    BY <1>3 DEF CancelCount, StartCount, Draft, SetRecipe, SetFormula, Tick, vars
  <1> QED BY <1>1, <1>2, <1>3 DEF Next, Steps

-----------------------------------------------------------------------------
(* What is left of a batch.                                                *)

\* The sales that stand.
Standing == {o \in Order : sale[o] = "sold"}

\* What each sale took from a batch.
Took(b) == [o \in Order |-> taken[o].from[b]]

\* What the sales that stand took from a batch, as a sum of the function's values.
LEMMA DrawnFromIsSum ==
  \A b : DrawnFrom(b) = SumFunctionOnSet(Took(b), Standing)
  BY DEF DrawnFrom, MapThenSumSet, SumFunctionOnSet, FoldFunctionOnSet,
         MapThenFoldSet, Took, Standing

\* The same, after a step.
LEMMA DrawnFromIsSumNext ==
  \A b : DrawnFrom(b)' = SumFunctionOnSet(Took(b)', Standing')
  BY DEF DrawnFrom, MapThenSumSet, SumFunctionOnSet, FoldFunctionOnSet,
         MapThenFoldSet, Took, Standing

\* A sale in flight is of an order that was not sold before, and no other
\* request sells it.
SalesInFlight ==
  \A w \in Worker :
    At(w, "sell") =>
      /\ sale[req[w].order] = "none"
      /\ \A v \in Worker : At(v, "sell") /\ req[v].order = req[w].order => v = w

\* A waste in flight is of a batch that was prepared.
WastesInFlight ==
  \A w \in Worker : At(w, "left") \/ At(w, "waste") => req[w].batch \in DOMAIN batch

\* Nothing was taken, nor will be, from a batch that was not prepared.
UnpreparedIsUntouched ==
  \A b \in Batch \ DOMAIN batch :
    /\ wasted[b] = 0
    /\ \A o \in Order : taken[o].from[b] = 0
    /\ \A w \in Worker : At(w, "sell") => req[w].from[b] = 0

\* Batches are not forgotten.
LEMMA BatchesStay ==
  ASSUME TypeOK, [Next]_vars
  PROVE  DOMAIN batch \subseteq DOMAIN batch'
  <1>1. ASSUME NEW new \in Batches, batch' = Append(batch, new)
        PROVE  DOMAIN batch \subseteq DOMAIN batch'
    <2>1. batch \in Seq(Batches)
      BY DEF TypeOK
    <2>2. /\ DOMAIN batch = 1 .. Len(batch) /\ Len(batch) \in Nat
          /\ DOMAIN batch' = 1 .. Len(batch) + 1
      BY <1>1, <2>1, AppendProperties, LenProperties
    <2> QED BY <2>2
  <1> QED BY <1>1, KeysEnterOnce DEF KeysKept, BatchEnters

\* The order of a sale in flight is unsold until it commits: another request
\* neither begins to sell it nor reverses it.
LEMMA SalesStayInFlight ==
  ASSUME TypeOK, SalesInFlight, [Next]_vars
  PROVE  SalesInFlight'
  <1>1. /\ req \in [Worker -> Request]
        /\ sale \in [Order -> {"none", "sold", "reversed"}]
    BY DEF TypeOK
  <1>2. ASSUME NEW w \in Worker, NEW o \in Order, NEW n \in Amount, Sell(w, o, n)
        PROVE  /\ sale[o] = "none" /\ sale' = sale
               /\ req'[w].order = o
               /\ \A v \in Worker : At(v, "sell") => req[v].order # o
               /\ \A v \in Worker \ {w} : req'[v] = req[v]
    BY <1>1, <1>2 DEF Sell, Arrive, NothingWritten, books
  <1>3. ASSUME NEW w \in Worker, At(w, "sell")', req'[w] = req[w]
        PROVE  /\ At(w, "sell")
               /\ sale'[req'[w].order] = "none"
               /\ \A v \in Worker :
                    At(v, "sell")' /\ req'[v].order = req'[w].order => v = w
    <2>1. At(w, "sell") /\ req[w].order \in Order
      BY <1>1, <1>3, RequestShapes DEF At, SellRequest
    <2>2. sale[req[w].order] = "none"
      BY <2>1 DEF SalesInFlight
    <2>3. sale'[req[w].order] = "none"
      <3>1. ASSUME NEW u \in Worker, SellWrite(u)
            PROVE  sale'[req[w].order] = "none"
        <4>1. At(u, "sell") /\ req'[u] = Idle
          BY <1>1, <3>1 DEF SellWrite, Done, GoOn
        <4>2. u # w
          BY <4>1, <1>3 DEF At, Idle
        <4>3. req[u].order # req[w].order
          BY <2>1, <4>1, <4>2 DEF SalesInFlight
        <4>4. sale' = [sale EXCEPT ![req[u].order] = "sold"]
          BY <3>1 DEF SellWrite
        <4> QED BY <1>1, <2>1, <2>2, <4>3, <4>4
      <3>2. ASSUME NEW u \in Worker, NEW o \in Order, Reverse(u, o)
            PROVE  sale'[req[w].order] = "none"
        <4>1. sale[o] = "sold" /\ sale' = [sale EXCEPT ![o] = "reversed"]
          BY <3>2 DEF Reverse
        <4> QED BY <1>1, <2>1, <2>2, <4>1
      <3>3. ASSUME NEW u \in Worker, PrepareWrite(u) \/ WasteWrite(u)
            PROVE  sale' = sale
        BY <3>3 DEF PrepareWrite, WasteWrite, books
      <3> QED BY <2>2, <3>1, <3>2, <3>3, BookWriters
    <2>4. ASSUME NEW v \in Worker, At(v, "sell")', req'[v].order = req'[w].order
          PROVE  v = w
      <3>1. CASE req'[v] = req[v]
        BY <1>3, <2>1, <2>4, <3>1 DEF SalesInFlight, At
      <3>2. CASE req'[v] # req[v]
        <4>1. PICK o \in Order, n \in Amount : Sell(v, o, n)
          BY <2>4, <3>2, Begins
        <4> QED BY <1>2, <1>3, <2>1, <2>4, <4>1
      <3> QED BY <3>1, <3>2
    <2> QED BY <1>3, <2>1, <2>3, <2>4
  <1>4. ASSUME NEW w \in Worker, At(w, "sell")', req'[w] # req[w]
        PROVE  /\ sale'[req'[w].order] = "none"
               /\ \A v \in Worker :
                    At(v, "sell")' /\ req'[v].order = req'[w].order => v = w
    <2>1. PICK o \in Order, n \in Amount : Sell(w, o, n)
      BY <1>4, Begins
    <2> QED BY <1>2, <2>1 DEF At
  <1> QED BY <1>3, <1>4 DEF SalesInFlight

\* The batch of a waste in flight stays.
LEMMA WastesStayInFlight ==
  ASSUME TypeOK, WastesInFlight, [Next]_vars
  PROVE  WastesInFlight'
  <1>1. req \in [Worker -> Request]
    BY DEF TypeOK
  <1>2. ASSUME NEW w \in Worker, (At(w, "left") \/ At(w, "waste"))'
        PROVE  req'[w].batch \in DOMAIN batch
    <2>1. CASE req'[w] = req[w]
      BY <1>2, <2>1 DEF WastesInFlight, At
    <2>2. ASSUME NEW b, NEW q, NEW k, Waste(w, b, q, k)
          PROVE  req'[w].batch \in DOMAIN batch
      BY <1>1, <2>2 DEF Waste, Arrive
    <2>3. CASE WasteRead(w) /\ At(w, "waste")'
      <3>. DEFINE next == [req[w] EXCEPT !.pc = "waste"]
      <3>1. At(w, "left") /\ (Done(w) \/ GoOn(w, next))
        BY <2>3 DEF WasteRead
      <3>2. next.batch = req[w].batch
        BY <1>1, <3>1, RequestShapes DEF At, WasteRequest
      <3>. HIDE DEF next
      <3>3. req'[w] = next
        BY <1>1, <2>3, <3>1 DEF Done, GoOn, At, Idle
      <3> QED BY <3>1, <3>2, <3>3 DEF WastesInFlight
    <2>4. CASE req'[w] # req[w]
      BY <1>2, <2>2, <2>3, <2>4, Begins
    <2> QED BY <2>1, <2>4
  <1> QED BY <1>2, BatchesStay DEF WastesInFlight

\* What a sale is to take was there when it looked, and only a sale takes.
LEMMA UnpreparedStaysUntouched ==
  ASSUME TypeOK, WastesInFlight, UnpreparedIsUntouched, [Next]_vars
  PROVE  UnpreparedIsUntouched'
  <1>1. /\ req \in [Worker -> Request] /\ wasted \in [Batch -> Nat]
        /\ taken \in [Order -> [need : Quantities, from : [Batch -> Nat]]]
    BY DEF TypeOK
  <1> SUFFICES ASSUME NEW b \in Batch, b \notin DOMAIN batch'
               PROVE  /\ wasted'[b] = 0
                      /\ \A o \in Order : taken'[o].from[b] = 0
                      /\ \A w \in Worker : At(w, "sell")' => req'[w].from[b] = 0
    BY DEF UnpreparedIsUntouched
  <1>2. /\ b \notin DOMAIN batch /\ wasted[b] = 0
        /\ \A o \in Order : taken[o].from[b] = 0
        /\ \A w \in Worker : At(w, "sell") => req[w].from[b] = 0
    BY BatchesStay DEF UnpreparedIsUntouched
  <1>3. wasted'[b] = 0
    <2>1. ASSUME NEW w \in Worker, WasteWrite(w)
          PROVE  wasted'[b] = 0
      <3>1. /\ req[w].batch # b
            /\ wasted' = [wasted EXCEPT ![req[w].batch] = @ + req[w].quantity]
        BY <1>2, <2>1 DEF WasteWrite, WastesInFlight
      <3> QED BY <1>1, <1>2, <3>1
    <2>2. ASSUME NEW w \in Worker,
                 SellWrite(w) \/ PrepareWrite(w) \/ \E o \in Order : Reverse(w, o)
          PROVE  wasted' = wasted
      BY <2>2 DEF SellWrite, PrepareWrite, Reverse
    <2> QED BY <1>2, <2>1, <2>2, BookWriters
  <1>4. ASSUME NEW o \in Order
        PROVE  taken'[o].from[b] = 0
    <2>1. ASSUME NEW w \in Worker, SellWrite(w)
          PROVE  taken'[o].from[b] = 0
      <3>1. PICK r : r = req[w]
        OBVIOUS
      <3>2. At(w, "sell") /\ r.from[b] = 0
        BY <1>2, <2>1, <3>1 DEF SellWrite
      <3>3. taken' = [taken EXCEPT ![r.order] = [need |-> r.need, from |-> r.from]]
        BY <2>1, <3>1 DEF SellWrite
      <3> QED BY <1>1, <1>2, <3>2, <3>3
    <2>2. ASSUME NEW w \in Worker,
                 WasteWrite(w) \/ PrepareWrite(w) \/ \E p \in Order : Reverse(w, p)
          PROVE  taken' = taken
      BY <2>2 DEF WasteWrite, PrepareWrite, Reverse, books
    <2> QED BY <1>2, <2>1, <2>2, BookWriters
  <1>5. ASSUME NEW w \in Worker, At(w, "sell")'
        PROVE  req'[w].from[b] = 0
    <2>1. CASE req'[w] = req[w]
      BY <1>2, <1>5, <2>1 DEF At
    <2>2. ASSUME NEW o \in Order, NEW n \in Amount, Sell(w, o, n)
          PROVE  req'[w].from[b] = 0
      <3>1. PICK need : Arrive(w, "sell", [pc |-> "sell", order |-> o, need |-> need,
                                          from |-> DrawnNow(need)])
        BY <2>2 DEF Sell
      <3>2. req'[w].from = DrawnNow(need)
        BY <1>1, <3>1 DEF Arrive
      <3>3. DrawnNow(need)[b] = 0
        BY <1>2 DEF DrawnNow
      <3> QED BY <3>2, <3>3
    <2> QED BY <1>5, <2>1, <2>2, Begins
  <1> QED BY <1>3, <1>4, <1>5

\* What the sums are taken of are integers.
LEMMA TookTyped ==
  ASSUME TypeOK, NEW b \in Batch
  PROVE  \A S \in SUBSET Order : \A o \in S : Took(b)[o] \in Int
  <1>1. taken \in [Order -> [need : Quantities, from : [Batch -> Nat]]]
    BY DEF TypeOK
  <1> QED BY <1>1 DEF Took

\* While the sales and what they took stay, so does what is drawn from a batch.
LEMMA DrawnStays ==
  ASSUME taken' = taken, sale' = sale
  PROVE  Standing' = Standing /\ \A b : DrawnFrom(b)' = DrawnFrom(b)
  <1>1. Standing' = Standing /\ \A b : Took(b)' = Took(b)
    BY DEF Standing, Took
  <1> QED BY <1>1, DrawnFromIsSum, DrawnFromIsSumNext

\* A batch that was prepared is one of the batches there may be.
LEMMA PreparedFields ==
  ASSUME TypeOK, NEW b \in DOMAIN batch
  PROVE  /\ b \in Batch /\ batch[b] \in Batches /\ batch[b].left \in Int
         /\ batch[b].made \in Nat
  <1>1. batch \in Seq(Batches) /\ Len(batch) <= MaxBatches
    BY DEF TypeOK
  <1>2. b \in 1 .. Len(batch) /\ batch[b] \in Batches /\ batch[b].left \in Int
    BY <1>1, BatchFields
  <1>3. Len(batch) \in Nat /\ MaxBatches \in Nat
    BY <1>1, LenProperties, StockAssumption
  <1>4. b \in Batch
    BY <1>1, <1>2, <1>3 DEF Batch
  <1> QED BY <1>2, <1>4 DEF Batches

\* A sale that commits adds what it takes, once.
LEMMA SellAddsUp ==
  ASSUME TypeOK, IsFiniteSet(Standing), SalesInFlight, BatchAddsUp,
         NEW w \in Worker, SellWrite(w)
  PROVE  IsFiniteSet(Standing') /\ BatchAddsUp'
  <1>1. PICK r : r = req[w]
    OBVIOUS
  <1>2. /\ req \in [Worker -> Request] /\ wasted \in [Batch -> Nat]
        /\ sale \in [Order -> {"none", "sold", "reversed"}]
        /\ taken \in [Order -> [need : Quantities, from : [Batch -> Nat]]]
    BY DEF TypeOK
  <1>3. At(w, "sell") /\ r \in SellRequest
    BY <1>1, <1>2, RequestShapes DEF SellWrite, At
  <1>4. r.order \in Order /\ r.from \in [Batch -> Nat] /\ sale[r.order] = "none"
    BY <1>1, <1>3 DEF SellRequest, SalesInFlight
  <1>5. /\ sale' = [sale EXCEPT ![r.order] = "sold"]
        /\ taken' = [taken EXCEPT ![r.order] = [need |-> r.need, from |-> r.from]]
        /\ batch' = [b \in DOMAIN batch |-> [batch[b] EXCEPT !.left = @ - r.from[b]]]
        /\ wasted' = wasted
    BY <1>1 DEF SellWrite
  <1>6. Standing' = Standing \cup {r.order} /\ r.order \notin Standing
    BY <1>2, <1>4, <1>5 DEF Standing
  <1>7. IsFiniteSet(Standing')
    BY <1>6, FS_AddElement
  <1>8. ASSUME NEW b \in DOMAIN batch
        PROVE  batch'[b].left = batch'[b].made - wasted'[b] - DrawnFrom(b)'
    <2>1. /\ b \in Batch /\ batch[b] \in Batches /\ batch[b].left \in Int
          /\ batch[b].made \in Nat
      BY PreparedFields
    <2>2. batch'[b].left = batch[b].left - r.from[b] /\ batch'[b].made = batch[b].made
      BY <1>5, <2>1 DEF Batches
    <2>3. PICK f, g, S : f = Took(b) /\ g = Took(b)' /\ S = Standing
      OBVIOUS
    <2>4. \A o \in S : f[o] \in Int /\ f[o] = g[o]
      BY <1>2, <1>5, <1>6, <2>1, <2>3 DEF Took, Standing
    <2>5. g[r.order] = r.from[b] /\ r.from[b] \in Nat
      BY <1>2, <1>4, <1>5, <2>1, <2>3 DEF Took
    <2>6. SumFunctionOnSet(g, S \cup {r.order}) = r.from[b] + SumFunctionOnSet(g, S)
      BY <1>6, <2>3, <2>4, <2>5, SumAdd
    <2>7. SumFunctionOnSet(g, S) = SumFunctionOnSet(f, S) /\ SumFunctionOnSet(f, S) \in Int
      BY <2>3, <2>4, SumSame, SumType
    <2>8. DrawnFrom(b)' = r.from[b] + DrawnFrom(b) /\ DrawnFrom(b) \in Int
      BY <1>6, <2>3, <2>6, <2>7, DrawnFromIsSum, DrawnFromIsSumNext
    <2>9. batch[b].left = batch[b].made - wasted[b] - DrawnFrom(b) /\ wasted[b] \in Nat
      BY <1>2, <2>1 DEF BatchAddsUp
    <2> QED BY <1>4, <1>5, <2>1, <2>2, <2>5, <2>8, <2>9
  <1>9. DOMAIN batch' = DOMAIN batch
    BY <1>5
  <1> QED BY <1>7, <1>8, <1>9 DEF BatchAddsUp

\* A sale that is reversed gives back to each batch what it took from it.
LEMMA ReverseAddsUp ==
  ASSUME TypeOK, IsFiniteSet(Standing), BatchAddsUp,
         NEW w \in Worker, NEW o \in Order, Reverse(w, o)
  PROVE  IsFiniteSet(Standing') /\ BatchAddsUp'
  <1>1. /\ wasted \in [Batch -> Nat]
        /\ sale \in [Order -> {"none", "sold", "reversed"}]
        /\ taken \in [Order -> [need : Quantities, from : [Batch -> Nat]]]
    BY DEF TypeOK
  <1>2. PICK r : r = taken[o]
    OBVIOUS
  <1>3. /\ sale[o] = "sold" /\ sale' = [sale EXCEPT ![o] = "reversed"]
        /\ batch' = [b \in DOMAIN batch |-> [batch[b] EXCEPT !.left = @ + r.from[b]]]
        /\ taken' = taken /\ wasted' = wasted
    BY <1>2 DEF Reverse, Returned
  <1>4. Standing' = Standing \ {o} /\ o \in Standing
    BY <1>1, <1>3 DEF Standing
  <1>5. IsFiniteSet(Standing')
    BY <1>4, FS_RemoveElement
  <1>6. ASSUME NEW b \in DOMAIN batch
        PROVE  batch'[b].left = batch'[b].made - wasted'[b] - DrawnFrom(b)'
    <2>1. /\ b \in Batch /\ batch[b] \in Batches /\ batch[b].left \in Int
          /\ batch[b].made \in Nat
      BY PreparedFields
    <2>2. batch'[b].left = batch[b].left + r.from[b] /\ batch'[b].made = batch[b].made
      BY <1>3, <2>1 DEF Batches
    <2>3. PICK f, S : f = Took(b) /\ S = Standing
      OBVIOUS
    <2>4. Took(b)' = f /\ \A p \in S : f[p] \in Int
      BY <1>1, <1>3, <2>1, <2>3 DEF Took, Standing
    <2>5. f[o] = r.from[b] /\ r.from[b] \in Nat
      BY <1>1, <1>2, <2>1, <2>3 DEF Took
    <2>6. SumFunctionOnSet(f, S) = f[o] + SumFunctionOnSet(f, S \ {o})
      BY <1>4, <2>3, <2>4, SumRemove
    <2>7. SumFunctionOnSet(f, S \ {o}) \in Int
      BY <1>4, <1>5, <2>3, <2>4, SumType
    <2>8. DrawnFrom(b) = r.from[b] + DrawnFrom(b)' /\ DrawnFrom(b)' \in Int
      BY <1>4, <2>3, <2>4, <2>5, <2>6, <2>7, DrawnFromIsSum, DrawnFromIsSumNext
    <2>9. batch[b].left = batch[b].made - wasted[b] - DrawnFrom(b) /\ wasted[b] \in Nat
      BY <1>1, <2>1 DEF BatchAddsUp
    <2> QED BY <1>3, <2>1, <2>2, <2>5, <2>8, <2>9
  <1>7. DOMAIN batch' = DOMAIN batch
    BY <1>3
  <1> QED BY <1>5, <1>6, <1>7 DEF BatchAddsUp

\* A batch begins with what it yielded: nobody took from it before.
LEMMA PrepareAddsUp ==
  ASSUME TypeOK, IsFiniteSet(Standing), UnpreparedIsUntouched, BatchAddsUp,
         NEW w \in Worker, PrepareWrite(w)
  PROVE  IsFiniteSet(Standing') /\ BatchAddsUp'
  <1>1. /\ req \in [Worker -> Request] /\ wasted \in [Batch -> Nat]
        /\ batch \in Seq(Batches)
    BY DEF TypeOK
  <1>2. /\ taken' = taken /\ sale' = sale /\ wasted' = wasted
    BY DEF PrepareWrite, books
  <1>3. Standing' = Standing /\ \A b : DrawnFrom(b)' = DrawnFrom(b)
    BY <1>2, DrawnStays
  <1>4. PICK new : /\ batch' = Append(batch, new) /\ Len(batch) < MaxBatches
                   /\ new.left = new.made /\ new.made \in Nat
    <2>. DEFINE p == req[w].plan
                new == [dish |-> p.dish, made |-> p.actual, expires |-> p.expires,
                        key |-> p.key, left |-> p.actual]
    <2>1. req[w] \in PrepareRequest
      BY <1>1, RequestShapes DEF PrepareWrite, At
    <2>2. p.actual \in Nat
      BY <2>1, StockAssumption DEF PrepareRequest, Plan
    <2>3. batch' = Append(batch, new) /\ Len(batch) < MaxBatches
      BY DEF PrepareWrite
    <2>4. new.left = new.made /\ new.made \in Nat
      BY <2>2
    <2> QED BY <2>3, <2>4
  <1>5. /\ DOMAIN batch = 1 .. Len(batch) /\ Len(batch) \in Nat
        /\ DOMAIN batch' = 1 .. Len(batch) + 1
        /\ \A i \in 1 .. Len(batch) : batch'[i] = batch[i]
        /\ batch'[Len(batch) + 1] = new
    BY <1>1, <1>4, AppendProperties, LenProperties
  <1>6. PICK n : n = Len(batch) + 1 /\ n \in Batch \ DOMAIN batch
    BY <1>4, <1>5, StockAssumption DEF Batch
  <1>7. wasted[n] = 0 /\ \A o \in Order : taken[o].from[n] = 0
    BY <1>6 DEF UnpreparedIsUntouched
  <1>8. DrawnFrom(n) = 0
    <2>1. \A o \in Standing : Took(n)[o] = 0
      BY <1>7 DEF Took, Standing
    <2> QED BY <2>1, SumZeros, DrawnFromIsSum
  <1>9. ASSUME NEW b \in DOMAIN batch'
        PROVE  batch'[b].left = batch'[b].made - wasted'[b] - DrawnFrom(b)'
    <2>1. CASE b \in DOMAIN batch
      BY <1>2, <1>3, <1>5, <2>1 DEF BatchAddsUp
    <2>2. CASE b = n
      BY <1>2, <1>3, <1>4, <1>5, <1>6, <1>7, <1>8, <2>2
    <2> QED BY <1>5, <1>6, <2>1, <2>2
  <1> QED BY <1>3, <1>9 DEF BatchAddsUp

\* What is wasted leaves the batch.
LEMMA WasteAddsUp ==
  ASSUME TypeOK, IsFiniteSet(Standing), WastesInFlight, BatchAddsUp,
         NEW w \in Worker, WasteWrite(w)
  PROVE  IsFiniteSet(Standing') /\ BatchAddsUp'
  <1>1. req \in [Worker -> Request] /\ wasted \in [Batch -> Nat]
    BY DEF TypeOK
  <1>2. PICK r : r = req[w]
    OBVIOUS
  <1>3. /\ r.quantity \in Nat /\ r.batch \in DOMAIN batch
    <2>1. At(w, "waste") /\ r \in WasteRequest
      BY <1>1, <1>2, RequestShapes DEF WasteWrite, At
    <2> QED BY <1>2, <2>1, StockAssumption DEF WasteRequest, WastesInFlight
  <1>4. /\ batch' = [batch EXCEPT ![r.batch].left = @ - r.quantity]
        /\ wasted' = [wasted EXCEPT ![r.batch] = @ + r.quantity]
        /\ taken' = taken /\ sale' = sale
    BY <1>2 DEF WasteWrite, books
  <1>5. Standing' = Standing /\ \A b : DrawnFrom(b)' = DrawnFrom(b)
    BY <1>4, DrawnStays
  <1>6. ASSUME NEW b \in DOMAIN batch
        PROVE  batch'[b].left = batch'[b].made - wasted'[b] - DrawnFrom(b)'
    <2>1. /\ b \in Batch /\ batch[b] \in Batches /\ batch[b].left \in Int
          /\ batch[b].made \in Nat
      BY PreparedFields
    <2>2. DrawnFrom(b) \in Int
      BY <2>1, DrawnFromIsSum, SumType, TookTyped DEF Standing
    <2>3. batch[b].left = batch[b].made - wasted[b] - DrawnFrom(b) /\ wasted[b] \in Nat
      BY <1>1, <2>1 DEF BatchAddsUp
    <2>4. CASE b = r.batch
      <3>1. /\ batch'[b].left = batch[b].left - r.quantity
            /\ batch'[b].made = batch[b].made
        BY <1>4, <2>1, <2>4 DEF Batches
      <3>2. wasted'[b] = wasted[b] + r.quantity
        BY <1>1, <1>4, <2>1, <2>4
      <3> QED BY <1>3, <1>5, <2>1, <2>2, <2>3, <3>1, <3>2
    <2>5. CASE b # r.batch
      <3>1. batch'[b] = batch[b] /\ wasted'[b] = wasted[b]
        BY <1>1, <1>4, <2>1, <2>5
      <3> QED BY <1>5, <2>3, <3>1
    <2> QED BY <2>4, <2>5
  <1>7. DOMAIN batch' = DOMAIN batch
    BY <1>4
  <1> QED BY <1>5, <1>6, <1>7 DEF BatchAddsUp

\* The books of the batches, and what they rest on.
BookInv ==
  /\ SalesInFlight /\ WastesInFlight /\ UnpreparedIsUntouched
  /\ IsFiniteSet(Standing) /\ BatchAddsUp

\* The books stay in order, whatever overlaps.
LEMMA BooksInOrder == Spec => []BookInv
  <1>1. Init => BookInv
    <2>1. ASSUME Init
          PROVE  BookInv
      <3>1. Standing = {} /\ DOMAIN batch = {}
        BY <2>1 DEF Init, Standing
      <3>2. UnpreparedIsUntouched
        BY <2>1 DEF Init, UnpreparedIsUntouched, Nothing, At, Idle
      <3> QED
        BY <2>1, <3>1, <3>2, FS_EmptySet
        DEF Init, BookInv, SalesInFlight, WastesInFlight, BatchAddsUp, At, Idle
    <2> QED BY <2>1
  <1>2. TypeOK /\ BookInv /\ [Next]_vars => BookInv'
    <2>1. ASSUME TypeOK, BookInv, [Next]_vars
          PROVE  IsFiniteSet(Standing') /\ BatchAddsUp'
      <3>1. CASE UNCHANGED <<batch, wasted, taken, sale>>
        BY <2>1, <3>1, DrawnStays DEF BookInv, BatchAddsUp
      <3> QED
        BY <2>1, <3>1, BookWriters, SellAddsUp, ReverseAddsUp, PrepareAddsUp, WasteAddsUp
        DEF BookInv
    <2> QED
      BY <2>1, SalesStayInFlight, WastesStayInFlight, UnpreparedStaysUntouched DEF BookInv
  <1> QED BY <1>1, <1>2, Typing, PTL DEF Spec

\* What is left of a batch is what it yielded, less its waste and what the sales
\* that stand took from it, whatever overlaps.
THEOREM BatchesAddUp == Spec => []BatchAddsUp
  <1>1. BookInv => BatchAddsUp
    BY DEF BookInv
  <1> QED BY <1>1, BooksInOrder, PTL

-----------------------------------------------------------------------------
(* First expired, first out.                                               *)

\* A finite set in which one of any two comes before the other has a last one.
LEMMA LastOne ==
  ASSUME NEW D, IsFiniteSet(D), D # {}, NEW R,
         \A a, b \in D : a = b \/ <<a, b>> \in R \/ <<b, a>> \in R,
         \A a, b, c \in D : <<a, b>> \in R /\ <<b, c>> \in R => <<a, c>> \in R
  PROVE  \E m \in D : \A a \in D : a # m => <<a, m>> \in R
  <1>. DEFINE T == {Q \in SUBSET D :
                      Q # {} /\ ~ \E m \in Q : \A a \in Q : a # m => <<a, m>> \in R}
  <1>. SUFFICES ASSUME D \in T
                PROVE  FALSE
    OBVIOUS
  <1>1. PICK Q \in T : \A P \in T : P \subseteq Q => P = Q
    <2>1. T \subseteq SUBSET D /\ T # {}
      OBVIOUS
    <2>. HIDE DEF T
    <2> QED BY <2>1, LeastSubset
  <1>2. PICK x : x \in Q
    BY <1>1
  <1>3. Q \ {x} # {}
    BY <1>1, <1>2
  <1>4. Q \ {x} \notin T
    <2>1. Q \ {x} \subseteq Q /\ Q \ {x} # Q
      BY <1>2
    <2> HIDE DEF T
    <2> QED BY <1>1, <2>1
  <1>5. PICK m \in Q \ {x} : \A a \in Q \ {x} : a # m => <<a, m>> \in R
    BY <1>1, <1>3, <1>4
  <1>6. CASE <<x, m>> \in R
    BY <1>1, <1>2, <1>5, <1>6
  <1>7. CASE <<m, x>> \in R
    <2>1. \A a \in Q : a # x => <<a, x>> \in R
      BY <1>1, <1>2, <1>5, <1>7
    <2> QED BY <1>1, <1>2, <2>1
  <1> QED BY <1>1, <1>2, <1>5, <1>6, <1>7

\* n is given out of what the members of a finite set D hold, in the order R:
\* each gives what those before it cannot.
Allocates(D, R, left, given, n) ==
  /\ IsFiniteSet(D) /\ n \in Nat
  /\ \A b \in D : left[b] \in Nat \ {0}
  /\ \A b \in D : <<b, b>> \notin R
  /\ \A a, b \in D : a = b \/ <<a, b>> \in R \/ <<b, a>> \in R
  /\ \A a, b, c \in D : <<a, b>> \in R /\ <<b, c>> \in R => <<a, c>> \in R
  /\ \A b \in D : given[b] =
       Between(n - SumFunctionOnSet(left, {a \in D : <<a, b>> \in R}), left[b])

\* Those before some point give n together, or all they hold.
LEMMA GivenTogether ==
  ASSUME NEW D, NEW R, NEW left, NEW given, NEW n,
         Allocates(D, R, left, given, n),
         NEW U, U \subseteq D, \A a, b \in D : b \in U /\ <<a, b>> \in R => a \in U
  PROVE  SumFunctionOnSet(given, U) =
           IF n <= SumFunctionOnSet(left, U) THEN n ELSE SumFunctionOnSet(left, U)
  <1>. DEFINE L(Q) == SumFunctionOnSet(left, Q)
              G(Q) == SumFunctionOnSet(given, Q)
              Closed(Q) == \A a, b \in D : b \in Q /\ <<a, b>> \in R => a \in Q
              T == {Q \in SUBSET D : Closed(Q) /\ G(Q) # IF n <= L(Q) THEN n ELSE L(Q)}
  <1>. SUFFICES ASSUME U \in T
                PROVE  FALSE
    OBVIOUS
  <1>0. /\ IsFiniteSet(D) /\ n \in Nat
        /\ \A b \in D : left[b] \in Nat \ {0}
        /\ \A b \in D : <<b, b>> \notin R
        /\ \A a, b \in D : a = b \/ <<a, b>> \in R \/ <<b, a>> \in R
        /\ \A a, b, c \in D : <<a, b>> \in R /\ <<b, c>> \in R => <<a, c>> \in R
        /\ \A b \in D : given[b] =
             Between(n - SumFunctionOnSet(left, {a \in D : <<a, b>> \in R}), left[b])
    BY DEF Allocates
  <1> USE <1>0
  <1>1. \A Q \in SUBSET D : IsFiniteSet(Q) /\ L(Q) \in Int /\ 0 <= L(Q)
    <2>. SUFFICES ASSUME NEW Q \in SUBSET D
                  PROVE  IsFiniteSet(Q) /\ L(Q) \in Int /\ 0 <= L(Q)
      OBVIOUS
    <2>1. IsFiniteSet(Q) /\ IsFiniteSet({})
      BY FS_Subset, FS_EmptySet
    <2>2. \A x \in Q : left[x] \in Nat
      OBVIOUS
    <2>3. L(Q) \in Int
      BY <2>1, <2>2, SumType
    <2>4. L({}) = 0 /\ L({}) <= L(Q)
      BY <2>1, <2>2, SumEmpty, SumOfPart
    <2> HIDE DEF L
    <2> QED BY <2>1, <2>3, <2>4
  <1>2. \A b \in D : given[b] \in Int
    <2>. SUFFICES ASSUME NEW b \in D
                  PROVE  given[b] \in Int
      OBVIOUS
    <2>1. L({a \in D : <<a, b>> \in R}) \in Int
      BY <1>1
    <2> HIDE DEF L
    <2> QED BY <2>1 DEF Between, L
  <1>3. PICK Q \in T : \A P \in T : P \subseteq Q => P = Q
    <2>1. T \subseteq SUBSET D /\ T # {}
      OBVIOUS
    <2>. HIDE DEF T
    <2> QED BY <2>1, LeastSubset
  <1>4. Q # {}
    <2>1. L({}) = 0 /\ G({}) = 0
      BY SumEmpty
    <2>2. G(Q) # IF n <= L(Q) THEN n ELSE L(Q)
      BY <1>3
    <2> HIDE DEF L, G
    <2>3. G({}) = IF n <= L({}) THEN n ELSE L({})
      BY <2>1
    <2> QED BY <2>2, <2>3
  <1>5. PICK m \in Q : \A a \in Q : a # m => <<a, m>> \in R
    <2>1. IsFiniteSet(Q) /\ Q \subseteq D
      BY <1>1, <1>3
    <2> QED BY <1>4, <2>1, LastOne
  <1>6. Q \ {m} = {a \in D : <<a, m>> \in R}
    BY <1>3, <1>5
  <1>7. Q \ {m} \in SUBSET D /\ Closed(Q \ {m})
    BY <1>3, <1>5
  <1>8. G(Q \ {m}) = IF n <= L(Q \ {m}) THEN n ELSE L(Q \ {m})
    <2>1. Q \ {m} \notin T
      BY <1>3, <1>5
    <2> HIDE DEF G, L, Closed
    <2> QED BY <1>7, <2>1
  <1>9. G(Q) = given[m] + G(Q \ {m})
    BY <1>1, <1>2, <1>3, <1>5, SumRemove
  <1>10. L(Q) = left[m] + L(Q \ {m})
    <2>1. \A x \in Q : left[x] \in Int
      BY <1>3
    <2> QED BY <1>1, <1>3, <1>5, <2>1, SumRemove
  <1>11. given[m] = Between(n - L(Q \ {m}), left[m])
    BY <1>3, <1>5, <1>6
  <1>12. L(Q \ {m}) \in Nat /\ left[m] \in Nat \ {0}
    BY <1>1, <1>3, <1>5, <1>7
  <1>13. G(Q) # IF n <= L(Q) THEN n ELSE L(Q)
    BY <1>3
  <1> HIDE DEF G, L, Closed, T
  <1>14. PICK l, g, k : l = L(Q \ {m}) /\ g = given[m] /\ k = left[m]
    OBVIOUS
  <1>15. CASE n <= l
    <2>1. g = 0
      BY <1>11, <1>12, <1>14, <1>15 DEF Between
    <2> QED BY <1>8, <1>9, <1>10, <1>12, <1>13, <1>14, <1>15, <2>1
  <1>16. CASE ~(n <= l) /\ n - l <= k
    <2>1. g = n - l
      BY <1>11, <1>12, <1>14, <1>16 DEF Between
    <2> QED BY <1>8, <1>9, <1>10, <1>12, <1>13, <1>14, <1>16, <2>1
  <1>17. CASE ~(n <= l) /\ ~(n - l <= k)
    <2>1. g = k
      BY <1>11, <1>12, <1>14, <1>17 DEF Between
    <2> QED BY <1>8, <1>9, <1>10, <1>12, <1>13, <1>14, <1>17, <2>1
  <1> QED BY <1>15, <1>16, <1>17

\* What the sale takes from a live batch, and so from all of them.
LEMMA SoonestIsDrawn ==
  ASSUME NEW D, NEW R, NEW left, NEW given, NEW n,
         Allocates(D, R, left, given, n)
  PROVE  /\ \A a, b \in D : <<a, b>> \in R /\ given[b] > 0 => given[a] = left[a]
         /\ SumFunctionOnSet(given, D) <= n
         /\ SumFunctionOnSet(given, D) < n => \A b \in D : given[b] = left[b]
  <1>. DEFINE L(Q) == SumFunctionOnSet(left, Q)
              G(Q) == SumFunctionOnSet(given, Q)
              Earlier(b) == {a \in D : <<a, b>> \in R}
  <1>4. G(D) = IF n <= L(D) THEN n ELSE L(D)
    <2>1. D \subseteq D /\ \A a, b \in D : b \in D /\ <<a, b>> \in R => a \in D
      OBVIOUS
    <2> QED BY <2>1, GivenTogether
  <1>0. /\ IsFiniteSet(D) /\ n \in Nat
        /\ \A b \in D : left[b] \in Nat \ {0}
        /\ \A b \in D : <<b, b>> \notin R
        /\ \A a, b \in D : a = b \/ <<a, b>> \in R \/ <<b, a>> \in R
        /\ \A a, b, c \in D : <<a, b>> \in R /\ <<b, c>> \in R => <<a, c>> \in R
        /\ \A b \in D : given[b] =
             Between(n - SumFunctionOnSet(left, {a \in D : <<a, b>> \in R}), left[b])
    BY DEF Allocates
  <1> USE <1>0
  <1>1. \A Q \in SUBSET D : L(Q) \in Int
    <2>. SUFFICES ASSUME NEW Q \in SUBSET D
                  PROVE  L(Q) \in Int
      OBVIOUS
    <2>1. IsFiniteSet(Q) /\ \A x \in Q : left[x] \in Int
      BY FS_Subset
    <2> QED BY <2>1, SumType
  <1>2. \A b \in D : L(Earlier(b) \cup {b}) = left[b] + L(Earlier(b))
    <2>. SUFFICES ASSUME NEW b \in D
                  PROVE  L(Earlier(b) \cup {b}) = left[b] + L(Earlier(b))
      OBVIOUS
    <2>1. b \notin Earlier(b) /\ IsFiniteSet(Earlier(b))
      BY FS_Subset
    <2>2. left[b] \in Int /\ \A x \in Earlier(b) : left[x] \in Int
      OBVIOUS
    <2> HIDE DEF Earlier
    <2> QED BY <2>1, <2>2, SumAdd
  <1>3. \A P, Q \in SUBSET D : P \subseteq Q => L(P) <= L(Q)
    <2>. SUFFICES ASSUME NEW P \in SUBSET D, NEW Q \in SUBSET D, P \subseteq Q
                  PROVE  L(P) <= L(Q)
      OBVIOUS
    <2>1. IsFiniteSet(Q) /\ \A x \in Q : left[x] \in Nat
      BY FS_Subset
    <2> QED BY <2>1, SumOfPart
  <1>5. \A b \in D : /\ given[b] = Between(n - L(Earlier(b)), left[b])
                     /\ left[b] \in Nat \ {0} /\ L(Earlier(b)) \in Int
                     /\ Earlier(b) \cup {b} \in SUBSET D
    BY <1>1
  <1>6. ASSUME NEW a \in D, NEW b \in D, <<a, b>> \in R
        PROVE  L(Earlier(a) \cup {a}) <= L(Earlier(b))
    <2>1. Earlier(a) \cup {a} \subseteq Earlier(b) /\ Earlier(b) \in SUBSET D
      BY <1>6
    <2> HIDE DEF L, Earlier
    <2> QED BY <1>3, <2>1
  <1>7. L(D) \in Int
    BY <1>1
  <1> HIDE DEF L, G, Earlier
  <1>8. ASSUME NEW a \in D, NEW b \in D, <<a, b>> \in R, given[b] > 0
        PROVE  given[a] = left[a]
    <2>1. L(Earlier(a)) + left[a] <= L(Earlier(b))
      <3>1. L(Earlier(a) \cup {a}) = left[a] + L(Earlier(a))
        BY <1>2
      <3>2. L(Earlier(a) \cup {a}) <= L(Earlier(b))
        BY <1>6, <1>8
      <3>3. left[a] \in Int /\ L(Earlier(a)) \in Int
        BY <1>5
      <3> QED BY <3>1, <3>2, <3>3
    <2>2. ~(n - L(Earlier(b)) <= 0)
      <3>1. given[b] = Between(n - L(Earlier(b)), left[b]) /\ left[b] \in Nat \ {0}
        BY <1>5
      <3> QED BY <1>8, <3>1 DEF Between
    <2>3. n - L(Earlier(a)) > left[a]
      BY <1>5, <2>1, <2>2
    <2>4. given[a] = Between(n - L(Earlier(a)), left[a])
      BY <1>5
    <2> QED BY <1>5, <2>3, <2>4 DEF Between
  <1>9. ASSUME G(D) < n, NEW b \in D
        PROVE  given[b] = left[b]
    <2>1. L(D) < n
      BY <1>4, <1>7, <1>9
    <2>2. L(Earlier(b) \cup {b}) <= L(D)
      BY <1>3, <1>5
    <2>3. n - L(Earlier(b)) > left[b]
      BY <1>2, <1>5, <1>7, <2>1, <2>2
    <2>4. given[b] = Between(n - L(Earlier(b)), left[b])
      BY <1>5
    <2> QED BY <1>5, <2>3, <2>4 DEF Between
  <1>10. G(D) <= n
    BY <1>4, <1>7
  <1> QED BY <1>8, <1>9, <1>10 DEF G

\* What is left of each batch.
Lefts == [b \in DOMAIN batch |-> batch[b].left]

\* The live batches of a dish, and those of them that expire sooner than one.
LiveNow(d) == LiveBatches(batch, d, clock)
SoonerThan(d, b) == {a \in LiveNow(d) : Sooner(batch, a, b)}

\* What a batch gives, by the batches that expire sooner.
LEMMA DrawnBySums ==
  ASSUME NEW need, NEW b \in DOMAIN batch, NEW d, d = batch[b].dish
  PROVE  Drawn(batch, need, clock)[b] =
           IF b \notin LiveNow(d) THEN 0
           ELSE Between(need[d] - SumFunctionOnSet(Lefts, SoonerThan(d, b)), batch[b].left)
  <1>1. MapThenSumSet(LAMBDA a : batch[a].left, SoonerThan(d, b))
          = SumFunctionOnSet(Lefts, SoonerThan(d, b))
    BY DEF MapThenSumSet, SumFunctionOnSet, FoldFunctionOnSet, MapThenFoldSet, Lefts,
           SoonerThan, LiveNow, LiveBatches
  <1>2. Drawn(batch, need, clock)[b] =
           IF b \notin LiveNow(d) THEN 0
           ELSE Between(need[d] - MapThenSumSet(LAMBDA a : batch[a].left, SoonerThan(d, b)),
                        batch[b].left)
    BY DEF Drawn, SoonerThan, LiveNow
  <1> QED BY <1>1, <1>2

\* Batches that expire sooner, or as soon and were prepared before: one of any
\* two comes first.
LEMMA SoonerIsAnOrder ==
  ASSUME TypeOK, NEW a \in DOMAIN batch, NEW b \in DOMAIN batch, NEW c \in DOMAIN batch
  PROVE  /\ ~Sooner(batch, a, a)
         /\ a = b \/ Sooner(batch, a, b) \/ Sooner(batch, b, a)
         /\ Sooner(batch, a, b) /\ Sooner(batch, b, c) => Sooner(batch, a, c)
  <1>1. \A x \in {a, b, c} : batch[x].expires \in Int /\ x \in Int
    <2>1. \A x \in {a, b, c} : batch[x] \in Batches /\ x \in Batch
      BY PreparedFields
    <2>2. \A x \in {a, b, c} : batch[x].expires \in Expires
      BY <2>1 DEF Batches
    <2>3. Expires \subseteq Int
      BY StockAssumption
    <2>4. Batch \subseteq Int
      BY DEF Batch
    <2> QED BY <2>1, <2>2, <2>3, <2>4
  <1> QED BY <1>1 DEF Sooner

\* There are finitely many batches.
LEMMA BatchesAreFinite ==
  ASSUME TypeOK
  PROVE  IsFiniteSet(DOMAIN batch)
  <1>1. DOMAIN batch = 1 .. Len(batch) /\ Len(batch) \in Nat
    BY LenProperties DEF TypeOK
  <1>2. IsFiniteSet(1 .. Len(batch))
    BY <1>1, FS_Interval
  <1> QED BY <1>1, <1>2

\* What depleteForOrder() draws for what a sale needs.
LEMMA DrawnIsAllocated ==
  ASSUME TypeOK, NEW need \in Quantities, NEW d \in Dish, NEW D, D = LiveNow(d),
         NEW R, R = {p \in D \X D : Sooner(batch, p[1], p[2])}
  PROVE  Allocates(D, R, Lefts, DrawnNow(need), need[d])
  <1>1. IsFiniteSet(DOMAIN batch)
    BY BatchesAreFinite
  <1>2. D \subseteq DOMAIN batch
    BY DEF LiveNow, LiveBatches
  <1>3. IsFiniteSet(D)
    BY <1>1, <1>2, FS_Subset
  <1>4. need[d] \in Nat
    BY DEF Quantities, Item
  <1>5. \A b \in D : Lefts[b] \in Nat \ {0}
    <2>1. \A b \in D : batch[b].left \in Int
      BY <1>2, PreparedFields
    <2>2. \A b \in D : batch[b].left > 0 /\ Lefts[b] = batch[b].left
      BY <1>2 DEF LiveNow, LiveBatches, Live, Lefts
    <2> QED BY <2>1, <2>2
  <1>6. \A a, b \in D : <<a, b>> \in R <=> Sooner(batch, a, b)
    OBVIOUS
  <1>7. /\ \A b \in D : <<b, b>> \notin R
        /\ \A a, b \in D : a = b \/ <<a, b>> \in R \/ <<b, a>> \in R
        /\ \A a, b, c \in D : <<a, b>> \in R /\ <<b, c>> \in R => <<a, c>> \in R
    BY <1>2, <1>6, SoonerIsAnOrder
  <1>8. ASSUME NEW b \in D
        PROVE  DrawnNow(need)[b] =
                 Between(need[d] - SumFunctionOnSet(Lefts, {a \in D : <<a, b>> \in R}),
                         Lefts[b])
    <2>1. b \in DOMAIN batch /\ b \in Batch /\ batch[b].dish = d
      BY <1>2, PreparedFields DEF LiveNow, LiveBatches
    <2>2. DrawnNow(need)[b] = Drawn(batch, need, clock)[b] /\ Lefts[b] = batch[b].left
      BY <2>1 DEF DrawnNow, Lefts
    <2>3. SoonerThan(d, b) = {a \in D : <<a, b>> \in R}
      BY <1>6 DEF SoonerThan
    <2>4. Drawn(batch, need, clock)[b] =
            Between(need[d] - SumFunctionOnSet(Lefts, SoonerThan(d, b)), batch[b].left)
      BY <2>1, DrawnBySums
    <2> QED BY <2>2, <2>3, <2>4
  <1> QED BY <1>3, <1>4, <1>5, <1>7, <1>8 DEF Allocates

\* depleteForOrder() draws the soonest to expire.
LEMMA DrawnSoonestFirst ==
  ASSUME TypeOK, NEW need \in Quantities, NEW r, r.need = need, r.from = DrawnNow(need)
  PROVE  DrawsTheSoonest(r)
  <1>. SUFFICES ASSUME NEW d \in Dish
                PROVE  LET mine == {b \in DOMAIN batch : batch[b].dish = d}
                           live == {b \in mine : batch[b].left > 0 /\ batch[b].expires > clock}
                           drawn == MapThenSumSet(LAMBDA b : r.from[b], mine)
                       IN /\ \A b \in mine \ live : r.from[b] = 0
                          /\ \A a, b \in live :
                               batch[a].expires < batch[b].expires /\ r.from[b] > 0
                                 => r.from[a] = batch[a].left
                          /\ drawn <= r.need[d]
                          /\ drawn < r.need[d] =>
                               \A b \in live : r.from[b] = batch[b].left
    BY DEF DrawsTheSoonest
  <1>. DEFINE mine == {b \in DOMAIN batch : batch[b].dish = d}
              live == {b \in mine : batch[b].left > 0 /\ batch[b].expires > clock}
              drawn == MapThenSumSet(LAMBDA b : r.from[b], mine)
  <1>1. PICK D, R, given : /\ D = LiveNow(d) /\ given = DrawnNow(need)
                           /\ R = {p \in D \X D : Sooner(batch, p[1], p[2])}
    OBVIOUS
  <1>2. live = D /\ D \subseteq mine /\ D \subseteq DOMAIN batch
    BY <1>1 DEF LiveNow, LiveBatches, Live
  <1>3. Allocates(D, R, Lefts, given, need[d])
    BY <1>1, DrawnIsAllocated
  <1>4. given \in [Batch -> Nat] /\ mine \subseteq Batch /\ IsFiniteSet(mine)
    <2>1. batch \in Seq(Batches) /\ IsFiniteSet(DOMAIN batch)
      BY BatchesAreFinite DEF TypeOK
    <2>2. mine \subseteq Batch
      BY PreparedFields
    <2>3. mine \subseteq DOMAIN batch
      OBVIOUS
    <2>4. IsFiniteSet(mine)
      BY <2>1, <2>3, FS_Subset
    <2> QED BY <1>1, <2>1, <2>2, <2>4, DrawnNowTyped
  <1>5. \A b \in mine : b \notin D => given[b] = 0
    <2>. SUFFICES ASSUME NEW b \in mine, b \notin D
                  PROVE  given[b] = 0
      OBVIOUS
    <2>1. b \in DOMAIN batch /\ b \in Batch /\ b \notin LiveNow(batch[b].dish)
      BY <1>1, <1>4
    <2>2. Drawn(batch, need, clock)[b] = 0
      BY <2>1, DrawnBySums
    <2> QED BY <1>1, <2>1, <2>2 DEF DrawnNow
  <1>6. drawn = SumFunctionOnSet(given, mine)
    BY <1>1 DEF MapThenSumSet, SumFunctionOnSet, FoldFunctionOnSet, MapThenFoldSet
  <1>7. SumFunctionOnSet(given, mine) = SumFunctionOnSet(given, D)
    <2>1. \A x \in mine : given[x] \in Int
      BY <1>4
    <2> HIDE DEF mine
    <2> QED BY <1>2, <1>4, <1>5, <2>1, SumSkipsZeros
  <1>8. /\ \A a, b \in D : <<a, b>> \in R /\ given[b] > 0 => given[a] = Lefts[a]
        /\ SumFunctionOnSet(given, D) <= need[d]
        /\ SumFunctionOnSet(given, D) < need[d] => \A b \in D : given[b] = Lefts[b]
    BY <1>3, SoonestIsDrawn
  <1>9. \A b \in D : Lefts[b] = batch[b].left
    BY <1>2 DEF Lefts
  <1>10. \A a, b \in D : batch[a].expires < batch[b].expires => <<a, b>> \in R
    BY <1>1 DEF Sooner
  <1> HIDE DEF mine, live, drawn
  <1>11. r.from = given /\ r.need = need
    BY <1>1
  <1>12. /\ \A b \in mine \ live : r.from[b] = 0
         /\ \A a, b \in live :
              batch[a].expires < batch[b].expires /\ r.from[b] > 0
                => r.from[a] = batch[a].left
    BY <1>2, <1>5, <1>8, <1>9, <1>10, <1>11
  <1>13. /\ drawn <= r.need[d]
         /\ drawn < r.need[d] => \A b \in live : r.from[b] = batch[b].left
    BY <1>2, <1>6, <1>7, <1>8, <1>9, <1>11
  <1> QED BY <1>12, <1>13 DEF mine, live, drawn

\* A sale draws no expired batch and no empty one, none while one that expires
\* sooner could give, and leaves no batch undrawn that could give what it needs
\* (allocateFefo): the allocation, batch by batch, against what it promises.
THEOREM SalesDrawSoonestFirst == Spec => SalesDrawTheSoonest
  <1>1. ASSUME TypeOK, [Next]_vars, NEW w \in Worker, req'[w].pc = "sell", req[w] = Idle
        PROVE  DrawsTheSoonest(req'[w])
    <2>1. req'[w] # req[w]
      BY <1>1 DEF Idle
    <2>2. PICK o \in Order, n \in Amount : Sell(w, o, n)
      BY <1>1, <2>1, Begins DEF At
    <2>3. req \in [Worker -> Request] /\ recipe \in Quantities /\ n \in Nat
      BY <1>1, StockAssumption DEF TypeOK
    <2>4. PICK need : need = [i \in Item |-> n * recipe[i]]
      OBVIOUS
    <2>5. need \in Quantities
      <3>1. \A i \in Item : recipe[i] \in Nat
        BY <2>3 DEF Quantities
      <3>2. \A i \in Item : n * recipe[i] \in Nat
        BY <2>3, <3>1
      <3> QED BY <2>4, <3>2 DEF Quantities
    <2>6. req'[w] = [pc |-> "sell", order |-> o, need |-> need, from |-> DrawnNow(need)]
      BY <2>2, <2>3, <2>4 DEF Sell, Arrive
    <2>7. req'[w].need = need /\ req'[w].from = DrawnNow(need)
      BY <2>6
    <2> QED BY <1>1, <2>5, <2>7, DrawnSoonestFirst
  <1>2. TypeOK /\ [Next]_vars =>
          [\A w \in Worker :
             req'[w].pc = "sell" /\ req[w] = Idle => DrawsTheSoonest(req'[w])]_vars
    BY <1>1
  <1> QED BY <1>2, Typing, PTL DEF Spec, SalesDrawTheSoonest

-----------------------------------------------------------------------------
(* One request at a time.                                                  *)

\* The tenant has one request in flight at a time.
OneAtATime == \A v, w \in Worker : v = w

\* The request that writes the stock or the batches is over with it.
LEMMA StockWritersAreDone ==
  ASSUME TypeOK, [Next]_vars
  PROVE  \/ UNCHANGED <<stock, batch, applied>>
         \/ \E w \in Worker : req'[w] = Idle
  <1> USE DEF sheets
  <1>1. req \in [Worker -> Request]
    BY DEF TypeOK
  <1>2. ASSUME NEW w \in Worker, Arrivals(w), ~ \E o \in Order : Reverse(w, o)
        PROVE  UNCHANGED <<stock, batch, applied>>
    BY <1>2
    DEF Arrivals, Move, Sell, Prepare, Waste, Submit, Transition, NothingWritten
  <1>3. ASSUME NEW w \in Worker, NEW o \in Order, Reverse(w, o)
        PROVE  req'[w] = Idle
    BY <1>1, <1>3 DEF Reverse, Arrive
  <1>4. ASSUME NEW w \in Worker, PrepareRead(w) \/ PrepareLost(w) \/ WasteRead(w)
        PROVE  UNCHANGED <<stock, batch, applied>>
    BY <1>4 DEF PrepareRead, PrepareLost, WasteRead, NothingWritten
  <1>5. ASSUME NEW w \in Worker, Done(w)
        PROVE  req'[w] = Idle
    BY <1>1, <1>5 DEF Done, GoOn
  <1>6. ASSUME NEW w \in Worker,
               \/ MoveWrite(w) \/ MoveLost(w) \/ SellWrite(w) \/ PrepareWrite(w)
               \/ WasteWrite(w) \/ WasteLost(w) \/ SubmitWrite(w) \/ TransitionWrite(w)
               \/ Abort(w)
        PROVE  req'[w] = Idle
    BY <1>5, <1>6
    DEF MoveWrite, MoveLost, SellWrite, PrepareWrite, WasteWrite, WasteLost,
        SubmitWrite, TransitionWrite, Abort
  <1>7. CASE \/ \E c \in Count : CancelCount(c) \/ \E S \in SUBSET Item : StartCount(c, S)
             \/ \E p \in Purchase, lines \in Lines : Draft(p, lines)
             \/ SetRecipe \/ (\E d \in Dish : SetFormula(d)) \/ Tick
             \/ UNCHANGED vars
    BY <1>7 DEF CancelCount, StartCount, Draft, SetRecipe, SetFormula, Tick, vars
  <1> QED BY <1>2, <1>3, <1>4, <1>6, <1>7 DEF Next, Steps

\* While the only request is in flight, nobody writes the stock or the batches.
LEMMA StillWhileBusy ==
  ASSUME OneAtATime, TypeOK, [Next]_vars, NEW v \in Worker, req'[v].pc # "idle"
  PROVE  UNCHANGED <<stock, batch, applied>>
  <1>1. req'[v] # Idle
    BY DEF Idle
  <1> QED BY <1>1, StockWritersAreDone DEF OneAtATime

\* What a request in flight read still holds when it commits: the stock a batch
\* was checked against, the stock a count was compared with, what was left of the
\* batches a sale draws from and of the batch that is wasted.
ReadsAreFresh ==
  \A w \in Worker :
    /\ At(w, "prepare") => Short(req[w].uses, stock) = {}
    /\ At(w, "submit") =>
         \A i \in Counted(req[w].counted) :
           req[w].difference[i] = req[w].counted[i] - stock[i]
    /\ At(w, "sell") =>
         \A b \in DOMAIN batch : req[w].from[b] = 0 \/ req[w].from[b] <= batch[b].left
    /\ At(w, "waste") => req[w].quantity <= batch[req[w].batch].left

\* What a request reads is so when it reads it.
LEMMA ReadsAreTrue ==
  ASSUME TypeOK, WastesInFlight, [Next]_vars, NEW v \in Worker, req'[v] # req[v]
  PROVE  /\ At(v, "prepare")' => Short(req'[v].uses, stock) = {}
         /\ At(v, "submit")' =>
              \A i \in Counted(req'[v].counted) :
                req'[v].difference[i] = req'[v].counted[i] - stock[i]
         /\ At(v, "sell")' =>
              \A b \in DOMAIN batch :
                req'[v].from[b] = 0 \/ req'[v].from[b] <= batch[b].left
         /\ At(v, "waste")' => req'[v].quantity <= batch[req'[v].batch].left
  <1>1. req \in [Worker -> Request] /\ batch \in Seq(Batches)
    BY DEF TypeOK
  <1>2. ASSUME At(v, "prepare")'
        PROVE  Short(req'[v].uses, stock) = {}
    <2>1. PrepareRead(v)
      BY <1>2, Begins
    <2>2. req'[v] # Idle
      BY <1>2 DEF At, Idle
    <2>3. PICK p, uses, attempt :
            /\ Short(uses, stock) = {}
            /\ req'[v] = [pc |-> "prepare", plan |-> p, uses |-> uses, attempt |-> attempt]
      BY <1>1, <2>1, <2>2 DEF PrepareRead, Done, GoOn
    <2> QED BY <2>3
  <1>3. ASSUME At(v, "submit")', NEW i \in Counted(req'[v].counted)
        PROVE  req'[v].difference[i] = req'[v].counted[i] - stock[i]
    <2>1. PICK c \in Count, counted \in Tally : Submit(v, c, counted)
      BY <1>3, Begins
    <2>2. PICK difference :
            /\ difference = [x \in Item |-> IF x \in Counted(counted)
                               THEN Difference(counted[x], count[c].seen[x], stock[x])
                               ELSE 0]
            /\ req'[v] = [pc |-> "submit", count |-> c, counted |-> counted,
                          difference |-> difference]
      BY <1>1, <2>1 DEF Submit, Arrive
    <2>3. i \in Counted(counted) /\ i \in Item
      BY <1>3, <2>2 DEF Counted
    <2> QED BY <2>2, <2>3 DEF Difference
  <1>4. ASSUME At(v, "sell")', NEW b \in DOMAIN batch
        PROVE  req'[v].from[b] = 0 \/ req'[v].from[b] <= batch[b].left
    <2>1. PICK o \in Order, n \in Amount : Sell(v, o, n)
      BY <1>4, Begins
    <2>2. PICK need : req'[v].from = DrawnNow(need)
      BY <1>1, <2>1 DEF Sell, Arrive
    <2>3. b \in Batch
      BY PreparedFields
    <2>4. DrawnNow(need)[b] = Drawn(batch, need, clock)[b]
      BY <2>3 DEF DrawnNow
    <2> QED BY <1>1, <2>2, <2>4, DrawnWithinLeft
  <1>5. ASSUME At(v, "waste")'
        PROVE  req'[v].quantity <= batch[req'[v].batch].left
    <2>1. WasteRead(v)
      BY <1>5, Begins
    <2>2. PICK r : r = req[v]
      OBVIOUS
    <2>3. r \in WasteRequest
      BY <1>1, <2>1, <2>2, RequestShapes DEF WasteRead, At
    <2>4. req'[v] # Idle
      BY <1>5 DEF At, Idle
    <2>5. ~(r.quantity > batch[r.batch].left) /\ req'[v] = [r EXCEPT !.pc = "waste"]
      BY <1>1, <2>1, <2>2, <2>4 DEF WasteRead, Wastable, Done, GoOn
    <2>6. req'[v].quantity = r.quantity /\ req'[v].batch = r.batch
      BY <2>3, <2>5 DEF WasteRequest
    <2>7. r.quantity \in Int
      <3>1. r.quantity \in Amount
        BY <2>3 DEF WasteRequest
      <3>2. Amount \subseteq Int
        BY StockAssumption
      <3> QED BY <3>1, <3>2
    <2>8. r.batch \in DOMAIN batch
      BY <2>1, <2>2 DEF WasteRead, WastesInFlight
    <2>9. batch[r.batch].left \in Int
      BY <2>8, PreparedFields
    <2> QED BY <2>5, <2>6, <2>7, <2>9
  <1> QED BY <1>2, <1>3, <1>4, <1>5

\* With one request in flight, what it read still holds when it commits.
LEMMA FreshInductive ==
  ASSUME OneAtATime, TypeOK, WastesInFlight, ReadsAreFresh, [Next]_vars
  PROVE  ReadsAreFresh'
  <1> DEFINE Fresh(r, s, t) ==
        /\ r.pc = "prepare" => Short(r.uses, s) = {}
        /\ r.pc = "submit" =>
             \A i \in Counted(r.counted) : r.difference[i] = r.counted[i] - s[i]
        /\ r.pc = "sell" =>
             \A b \in DOMAIN t : r.from[b] = 0 \/ r.from[b] <= t[b].left
        /\ r.pc = "waste" => r.quantity <= t[r.batch].left
  <1>1. ASSUME NEW v \in Worker
        PROVE  Fresh(req'[v], stock', batch')
    <2>1. req'[v].pc \notin {"prepare", "submit", "sell", "waste"}
            => Fresh(req'[v], stock', batch')
      OBVIOUS
    <2>2. ASSUME req'[v].pc \in {"prepare", "submit", "sell", "waste"}
          PROVE  Fresh(req'[v], stock, batch)
      <3>1. CASE req'[v] = req[v]
        BY <3>1 DEF ReadsAreFresh, At
      <3>2. CASE req'[v] # req[v]
        BY <3>2, ReadsAreTrue DEF At
      <3> QED BY <3>1, <3>2
    <2>3. ASSUME req'[v].pc \in {"prepare", "submit", "sell", "waste"}
          PROVE  stock' = stock /\ batch' = batch
      BY <2>3, StillWhileBusy
    <2> QED BY <2>1, <2>2, <2>3
  <1> QED BY <1>1 DEF ReadsAreFresh, At

\* With one request in flight, no read is stale.
LEMMA SerialReads ==
  ASSUME OneAtATime
  PROVE  Spec => []ReadsAreFresh
  <1>1. Init => ReadsAreFresh
    BY DEF Init, ReadsAreFresh, At, Idle
  <1>2. BookInv => WastesInFlight
    BY DEF BookInv
  <1>3. TypeOK /\ WastesInFlight /\ ReadsAreFresh /\ [Next]_vars => ReadsAreFresh'
    BY FreshInductive
  <1> QED BY <1>1, <1>2, <1>3, Typing, BooksInOrder, PTL DEF Spec

\* Only createBatch() adds a batch.
LEMMA Lengthens ==
  ASSUME TypeOK, TypeOK', [Next]_vars, Len(batch') > Len(batch)
  PROVE  \E w \in Worker : PrepareWrite(w)
  <1>1. batch \in Seq(Batches)
    BY DEF TypeOK
  <1>2. batch' \in Seq(Batches)
    BY DEF TypeOK
  <1>3. DOMAIN batch' # DOMAIN batch
    BY <1>1, <1>2, LenProperties
  <1>4. ASSUME NEW w \in Worker, SellWrite(w)
        PROVE  DOMAIN batch' = DOMAIN batch
    BY <1>4 DEF SellWrite
  <1>5. ASSUME NEW w \in Worker, WasteWrite(w)
        PROVE  DOMAIN batch' = DOMAIN batch
    BY <1>5 DEF WasteWrite
  <1>6. ASSUME NEW w \in Worker, NEW o \in Order, Reverse(w, o)
        PROVE  DOMAIN batch' = DOMAIN batch
    BY <1>6 DEF Reverse
  <1> QED BY <1>3, <1>4, <1>5, <1>6, BookWriters

\* Only the commits of a count and of a purchase order book one.
LEMMA AppliedBySubmit ==
  ASSUME [Next]_vars, applied' # applied
  PROVE  \E w \in Worker : SubmitWrite(w) \/ (TransitionWrite(w) /\ At(w, "transition"))
  <1> USE DEF sheets
  <1>1. ASSUME NEW w \in Worker, Arrivals(w)
        PROVE  applied' = applied
    BY <1>1
    DEF Arrivals, Move, Sell, Reverse, Prepare, Waste, Submit, Transition, NothingWritten
  <1>2. ASSUME NEW w \in Worker,
               \/ MoveWrite(w) \/ MoveLost(w) \/ SellWrite(w) \/ PrepareRead(w)
               \/ PrepareWrite(w) \/ PrepareLost(w) \/ WasteRead(w) \/ WasteWrite(w)
               \/ WasteLost(w) \/ Abort(w)
        PROVE  applied' = applied
    BY <1>2
    DEF MoveWrite, MoveLost, SellWrite, PrepareRead, PrepareWrite, PrepareLost,
        WasteRead, WasteWrite, WasteLost, Abort, NothingWritten
  <1>3. CASE \/ \E c \in Count : CancelCount(c) \/ \E S \in SUBSET Item : StartCount(c, S)
             \/ \E p \in Purchase, lines \in Lines : Draft(p, lines)
             \/ SetRecipe \/ (\E d \in Dish : SetFormula(d)) \/ Tick
             \/ UNCHANGED vars
    BY <1>3 DEF CancelCount, StartCount, Draft, SetRecipe, SetFormula, Tick, vars
  <1>4. ASSUME NEW w \in Worker, TransitionWrite(w)
        PROVE  At(w, "transition")
    BY <1>4 DEF TransitionWrite
  <1> QED BY <1>1, <1>2, <1>3, <1>4 DEF Next, Steps

\* With one request in flight, a batch takes no stock that is not there
\* (createBatch).
THEOREM SerialBatchesTakeWhatIsThere ==
  ASSUME OneAtATime
  PROVE  Spec => BatchesTakeWhatIsThere
  <1>1. ASSUME TypeOK, TypeOK', ReadsAreFresh, [Next]_vars, Len(batch') > Len(batch),
               NEW i \in Item, stock'[i] < stock[i]
        PROVE  stock'[i] >= 0
    <2>1. PICK w \in Worker : PrepareWrite(w)
      BY <1>1, Lengthens
    <2>2. PICK r : r = req[w]
      OBVIOUS
    <2>3. r \in PrepareRequest /\ stock \in [Item -> Int]
      BY <1>1, <2>1, <2>2, RequestShapes DEF PrepareWrite, At, TypeOK
    <2>4. r.uses \in Quantities /\ r.plan \in Plan
      BY <2>3 DEF PrepareRequest
    <2>5. r.plan.actual \in Nat
      <3>1. r.plan.actual \in Yield
        BY <2>4 DEF Plan
      <3> QED BY <3>1, StockAssumption
    <2>6. Short(r.uses, stock) = {}
      BY <1>1, <2>1, <2>2 DEF ReadsAreFresh, PrepareWrite
    <2>7. r.uses[i] \in Nat /\ DOMAIN r.uses = Item /\ stock[i] \in Int
      BY <2>3, <2>4 DEF Quantities
    <2>8. ~(r.uses[i] > 0 /\ stock[i] < r.uses[i])
      BY <2>6, <2>7 DEF Short
    <2>9. stock'[i] = stock[i] - r.uses[i]
                        + (IF i = r.plan.dish THEN r.plan.actual ELSE 0)
      BY <2>1, <2>2 DEF PrepareWrite
    <2> QED BY <1>1, <2>5, <2>7, <2>8, <2>9
  <1>2. TypeOK /\ TypeOK' /\ ReadsAreFresh /\ [Next]_vars =>
          [Len(batch') > Len(batch) =>
             \A i \in Item : stock'[i] < stock[i] => stock'[i] >= 0]_vars
    BY <1>1
  <1> QED BY <1>2, Typing, SerialReads, PTL DEF Spec, BatchesTakeWhatIsThere

\* With one request in flight, a submitted count makes the stock what was
\* counted (reconcileCount).
THEOREM SerialSubmitSetsStock ==
  ASSUME OneAtATime
  PROVE  Spec => SubmitSetsStock
  <1>1. ASSUME TypeOK, ReadsAreFresh, [Next]_vars, NEW w \in Worker, At(w, "submit"),
               applied' # applied, NEW i \in Counted(req[w].counted)
        PROVE  stock'[i] = req[w].counted[i]
    <2>1. PICK r : r = req[w]
      OBVIOUS
    <2>2. r \in SubmitRequest /\ stock \in [Item -> Int]
      BY <1>1, <2>1, RequestShapes DEF At, TypeOK
    <2>3. r.counted[i] \in Int /\ i \in Item /\ stock[i] \in Int
      BY <1>1, <2>1, <2>2 DEF SubmitRequest, Counted, Uncounted
    <2>4. r.difference[i] = r.counted[i] - stock[i]
      BY <1>1, <2>1 DEF ReadsAreFresh
    <2>5. SubmitWrite(w)
      <3>1. PICK v \in Worker : SubmitWrite(v) \/ (TransitionWrite(v) /\ At(v, "transition"))
        BY <1>1, AppliedBySubmit
      <3>2. v = w
        BY DEF OneAtATime
      <3>3. ~ At(w, "transition")
        BY <1>1 DEF At
      <3> QED BY <3>1, <3>2, <3>3
    <2>6. stock'[i] = stock[i] + r.difference[i]
      BY <2>1, <2>3, <2>5 DEF SubmitWrite
    <2> QED BY <2>1, <2>3, <2>4, <2>6
  <1>2. TypeOK /\ ReadsAreFresh /\ [Next]_vars =>
          [\A w \in Worker :
             At(w, "submit") /\ applied' # applied =>
               \A i \in Counted(req[w].counted) : stock'[i] = req[w].counted[i]]_vars
    BY <1>1
  <1> QED BY <1>2, Typing, SerialReads, PTL DEF Spec, SubmitSetsStock

\* No more leaves a batch than it yielded: whatever overlaps, nobody gives back
\* what was not taken.
LEMMA NoMoreThanItYielded ==
  ASSUME TypeOK, BookInv, NEW b \in DOMAIN batch
  PROVE  batch[b].left <= batch[b].made
  <1>1. b \in Batch /\ batch[b].left \in Int /\ batch[b].made \in Nat /\ wasted[b] \in Nat
    BY PreparedFields DEF TypeOK
  <1>2. PICK f, S, zero : /\ f = Took(b) /\ S = Standing
                          /\ zero = [o \in Order |-> 0]
    OBVIOUS
  <1>3. IsFiniteSet(S) /\ \A o \in S : f[o] \in Nat /\ o \in Order
    BY <1>1, <1>2 DEF TypeOK, BookInv, Took, Standing
  <1>4. SumFunctionOnSet(f, S) \in Int
    BY <1>3, SumType
  <1>5. SumFunctionOnSet(zero, S) = 0
    BY <1>2, <1>3, SumZeros
  <1>6. SumFunctionOnSet(zero, S) <= SumFunctionOnSet(f, S)
    BY <1>2, <1>3, SumAtMost
  <1>7. DrawnFrom(b) = SumFunctionOnSet(f, S)
    BY <1>2, DrawnFromIsSum
  <1>8. batch[b].left = batch[b].made - wasted[b] - DrawnFrom(b)
    BY DEF BookInv, BatchAddsUp
  <1> QED BY <1>1, <1>4, <1>5, <1>6, <1>7, <1>8

\* No batch gives more than it has.
NoneOverdrawn == \A b \in DOMAIN batch : batch[b].left >= 0

\* What createBatch() adds is a batch.
LEMMA NewBatchTyped ==
  ASSUME req \in [Worker -> Request], NEW w \in Worker, PrepareWrite(w), NEW p, NEW new,
         p = req[w].plan,
         new = [dish |-> p.dish, made |-> p.actual, expires |-> p.expires,
                key |-> p.key, left |-> p.actual]
  PROVE  new \in Batches
  <1>1. req[w] \in PrepareRequest
    BY RequestShapes DEF PrepareWrite, At
  <1>2. p \in Plan
    BY <1>1 DEF PrepareRequest
  <1>3. p.actual \in Nat
    <2>1. p.actual \in Yield
      BY <1>2 DEF Plan
    <2> QED BY <2>1, StockAssumption
  <1> QED BY <1>2, <1>3 DEF Plan, Batches

\* With fresh reads, no commit overdraws a batch.
LEMMA NoneIsOverdrawn ==
  ASSUME TypeOK, BookInv, ReadsAreFresh, NoneOverdrawn, [Next]_vars
  PROVE  NoneOverdrawn'
  <1>1. /\ req \in [Worker -> Request] /\ batch \in Seq(Batches)
        /\ taken \in [Order -> [need : Quantities, from : [Batch -> Nat]]]
    BY DEF TypeOK
  <1>2. ASSUME NEW w \in Worker, SellWrite(w)
        PROVE  NoneOverdrawn'
    <2>1. PICK r : r = req[w]
      OBVIOUS
    <2>2. batch' = [b \in DOMAIN batch |-> [batch[b] EXCEPT !.left = @ - r.from[b]]]
      BY <1>2, <2>1 DEF SellWrite
    <2>3. r \in SellRequest
      BY <1>1, <1>2, <2>1, RequestShapes DEF SellWrite, At
    <2>4. ASSUME NEW b \in DOMAIN batch
          PROVE  batch'[b].left >= 0
      <3>1. b \in Batch /\ batch[b] \in Batches /\ batch[b].left \in Int
        BY PreparedFields
      <3>2. r.from[b] \in Nat
        BY <2>3, <3>1 DEF SellRequest
      <3>3. r.from[b] = 0 \/ r.from[b] <= batch[b].left
        BY <1>2, <2>1 DEF ReadsAreFresh, SellWrite
      <3>4. batch'[b].left = batch[b].left - r.from[b]
        BY <2>2, <3>1 DEF Batches
      <3> QED BY <3>1, <3>2, <3>3, <3>4 DEF NoneOverdrawn
    <2> QED BY <2>2, <2>4 DEF NoneOverdrawn
  <1>3. ASSUME NEW w \in Worker, NEW o \in Order, Reverse(w, o)
        PROVE  NoneOverdrawn'
    <2>1. PICK r : r = taken[o]
      OBVIOUS
    <2>2. batch' = [b \in DOMAIN batch |-> [batch[b] EXCEPT !.left = @ + r.from[b]]]
      BY <1>3, <2>1 DEF Reverse, Returned
    <2>3. ASSUME NEW b \in DOMAIN batch
          PROVE  batch'[b].left >= 0
      <3>1. b \in Batch /\ batch[b] \in Batches /\ batch[b].left \in Int
        BY PreparedFields
      <3>2. r.from[b] \in Nat
        BY <1>1, <2>1, <3>1
      <3>3. batch'[b].left = batch[b].left + r.from[b]
        BY <2>2, <3>1 DEF Batches
      <3> QED BY <3>1, <3>2, <3>3 DEF NoneOverdrawn
    <2> QED BY <2>2, <2>3 DEF NoneOverdrawn
  <1>4. ASSUME NEW w \in Worker, PrepareWrite(w)
        PROVE  NoneOverdrawn'
    <2>1. PICK p, new :
            /\ p = req[w].plan
            /\ new = [dish |-> p.dish, made |-> p.actual, expires |-> p.expires,
                      key |-> p.key, left |-> p.actual]
      OBVIOUS
    <2>2. batch' = Append(batch, new)
      BY <1>4, <2>1 DEF PrepareWrite
    <2>3. new.left \in Nat
      <3>1. req[w] \in PrepareRequest
        BY <1>1, <1>4, RequestShapes DEF PrepareWrite, At
      <3>2. p.actual \in Yield
        BY <2>1, <3>1 DEF PrepareRequest, Plan
      <3> QED BY <2>1, <3>2, StockAssumption
    <2>4. /\ DOMAIN batch = 1 .. Len(batch) /\ Len(batch) \in Nat
          /\ DOMAIN batch' = 1 .. Len(batch) + 1
          /\ \A b \in 1 .. Len(batch) : batch'[b] = batch[b]
          /\ batch'[Len(batch) + 1] = new
      <3>1. new \in Batches
        BY <1>1, <1>4, <2>1, NewBatchTyped
      <3> QED BY <1>1, <2>2, <3>1, AppendProperties, LenProperties
    <2>5. ASSUME NEW b \in DOMAIN batch'
          PROVE  batch'[b].left >= 0
      <3>1. CASE b \in DOMAIN batch
        BY <2>4, <3>1 DEF NoneOverdrawn
      <3>2. CASE b = Len(batch) + 1
        BY <2>3, <2>4, <3>2
      <3> QED BY <2>4, <3>1, <3>2
    <2> QED BY <2>5 DEF NoneOverdrawn
  <1>5. ASSUME NEW w \in Worker, WasteWrite(w)
        PROVE  NoneOverdrawn'
    <2>1. PICK r : r = req[w]
      OBVIOUS
    <2>2. batch' = [batch EXCEPT ![r.batch].left = @ - r.quantity]
      BY <1>5, <2>1 DEF WasteWrite
    <2>3. r.quantity <= batch[r.batch].left
      BY <1>5, <2>1 DEF WasteWrite, ReadsAreFresh
    <2>4. r.quantity \in Int
      <3>1. r \in WasteRequest
        BY <1>1, <1>5, <2>1, RequestShapes DEF WasteWrite, At
      <3>2. r.quantity \in Amount
        BY <3>1 DEF WasteRequest
      <3>3. Amount \subseteq Int
        BY StockAssumption
      <3> QED BY <3>2, <3>3
    <2>5. ASSUME NEW b \in DOMAIN batch
          PROVE  batch'[b].left >= 0
      <3>1. batch[b] \in Batches /\ batch[b].left \in Int
        BY PreparedFields
      <3>2. CASE b = r.batch
        <4>1. batch'[b].left = batch[b].left - r.quantity
          BY <2>2, <3>1, <3>2 DEF Batches
        <4> QED BY <2>3, <2>4, <3>1, <3>2, <4>1
      <3>3. CASE b # r.batch
        BY <2>2, <3>3 DEF NoneOverdrawn
      <3> QED BY <3>2, <3>3
    <2> QED BY <2>2, <2>5 DEF NoneOverdrawn
  <1>6. CASE batch' = batch
    BY <1>6 DEF NoneOverdrawn
  <1> QED BY <1>2, <1>3, <1>4, <1>5, <1>6, BookWriters

\* With one request in flight, nobody takes more from a batch than it has, nor
\* gives back more than was taken (wasteBatch).
THEOREM SerialBatchWithinYield ==
  ASSUME OneAtATime
  PROVE  Spec => []BatchWithinYield
  <1>1. Init => NoneOverdrawn
    BY DEF Init, NoneOverdrawn
  <1>2. TypeOK /\ BookInv /\ ReadsAreFresh /\ NoneOverdrawn /\ [Next]_vars => NoneOverdrawn'
    BY NoneIsOverdrawn
  <1>3. TypeOK /\ BookInv /\ NoneOverdrawn => BatchWithinYield
    <2> SUFFICES ASSUME TypeOK, BookInv, NoneOverdrawn, NEW b \in DOMAIN batch
                 PROVE  batch[b].left \in 0 .. batch[b].made
      BY DEF BatchWithinYield
    <2> QED BY NoMoreThanItYielded, PreparedFields DEF NoneOverdrawn
  <1> QED BY <1>1, <1>2, <1>3, Typing, BooksInOrder, SerialReads, PTL DEF Spec

=============================================================================
