------------------------------- MODULE Stock -------------------------------
(***************************************************************************)
(* The stock ledger and all who write it: manual movements, sales and      *)
(* their reversal (InventoryService), prepared batches (PrepService),      *)
(* physical counts (StockCountService) and received purchase orders        *)
(* (ProcurementService).  One tenant.                                      *)
(*                                                                         *)
(* The ledger is append-only and the code reads sums of it, so the sums    *)
(* are the state: stock per ingredient (stockByIngredient), and what is    *)
(* left of each batch (remainingByBatch).                                  *)
(*                                                                         *)
(* A transaction commits in one step, together with the reads that cannot  *)
(* change before the commit; a read that another request can make stale is *)
(* a step of its own.  SELECT ... FOR UPDATE on a count or a purchase      *)
(* order keeps its status until the commit.                                *)
(*                                                                         *)
(* A definition whose name begins with Mutant stands for a plausible bug   *)
(* in the definition below it.  No action uses it.                         *)
(***************************************************************************)
EXTENDS StockRules, Sequences

CONSTANTS
  Raw,           \* ingredients that are bought
  Dish,          \* ingredients that are prepared in batches
  Order,         \* sales
  Count,         \* physical counts
  Purchase,      \* purchase orders
  Worker,        \* requests the API can have in flight at once
  Key,           \* idempotency keys the tills send
  NoKey,         \* "no idempotency key"
  Amount,        \* quantities the clients send
  Yield,         \* quantities a batch is planned for, or turns out to yield
  Recipe,        \* recipes of the product that is sold
  Formula,       \* recipes of a dish: a yield and what it needs
  Opening,       \* stock booked before: the ledger is never empty for long
  Expires,       \* expiry times a batch may be given
  Tally,         \* what staff may count, by item
  Lines,         \* what may be ordered, by item
  Load,          \* the operations the clients of this instance send
  MaxBatches,    \* bound on the batches ever prepared
  MaxTime,       \* bound on the clock
  MaxRequests,   \* bound on the requests ever sent
  MaxAttempts    \* createBatch() tries this often to allocate a code (5)

Item == Raw \cup Dish
Batch == 1 .. MaxBatches
Quantities == [Item -> Nat]
Operation == {"move", "sell", "reverse", "prepare", "waste", "count", "order"}

\* A batch that never expires expires after the clock stops.
Never == MaxTime + 1

ASSUME StockAssumption ==
  /\ Raw \cap Dish = {} /\ Count \cap Purchase = {}
  /\ NoKey \notin Key
  /\ Amount \subseteq Nat \ {0}
  /\ Yield \subseteq Nat
  /\ Opening \in [Raw \cup Dish -> Int]
  /\ Tally \subseteq [Raw \cup Dish -> Nat \cup {-1}]
  /\ Lines \subseteq Quantities
  /\ Expires \subseteq 0 .. MaxTime + 1
  /\ Recipe \subseteq Quantities
  /\ Formula \subseteq [yield : Nat \ {0}, needs : Quantities]
  /\ Load \subseteq Operation
  /\ MaxBatches \in Nat /\ MaxTime \in Nat /\ MaxRequests \in Nat
  /\ MaxAttempts \in Nat \ {0}

VARIABLES
  stock,      \* per ingredient, SUM(quantity) over its movements
  batch,      \* the batches, in the order they were prepared
  wasted,     \* per batch, SUM(quantity) over its WASTE movements
  taken,      \* per sale, its CONSUMPTION rows: by ingredient and by batch
  sale,       \* per sale: none, sold or reversed
  rows,       \* per key, the movements that carry it
  count,      \* the counts: status and the stock seen at the start
  purchase,   \* the purchase orders: status and lines
  applied,    \* per count and purchase order, how often it was booked
  recipe,     \* what one unit of the product takes
  formula,    \* per dish, its recipe
  clock,
  req,        \* what each worker is in the middle of
  sent        \* requests sent so far

sheets == <<count, purchase, applied>>
books == <<taken, sale>>
menu == <<recipe, formula>>
vars == <<stock, batch, wasted, taken, sale, rows, count, purchase, applied,
          recipe, formula, clock, req, sent>>

Nothing == [need |-> [i \in Item |-> 0], from |-> [b \in Batch |-> 0]]
Idle == [pc |-> "idle"]
MaybeKey == Key \cup {NoKey}

\* A line of a count that nobody counted.
Uncounted == -1

Batches ==
  [dish : Dish, made : Nat, expires : Expires, key : MaybeKey, left : Int]
CountStatus == {"NONE", "OPEN", "COMPLETED", "CANCELLED"}
\* seen: systemQuantity of its lines, the snapshot.
Sheet == [status : CountStatus, lines : SUBSET Item, seen : [Item -> Int]]
PurchaseStatus == {"NONE", "DRAFT", "ORDERED", "RECEIVED", "CANCELLED"}

\* What a batch request asks for: createBatch()'s dto.
Plan == [dish : Dish, planned : Yield \ {0}, actual : Yield, expires : Expires,
         key : MaybeKey]

MoveRequest == [pc : {"move"}, item : Item, quantity : Int, key : MaybeKey]
SellRequest == [pc : {"sell"}, order : Order, need : Quantities,
                from : [Batch -> Nat]]
RecipeRequest == [pc : {"recipe"}, plan : Plan, attempt : 0 .. MaxAttempts - 1]
PrepareRequest == [pc : {"prepare"}, plan : Plan, uses : Quantities,
                   attempt : 0 .. MaxAttempts - 1]
WasteRequest == [pc : {"left", "waste"}, batch : Batch, quantity : Amount,
                 key : MaybeKey]
SubmitRequest == [pc : {"submit"}, count : Count,
                  counted : [Item -> Nat \cup {Uncounted}],
                  difference : [Item -> Int]]
TransitionRequest == [pc : {"transition"}, purchase : Purchase,
                      to : PurchaseStatus]

Request == {Idle} \cup MoveRequest \cup SellRequest \cup RecipeRequest
             \cup PrepareRequest \cup WasteRequest \cup SubmitRequest
             \cup TransitionRequest

TypeOK ==
  /\ stock \in [Item -> Int]
  /\ batch \in Seq(Batches) /\ Len(batch) <= MaxBatches
  /\ wasted \in [Batch -> Nat]
  /\ taken \in [Order -> [need : Quantities, from : [Batch -> Nat]]]
  /\ sale \in [Order -> {"none", "sold", "reversed"}]
  /\ rows \in [Key -> Nat]
  /\ count \in [Count -> Sheet]
  /\ purchase \in [Purchase -> [status : PurchaseStatus, lines : Quantities]]
  /\ applied \in [Count \cup Purchase -> Nat]
  /\ recipe \in Recipe
  /\ formula \in [Dish -> Formula]
  /\ clock \in 0 .. MaxTime
  /\ req \in [Worker -> Request]
  /\ sent \in 0 .. MaxRequests

Init ==
  /\ stock = Opening
  /\ batch = <<>>
  /\ wasted = [b \in Batch |-> 0]
  /\ taken = [o \in Order |-> Nothing]
  /\ sale = [o \in Order |-> "none"]
  /\ rows = [k \in Key |-> 0]
  /\ count = [c \in Count |-> [status |-> "NONE", lines |-> {},
                                  seen |-> [i \in Item |-> 0]]]
  /\ purchase = [p \in Purchase |->
                   [status |-> "NONE", lines |-> [i \in Item |-> 0]]]
  /\ applied = [x \in Count \cup Purchase |-> 0]
  /\ recipe \in Recipe
  /\ formula \in [Dish -> Formula]
  /\ clock = 0
  /\ req = [w \in Worker |-> Idle]
  /\ sent = 0

-----------------------------------------------------------------------------
(* Requests.                                                               *)

At(w, pc) == req[w].pc = pc

Arrive(w, op, r) ==
  /\ op \in Load
  /\ req[w] = Idle
  /\ sent < MaxRequests
  /\ req' = [req EXCEPT ![w] = r]
  /\ sent' = sent + 1

GoOn(w, r) == req' = [req EXCEPT ![w] = r] /\ UNCHANGED sent

\* The request is over; what it has not committed is rolled back.
Done(w) == GoOn(w, Idle)

NothingWritten ==
  UNCHANGED <<stock, batch, wasted, books, rows, sheets, menu, clock>>

\* Refused, answered with what another request did, timed out, or dead.
Abort(w) ==
  /\ req[w] # Idle
  /\ Done(w)
  /\ NothingWritten

\* A key is not unique.
MutantKeyTaken(k) == FALSE

\* findMovementByKey(), and the unique index it looks into.
KeyTaken(k) == k # NoKey /\ rows[k] > 0

WithKey(k) == IF k = NoKey THEN rows ELSE [rows EXCEPT ![k] = @ + 1]

-----------------------------------------------------------------------------
(* InventoryService: manual movements, recipes, sales.                     *)

\* recordMovement(), recordAdjustment(): the lookup of writeOnce().
Move(w, i, q, k) ==
  /\ ~KeyTaken(k)
  /\ Arrive(w, "move", [pc |-> "move", item |-> i, quantity |-> q, key |-> k])
  /\ NothingWritten

MoveWrite(w) ==
  /\ At(w, "move") /\ ~KeyTaken(req[w].key)
  /\ stock' = [stock EXCEPT ![req[w].item] = @ + req[w].quantity]
  /\ rows' = WithKey(req[w].key)
  /\ Done(w)
  /\ UNCHANGED <<batch, wasted, books, sheets, menu, clock>>

\* A concurrent request with the key won: its movement is the answer.
MoveLost(w) ==
  /\ At(w, "move") /\ KeyTaken(req[w].key)
  /\ Done(w)
  /\ NothingWritten

SetRecipe ==
  /\ recipe' \in Recipe \ {recipe}
  /\ UNCHANGED <<stock, batch, wasted, books, rows, sheets, formula, clock, req, sent>>

\* The batches not prepared yet give nothing.
DrawnNow(need) ==
  LET drawn == Drawn(batch, need, clock)
  IN [b \in Batch |-> IF b \in DOMAIN batch THEN drawn[b] ELSE 0]

\* depleteForOrder(): what the sale of n units takes, by ingredient, and from
\* which batches.
Sell(w, o, n) ==
  /\ sale[o] = "none"
  /\ \A v \in Worker : At(v, "sell") => req[v].order # o
  /\ LET need == [i \in Item |-> n * recipe[i]]
     IN Arrive(w, "sell", [pc |-> "sell", order |-> o, need |-> need,
                           from |-> DrawnNow(need)])
  /\ NothingWritten

\* The order's transaction commits.  A sale is never refused for lack of stock.
SellWrite(w) ==
  /\ At(w, "sell")
  /\ LET r == req[w]
     IN /\ stock' = [i \in Item |-> stock[i] - r.need[i]]
        /\ batch' = [b \in DOMAIN batch |->
                       [batch[b] EXCEPT !.left = @ - r.from[b]]]
        /\ taken' = [taken EXCEPT ![r.order] = [need |-> r.need, from |-> r.from]]
        /\ sale' = [sale EXCEPT ![r.order] = "sold"]
  /\ Done(w)
  /\ UNCHANGED <<wasted, rows, sheets, menu, clock>>

\* Returned by today's recipe, to no batch.
MutantReturned(o) == [need |-> recipe, from |-> [b \in Batch |-> 0]]

\* The order's own CONSUMPTION rows.
Returned(o) == taken[o]

\* restockForReversedOrder(), in the transaction that ends the order.  Orders
\* tells how often that transaction may happen; here it is once.
Reverse(w, o) ==
  /\ sale[o] = "sold"
  /\ Arrive(w, "reverse", Idle)
  /\ LET r == Returned(o)
     IN /\ stock' = [i \in Item |-> stock[i] + r.need[i]]
        /\ batch' = [b \in DOMAIN batch |->
                       [batch[b] EXCEPT !.left = @ + r.from[b]]]
  /\ sale' = [sale EXCEPT ![o] = "reversed"]
  /\ UNCHANGED <<wasted, taken, rows, sheets, menu, clock>>

-----------------------------------------------------------------------------
(* PrepService: batches.                                                   *)

\* setRecipe(): a dish needs neither itself nor a dish that needs it.
SetFormula(d) ==
  /\ \E f \in Formula \ {formula[d]} :
       /\ \E i \in Item : f.needs[i] > 0
       /\ \A e \in Dish : f.needs[e] > 0 => e # d /\ formula[e].needs[d] = 0
       /\ formula' = [formula EXCEPT ![d] = f]
  /\ UNCHANGED <<stock, batch, wasted, books, rows, sheets, recipe, clock, req, sent>>

\* findBatchByKey(), and the unique index it looks into.
BatchOfKey(k) == k # NoKey /\ \E b \in DOMAIN batch : batch[b].key = k

\* createBatch(): the lookup of the key.
Prepare(w, plan) ==
  /\ ~BatchOfKey(plan.key)
  /\ Arrive(w, "prepare", [pc |-> "recipe", plan |-> plan, attempt |-> 0])
  /\ NothingWritten

\* doCreateBatch(): the recipe, scaled, and the stock it is checked against.
PrepareRead(w) ==
  /\ At(w, "recipe")
  /\ LET p == req[w].plan
         f == formula[p.dish]
         uses == Scaled(f.needs, f.yield, p.planned)
     IN IF (\A i \in Item : f.needs[i] = 0) \/ Short(uses, stock) # {}
        THEN Done(w)
        ELSE GoOn(w, [pc |-> "prepare", plan |-> p, uses |-> uses,
                      attempt |-> req[w].attempt])
  /\ NothingWritten

\* The batch, what it takes (PREP_BATCH) and what it yields (PREP_OUTPUT).
PrepareWrite(w) ==
  /\ At(w, "prepare") /\ ~BatchOfKey(req[w].plan.key)
  /\ Len(batch) < MaxBatches
  /\ LET p == req[w].plan
     IN /\ batch' = Append(batch, [dish |-> p.dish, made |-> p.actual,
                                   expires |-> p.expires, key |-> p.key,
                                   left |-> p.actual])
        /\ stock' = [i \in Item |-> stock[i] - req[w].uses[i]
                                      + (IF i = p.dish THEN p.actual ELSE 0)]
  /\ Done(w)
  /\ UNCHANGED <<wasted, books, rows, sheets, menu, clock>>

\* The retry loop runs once too often.
MutantMore(attempt) == attempt <= MaxAttempts

More(attempt) == attempt < MaxAttempts

\* The insert fails on a unique index.  With the request's key taken, the batch
\* that has it is the answer; else its code is another batch's: try again.
PrepareLost(w) ==
  /\ At(w, "prepare")
  /\ LET r == req[w]
     IN \/ BatchOfKey(r.plan.key) /\ Done(w)
        \/ /\ ~BatchOfKey(r.plan.key) /\ Len(batch) > 0
           /\ IF More(r.attempt + 1)
              THEN GoOn(w, [pc |-> "recipe", plan |-> r.plan,
                            attempt |-> r.attempt + 1])
              ELSE Done(w)
  /\ NothingWritten

\* wasteBatch(): the lookup of the key.
Waste(w, b, q, k) ==
  /\ b \in DOMAIN batch
  /\ ~KeyTaken(k)
  /\ Arrive(w, "waste", [pc |-> "left", batch |-> b, quantity |-> q, key |-> k])
  /\ NothingWritten

\* Capped by the item's stock.
MutantWastable(b) == stock[batch[b].dish]

Wastable(b) == batch[b].left

WasteRead(w) ==
  /\ At(w, "left")
  /\ IF req[w].quantity > Wastable(req[w].batch) THEN Done(w)
     ELSE GoOn(w, [req[w] EXCEPT !.pc = "waste"])
  /\ NothingWritten

WasteWrite(w) ==
  /\ At(w, "waste") /\ ~KeyTaken(req[w].key)
  /\ LET r == req[w]
     IN /\ stock' = [stock EXCEPT ![batch[r.batch].dish] = @ - r.quantity]
        /\ batch' = [batch EXCEPT ![r.batch].left = @ - r.quantity]
        /\ wasted' = [wasted EXCEPT ![r.batch] = @ + r.quantity]
        /\ rows' = WithKey(r.key)
  /\ Done(w)
  /\ UNCHANGED <<books, sheets, menu, clock>>

WasteLost(w) ==
  /\ At(w, "waste") /\ KeyTaken(req[w].key)
  /\ Done(w)
  /\ NothingWritten

-----------------------------------------------------------------------------
(* StockCountService and ProcurementService.                               *)

\* Nobody waits for a lock.
MutantHeld(x) == FALSE

\* A request has the row of the count or purchase order locked FOR UPDATE.
Held(x) ==
  \E w \in Worker : \/ At(w, "submit") /\ req[w].count = x
                    \/ At(w, "transition") /\ req[w].purchase = x

\* start(): a snapshot of the chosen items.
StartCount(c, S) ==
  /\ "count" \in Load
  /\ count[c].status = "NONE"
  /\ count' = [count EXCEPT ![c] =
       [status |-> "OPEN", lines |-> S,
        seen |-> [i \in Item |-> IF i \in S THEN stock[i] ELSE 0]]]
  /\ UNCHANGED <<stock, batch, wasted, books, rows, purchase, applied, menu,
                 clock, req, sent>>

Counted(counted) == {i \in Item : counted[i] # Uncounted}

\* submit(): under the lock, the status and the live stock.
Submit(w, c, counted) ==
  /\ count[c].status = "OPEN" /\ ~Held(c)
  /\ Counted(counted) # {} /\ Counted(counted) \subseteq count[c].lines
  /\ Arrive(w, "count", [pc |-> "submit", count |-> c, counted |-> counted,
       difference |-> [i \in Item |-> IF i \in Counted(counted)
                         THEN Difference(counted[i], count[c].seen[i], stock[i])
                         ELSE 0]])
  /\ NothingWritten

\* The corrections and the end of the count.
SubmitWrite(w) ==
  /\ At(w, "submit")
  /\ LET r == req[w]
     IN /\ stock' = [i \in Item |-> stock[i] + r.difference[i]]
        /\ count' = [count EXCEPT ![r.count].status = "COMPLETED"]
        /\ applied' = [applied EXCEPT ![r.count] = @ + 1]
  /\ Done(w)
  /\ UNCHANGED <<batch, wasted, books, rows, purchase, menu, clock>>

CancelCount(c) ==
  /\ count[c].status = "OPEN" /\ ~Held(c)
  /\ count' = [count EXCEPT ![c].status = "CANCELLED"]
  /\ UNCHANGED <<stock, batch, wasted, books, rows, purchase, applied, menu,
                 clock, req, sent>>

Draft(p, lines) ==
  /\ "order" \in Load
  /\ purchase[p].status = "NONE"
  /\ \E i \in Item : lines[i] > 0
  /\ purchase' = [purchase EXCEPT ![p] = [status |-> "DRAFT", lines |-> lines]]
  /\ UNCHANGED <<stock, batch, wasted, books, rows, count, applied, menu,
                 clock, req, sent>>

Transitions == [NONE |-> {}, DRAFT |-> {"ORDERED", "CANCELLED"},
                ORDERED |-> {"RECEIVED", "CANCELLED"}, RECEIVED |-> {},
                CANCELLED |-> {}]

\* transition(): under the lock, the status.
Transition(w, p, to) ==
  /\ ~Held(p)
  /\ to \in Transitions[purchase[p].status]
  /\ Arrive(w, "order", [pc |-> "transition", purchase |-> p, to |-> to])
  /\ NothingWritten

\* What is received enters the ledger with the status.
TransitionWrite(w) ==
  /\ At(w, "transition")
  /\ LET p == req[w].purchase
         received == req[w].to = "RECEIVED"
     IN /\ stock' = IF received
                    THEN [i \in Item |-> stock[i] + purchase[p].lines[i]] ELSE stock
        /\ applied' = IF received THEN [applied EXCEPT ![p] = @ + 1] ELSE applied
        /\ purchase' = [purchase EXCEPT ![p].status = req[w].to]
  /\ Done(w)
  /\ UNCHANGED <<batch, wasted, books, rows, count, menu, clock>>

-----------------------------------------------------------------------------

Tick ==
  /\ clock < MaxTime
  /\ clock' = clock + 1
  /\ UNCHANGED <<stock, batch, wasted, books, rows, sheets, menu, req, sent>>

Arrivals(w) ==
  \/ \E i \in Item, a \in Amount, k \in MaybeKey : Move(w, i, a, k) \/ Move(w, i, -a, k)
  \/ \E o \in Order, n \in Amount : Sell(w, o, n)
  \/ \E o \in Order : Reverse(w, o)
  \/ \E plan \in Plan : Prepare(w, plan)
  \/ \E b \in Batch, a \in Amount, k \in MaybeKey : Waste(w, b, a, k)
  \/ \E c \in Count, counted \in Tally : Submit(w, c, counted)
  \/ \E p \in Purchase, to \in PurchaseStatus : Transition(w, p, to)

Steps(w) ==
  \/ MoveWrite(w) \/ MoveLost(w) \/ SellWrite(w)
  \/ PrepareRead(w) \/ PrepareWrite(w) \/ PrepareLost(w)
  \/ WasteRead(w) \/ WasteWrite(w) \/ WasteLost(w)
  \/ SubmitWrite(w) \/ TransitionWrite(w)

Next ==
  \/ \E w \in Worker : Arrivals(w) \/ Steps(w) \/ Abort(w)
  \/ \E c \in Count : CancelCount(c) \/ \E S \in (SUBSET Item) \ {{}} : StartCount(c, S)
  \/ \E p \in Purchase, lines \in Lines : Draft(p, lines)
  \/ SetRecipe \/ (\E d \in Dish : SetFormula(d))
  \/ Tick

Spec == Init /\ [][Next]_vars

-----------------------------------------------------------------------------
(* Properties.  Whatever the requests in flight:                           *)

DrawnFrom(b) ==
  MapThenSumSet(LAMBDA o : taken[o].from[b],
                {o \in Order : sale[o] = "sold"})

\* What is left of a batch is what it yielded, less its waste and what the
\* sales that stand took from it: a reversed sale gives back what it took to
\* the batch it took it from, whatever the recipe is by then
\* (restockForReversedOrder).
BatchAddsUp ==
  \A b \in DOMAIN batch :
    batch[b].left = batch[b].made - wasted[b] - DrawnFrom(b)

\* A retried movement or batch is recorded once, even if the retry overlaps
\* the first try (writeOnce, createBatch, wasteBatch).
KeysWriteOnce ==
  /\ \A k \in Key : rows[k] <= 1
  /\ \A a, b \in DOMAIN batch :
       batch[a].key = batch[b].key /\ batch[a].key # NoKey => a = b

\* A count is booked once, if and only if it is completed, and a purchase
\* order if and only if it is received: no double submit, no double receive,
\* none of a cancelled one (submit, cancel, transition).
BookedOnce ==
  /\ \A c \in Count :
       applied[c] = IF count[c].status = "COMPLETED" THEN 1 ELSE 0
  /\ \A p \in Purchase :
       applied[p] = IF purchase[p].status = "RECEIVED" THEN 1 ELSE 0

\* allocateFefo(), against what it promises: a sale draws no expired batch and
\* no empty one, none while one that expires sooner could give, and leaves no
\* batch undrawn that could give what it needs.
DrawsTheSoonest(r) ==
  \A d \in Dish :
    LET mine == {b \in DOMAIN batch : batch[b].dish = d}
        live == {b \in mine : batch[b].left > 0 /\ batch[b].expires > clock}
        drawn == MapThenSumSet(LAMBDA b : r.from[b], mine)
    IN /\ \A b \in mine \ live : r.from[b] = 0
       /\ \A a, b \in live :
            batch[a].expires < batch[b].expires /\ r.from[b] > 0
              => r.from[a] = batch[a].left
       /\ drawn <= r.need[d]
       /\ drawn < r.need[d] => \A b \in live : r.from[b] = batch[b].left

SalesDrawTheSoonest ==
  [][\A w \in Worker :
       req'[w].pc = "sell" /\ req[w] = Idle => DrawsTheSoonest(req'[w])]_vars

(* One request at a time:                                                  *)

\* Nobody takes more from a batch than it has, nor gives back more than was
\* taken: "you cannot waste more than remains" (wasteBatch).
BatchWithinYield == \A b \in DOMAIN batch : batch[b].left \in 0 .. batch[b].made

\* A batch takes no stock that is not there: "refuses if any raw component is
\* short" (createBatch).
BatchesTakeWhatIsThere ==
  [][Len(batch') > Len(batch) =>
       \A i \in Item : stock'[i] < stock[i] => stock'[i] >= 0]_vars

\* A submitted count makes the stock what was counted, whatever was sold or
\* received since it started (reconcileCount).
SubmitSetsStock ==
  [][\A w \in Worker :
       At(w, "submit") /\ applied' # applied =>
         \A i \in Counted(req[w].counted) : stock'[i] = req[w].counted[i]]_vars

=============================================================================
