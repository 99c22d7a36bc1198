------------------------------- MODULE Orders -------------------------------
(***************************************************************************)
(* The order desk: OrdersService with the two services it calls in a sale, *)
(* InventoryService (depletion and restock) and LoyaltyService (the ledger *)
(* rows tied to an order).  One tenant.                                    *)
(*                                                                         *)
(* Every handler is a request held by one worker of the API.  PostgreSQL   *)
(* runs its transactions at READ COMMITTED, so a handler is cut at every   *)
(* read whose answer it still relies on later: what it read may be stale   *)
(* by the time it writes.  Writes become visible together, at the commit,  *)
(* which is one step.  A status UPDATE holds the order's row lock from the *)
(* UPDATE to the commit, so everything after it is part of that step.      *)
(* A request that is refused changes nothing: it is no step, or the step   *)
(* that frees its worker.                                                  *)
(*                                                                         *)
(* A definition whose name begins with Mutant stands for a plausible bug   *)
(* in the definition below it.  No action uses it: a run with the bug put  *)
(* in must find the property the bug breaks.                               *)
(***************************************************************************)
EXTENDS Integers, Sequences

CONSTANTS
  Order,         \* identities of orders that may be created
  Worker,        \* requests the API can have in flight at once
  Key,           \* idempotency keys the tills send
  NoKey,         \* "no idempotency key"
  NoOrder,       \* "no order"
  Draft,         \* the orders tills ask create() for
  Tender,        \* amounts a till may record as paid or refunded
  Load,          \* the operations the clients of this instance send
  MaxRequests,   \* bound on the requests ever sent
  MaxAttempts    \* create() tries this often to allocate a number (5)

Operation == {"create", "status", "pay", "refund", "earn", "reverse"}

MaybeKey == Key \cup {NoKey}

\* How many units a sale takes from the shelf, sold singly and in combos.
Basket == [products : Nat, combos : Nat]

\* What a till may ask for.  member: the sale names a customer; total: what
\* the server prices it at, in paise.
DraftType == [hold : BOOLEAN, paid : BOOLEAN, redeem : BOOLEAN,
              member : BOOLEAN, total : Nat, basket : Basket, key : MaybeKey]

ASSUME OrdersAssumption ==
  /\ NoKey \notin Key
  /\ NoOrder \notin Order
  /\ Draft \subseteq DraftType
  /\ Tender \subseteq Nat \ {0}
  /\ Load \subseteq Operation
  /\ MaxRequests \in Nat
  /\ MaxAttempts \in Nat \ {0}

VARIABLES
  orders,     \* the orders table
  captured,   \* per order, the sum of its CAPTURED payments
  refunded,   \* per order, the sum of its refunds
  payKey,     \* payments' unique index: the order a key's payment is for
  refundKey,  \* refunds' unique index
  used,       \* per order, the stock its CONSUMPTION rows took
  returned,   \* per order, the stock its ADJUSTMENT rows gave back
  points,     \* per order, the types of its loyalty ledger rows
  trail,      \* per order, its CREATED and STATUS_CHANGED events
  req,        \* what each worker is in the middle of
  sent,       \* requests sent so far
  answered    \* per key, the orders create() ever answered it with

vars == <<orders, captured, refunded, payKey, refundKey, used, returned,
          points, trail, req, sent, answered>>

money == <<captured, refunded, payKey, refundKey>>
stock == <<used, returned>>

-----------------------------------------------------------------------------
(* The order lifecycle: order-status.ts.                                   *)

Status == {"DRAFT", "PLACED", "PREPARING", "READY",
           "COMPLETED", "CANCELLED", "VOIDED"}

Transitions ==
  [DRAFT     |-> {"PLACED", "CANCELLED"},
   PLACED    |-> {"PREPARING", "COMPLETED", "CANCELLED", "VOIDED"},
   PREPARING |-> {"READY", "CANCELLED", "VOIDED"},
   READY     |-> {"COMPLETED", "CANCELLED", "VOIDED"},
   COMPLETED |-> {},
   CANCELLED |-> {},
   VOIDED    |-> {}]

CanTransition(from, to) == to \in Transitions[from]

Reversing == {"VOIDED", "CANCELLED"}

Finished == {"COMPLETED", "VOIDED", "CANCELLED"}

-----------------------------------------------------------------------------
(* Rows and requests.                                                      *)

\* The columns of an order the properties tell apart.  Not yet inserted:
\* status ABSENT, number 0.
Row == [status : Status \cup {"ABSENT"}, total : Nat, key : MaybeKey,
        basket : Basket, number : Nat,
        member : BOOLEAN]

NoRow == [status |-> "ABSENT", total |-> 0, key |-> NoKey,
          basket |-> [products |-> 0, combos |-> 0], number |-> 0,
          member |-> FALSE]

CreateRequest == [pc : {"number", "insert", "lookup"}, draft : Draft,
                  number : Nat, attempt : 0 .. MaxAttempts]
StatusRequest == [pc : {"update"}, order : Order, from : Status, to : Status]
TenderRequest == [pc : {"paySum", "payInsert", "refundSum", "refundInsert"},
                  order : Order, key : MaybeKey, amount : Tender, left : Int]
PointsRequest == [pc : {"earnRead", "earnWrite", "reverse", "restore"},
                  order : Order]

Idle == [pc |-> "idle"]

Request == {Idle} \cup CreateRequest \cup StatusRequest \cup TenderRequest
             \cup PointsRequest

\* An order_events row that is about the status, and the rows of one order.
Event == [from : Status \cup {"ABSENT"}, to : Status]
Timeline == Seq(Event)

EntryType == {"EARN", "REFUND_REVERSAL", "REDEEM", "REDEEM_REVERSAL"}

TypeOK ==
  /\ orders \in [Order -> Row]
  /\ captured \in [Order -> Nat]
  /\ refunded \in [Order -> Nat]
  /\ payKey \in [Key -> Order \cup {NoOrder}]
  /\ refundKey \in [Key -> Order \cup {NoOrder}]
  /\ used \in [Order -> Nat]
  /\ returned \in [Order -> Nat]
  /\ points \in [Order -> SUBSET EntryType]
  /\ trail \in [Order -> Timeline]
  /\ req \in [Worker -> Request]
  /\ sent \in 0 .. MaxRequests
  /\ answered \in [Key -> SUBSET Order]

Exists(o) == orders[o].status # "ABSENT"

HasKey(o, k) == k # NoKey /\ Exists(o) /\ orders[o].key = k

NumberTaken(n) == \E o \in Order : Exists(o) /\ orders[o].number = n

Init ==
  /\ orders = [o \in Order |-> NoRow]
  /\ captured = [o \in Order |-> 0]
  /\ refunded = [o \in Order |-> 0]
  /\ payKey = [k \in Key |-> NoOrder]
  /\ refundKey = [k \in Key |-> NoOrder]
  /\ used = [o \in Order |-> 0]
  /\ returned = [o \in Order |-> 0]
  /\ points = [o \in Order |-> {}]
  /\ trail = [o \in Order |-> <<>>]
  /\ req = [w \in Worker |-> Idle]
  /\ sent = 0
  /\ answered = [k \in Key |-> {}]

-----------------------------------------------------------------------------
(* A worker takes a request, moves on within it, or is done with it.       *)

Take(w, op, r) ==
  /\ op \in Load
  /\ req[w] = Idle
  /\ sent < MaxRequests
  /\ sent' = sent + 1
  /\ req' = [req EXCEPT ![w] = r]

At(w, pc) == req[w].pc = pc

GoTo(w, r) == req' = [req EXCEPT ![w] = r] /\ UNCHANGED sent

Answer(k, os) ==
  answered' = IF k = NoKey THEN answered
                           ELSE [answered EXCEPT ![k] = @ \cup os]

-----------------------------------------------------------------------------
(* create(): POST /orders.                                                 *)

\* The till's request is well formed, and its key has no order yet.
CreateArrive(w, d) ==
  /\ ~(d.hold /\ d.paid)
  /\ d.redeem => d.member /\ ~d.hold
  /\ ~\E o \in Order : HasKey(o, d.key)
  /\ Take(w, "create", [pc |-> "number", draft |-> d, number |-> 0,
                        attempt |-> 0])
  /\ UNCHANGED <<orders, money, stock, points, trail, answered>>

\* The key names an order already: a replay is answered with it.
CreateReplay(o, k) ==
  /\ "create" \in Load /\ sent < MaxRequests
  /\ HasKey(o, k)
  /\ sent' = sent + 1
  /\ Answer(k, {o})
  /\ UNCHANGED <<orders, money, stock, points, trail, req>>

\* Each attempt skips one number more.
MutantCreateNumber(w) ==
  /\ At(w, "number")
  /\ \E last \in {0} \cup {orders[o].number : o \in Order} :
       /\ \A o \in Order : orders[o].number <= last
       /\ GoTo(w, [req[w] EXCEPT !.pc = "insert",
                                !.number = last + 1 + req[w].attempt])
  /\ UNCHANGED <<orders, money, stock, points, trail, answered>>

\* insert() reads the tenant's highest number: the next one is the order's.
CreateNumber(w) ==
  /\ At(w, "number")
  /\ \E last \in {0} \cup {orders[o].number : o \in Order} :
       /\ \A o \in Order : orders[o].number <= last
       /\ GoTo(w, [req[w] EXCEPT !.pc = "insert", !.number = last + 1])
  /\ UNCHANGED <<orders, money, stock, points, trail, answered>>

\* The index over keys is not unique.
MutantKeyTaken(d) == FALSE

KeyTaken(d) == \E o \in Order : HasKey(o, d.key)

PaymentKeyTaken(d) == d.paid /\ d.key # NoKey /\ payKey[d.key] # NoOrder

Units(basket) == basket.products + basket.combos

Opening(d) == IF d.hold THEN "DRAFT" ELSE "PLACED"

\* A DRAFT depletes nothing.  Combos are expanded into products.
Depletion(d) == IF d.hold THEN 0 ELSE Units(d.basket)

\* The transaction commits: the order with its payment, its redemption, its
\* depletion and its CREATED event.
CreateInsert(w) ==
  /\ At(w, "insert")
  /\ LET d == req[w].draft
     IN /\ ~NumberTaken(req[w].number) /\ ~KeyTaken(d) /\ ~PaymentKeyTaken(d)
        /\ d.paid => d.total > 0          \* CHECK amount_minor > 0
        /\ \E o \in Order :
             /\ ~Exists(o)
             /\ orders' = [orders EXCEPT ![o] =
                  [status |-> Opening(d), total |-> d.total, key |-> d.key,
                   basket |-> d.basket, number |-> req[w].number,
                   member |-> d.member]]
             /\ captured' = [captured EXCEPT ![o] =
                                IF d.paid THEN d.total ELSE 0]
             /\ payKey' = IF d.paid /\ d.key # NoKey
                            THEN [payKey EXCEPT ![d.key] = o] ELSE payKey
             /\ used' = [used EXCEPT ![o] = Depletion(d)]
             /\ points' = [points EXCEPT ![o] =
                              IF d.redeem THEN {"REDEEM"} ELSE {}]
             /\ trail' = [trail EXCEPT ![o] =
                             <<[from |-> "ABSENT", to |-> Opening(d)]>>]
             /\ Answer(d.key, {o})
             /\ GoTo(w, IF d.member /\ d.paid
                          THEN [pc |-> "earnRead", order |-> o] ELSE Idle)
  /\ UNCHANGED <<refunded, refundKey, returned>>

\* The number went to a concurrent order: roll back and try again, or give up.
CreateRetry(w) ==
  /\ At(w, "insert")
  /\ NumberTaken(req[w].number)
  /\ GoTo(w, IF req[w].attempt + 1 < MaxAttempts
               THEN [req[w] EXCEPT !.pc = "number", !.attempt = @ + 1]
               ELSE Idle)
  /\ UNCHANGED <<orders, money, stock, points, trail, answered>>

\* The key went to a concurrent request: roll back and look for the winner.
CreateKeyLost(w) ==
  /\ At(w, "insert")
  /\ LET d == req[w].draft
     IN \/ KeyTaken(d)
        \/ ~NumberTaken(req[w].number) /\ PaymentKeyTaken(d)
  /\ GoTo(w, [req[w] EXCEPT !.pc = "lookup"])
  /\ UNCHANGED <<orders, money, stock, points, trail, answered>>

\* The winner's order is the answer; when the key was only a payment's there
\* is none, and the violation is thrown.
CreateLookup(w) ==
  /\ At(w, "lookup")
  /\ LET k == req[w].draft.key
     IN Answer(k, {o \in Order : HasKey(o, k)})
  /\ GoTo(w, Idle)
  /\ UNCHANGED <<orders, money, stock, points, trail>>

-----------------------------------------------------------------------------
(* updateStatus(): PATCH /orders/:id/status.                               *)

StatusRead(w, o, to) ==
  /\ Exists(o)
  /\ orders[o].status # to
  /\ CanTransition(orders[o].status, to)
  /\ Take(w, "status", [pc |-> "update", order |-> o,
                        from |-> orders[o].status, to |-> to])
  /\ UNCHANGED <<orders, money, stock, points, trail, answered>>

\* The UPDATE asks for the status it read, and nobody looks whether it matched.
MutantMoved(o, from, to) ==
  IF orders[o].status = from THEN [orders EXCEPT ![o].status = to] ELSE orders

\* The UPDATE names the row only: whatever the status is by now, it becomes
\* "to".
Moved(o, from, to) == [orders EXCEPT ![o].status = to]

\* The sum of the order's CONSUMPTION rows, when it is reversed.
Restock(o, to) == IF to \in Reversing THEN used[o] ELSE 0

\* Resuming a held order depletes its product lines, and no combo's.
StatusWrite(w) ==
  /\ At(w, "update")
  /\ LET o == req[w].order
         from == req[w].from
         to == req[w].to
     IN /\ orders' = Moved(o, from, to)
        /\ used' = IF from = "DRAFT" /\ to = "PLACED"
                     THEN [used EXCEPT ![o] = @ + orders[o].basket.products]
                     ELSE used
        /\ returned' = [returned EXCEPT ![o] = @ + Restock(o, to)]
        /\ trail' = [trail EXCEPT ![o] =
                        Append(@, [from |-> from, to |-> to])]
  /\ GoTo(w, Idle)
  /\ UNCHANGED <<money, points, answered>>

-----------------------------------------------------------------------------
(* recordPayment(): POST /orders/:id/payments.                             *)

Used(index, k) == k # NoKey /\ index[k] # NoOrder

\* A reversed sale still takes money.
MutantPayRead(w, o, k, a) ==
  /\ Exists(o)
  /\ ~Used(payKey, k)
  /\ Take(w, "pay", [pc |-> "paySum", order |-> o, key |-> k, amount |-> a,
                     left |-> 0])
  /\ UNCHANGED <<orders, money, stock, points, trail, answered>>

\* A key that was used is a replay, which changes nothing.
PayRead(w, o, k, a) ==
  /\ Exists(o)
  /\ ~Used(payKey, k)
  /\ orders[o].status \notin Reversing
  /\ Take(w, "pay", [pc |-> "paySum", order |-> o, key |-> k, amount |-> a,
                     left |-> 0])
  /\ UNCHANGED <<orders, money, stock, points, trail, answered>>

Outstanding(o) == orders[o].total - captured[o]

\* Reads what is outstanding, and refuses to exceed it.
PaySum(w) ==
  /\ At(w, "paySum")
  /\ LET left == Outstanding(req[w].order)
     IN GoTo(w, IF req[w].amount <= left
                THEN [req[w] EXCEPT !.pc = "payInsert", !.left = left]
                ELSE Idle)
  /\ UNCHANGED <<orders, money, stock, points, trail, answered>>

\* Every leg counts as the last one.
MutantSettles(r) == orders[r.order].member

\* The leg clears exactly what it read as outstanding, and there is a customer.
Settles(r) == orders[r.order].member /\ r.amount = r.left

\* A leg that settles the order goes on to earn its points.
PayInsert(w) ==
  /\ At(w, "payInsert")
  /\ ~Used(payKey, req[w].key)
  /\ LET r == req[w]
     IN /\ captured' = [captured EXCEPT ![r.order] = @ + r.amount]
        /\ payKey' = IF r.key = NoKey THEN payKey
                      ELSE [payKey EXCEPT ![r.key] = r.order]
        /\ GoTo(w, IF Settles(r)
                   THEN [pc |-> "earnRead", order |-> r.order] ELSE Idle)
  /\ UNCHANGED <<orders, refunded, refundKey, stock, points, trail, answered>>

-----------------------------------------------------------------------------
(* recordRefund(): POST /orders/:id/refunds.                               *)

\* Whatever was placed can be refunded.
MutantRefundRead(w, o, k, a) ==
  /\ Exists(o)
  /\ ~Used(refundKey, k)
  /\ orders[o].status # "DRAFT"
  /\ Take(w, "refund", [pc |-> "refundSum", order |-> o, key |-> k,
                        amount |-> a, left |-> 0])
  /\ UNCHANGED <<orders, money, stock, points, trail, answered>>

RefundRead(w, o, k, a) ==
  /\ Exists(o)
  /\ ~Used(refundKey, k)
  /\ orders[o].status \in Finished
  /\ Take(w, "refund", [pc |-> "refundSum", order |-> o, key |-> k,
                        amount |-> a, left |-> 0])
  /\ UNCHANGED <<orders, money, stock, points, trail, answered>>

Refundable(o) == captured[o] - refunded[o]

RefundSum(w) ==
  /\ At(w, "refundSum")
  /\ LET left == Refundable(req[w].order)
     IN GoTo(w, IF req[w].amount <= left
                THEN [req[w] EXCEPT !.pc = "refundInsert", !.left = left]
                ELSE Idle)
  /\ UNCHANGED <<orders, money, stock, points, trail, answered>>

\* A refund is stored as a negative amount.
MutantRefundInsert(w) ==
  /\ At(w, "refundInsert")
  /\ ~Used(refundKey, req[w].key)
  /\ refunded' = [refunded EXCEPT ![req[w].order] = @ - req[w].amount]
  /\ GoTo(w, [pc |-> "reverse", order |-> req[w].order])
  /\ UNCHANGED <<orders, captured, payKey, refundKey, stock, points, trail,
                 answered>>

\* Any refund reverses the points of the sale, after it has committed.
RefundInsert(w) ==
  /\ At(w, "refundInsert")
  /\ ~Used(refundKey, req[w].key)
  /\ LET r == req[w]
     IN /\ refunded' = [refunded EXCEPT ![r.order] = @ + r.amount]
        /\ refundKey' = IF r.key = NoKey THEN refundKey
                         ELSE [refundKey EXCEPT ![r.key] = r.order]
        /\ GoTo(w, [pc |-> "reverse", order |-> r.order])
  /\ UNCHANGED <<orders, captured, payKey, stock, points, trail, answered>>

\* A concurrent leg with the same key got there first: its result is ours.
TenderKeyLost(w) ==
  /\ \/ At(w, "payInsert") /\ Used(payKey, req[w].key)
     \/ At(w, "refundInsert") /\ Used(refundKey, req[w].key)
  /\ GoTo(w, Idle)
  /\ UNCHANGED <<orders, money, stock, points, trail, answered>>

-----------------------------------------------------------------------------
(* The loyalty rows of an order: earnForOrder(), reverseForOrder() and     *)
(* restoreRedeemedForOrder(), called after a commit or by their endpoints. *)
(* Loyalty is on and every order is worth a point.                         *)

EarnArrive(w, o) ==
  /\ Exists(o)
  /\ Take(w, "earn", [pc |-> "earnRead", order |-> o])
  /\ UNCHANGED <<orders, money, stock, points, trail, answered>>

\* Whoever belongs to a customer earns.
MutantEarnRead(w) ==
  /\ At(w, "earnRead")
  /\ LET o == req[w].order
     IN GoTo(w, IF orders[o].member
                THEN [pc |-> "earnWrite", order |-> o] ELSE Idle)
  /\ UNCHANGED <<orders, money, stock, points, trail, answered>>

\* A transaction of its own reads the order: a reversed sale earns nothing.
EarnRead(w) ==
  /\ At(w, "earnRead")
  /\ LET o == req[w].order
     IN GoTo(w, IF orders[o].member /\ orders[o].status \notin Reversing
                THEN [pc |-> "earnWrite", order |-> o] ELSE Idle)
  /\ UNCHANGED <<orders, money, stock, points, trail, answered>>

EarnWrite(w) ==
  /\ At(w, "earnWrite")
  /\ points' = [points EXCEPT ![req[w].order] = @ \cup {"EARN"}]
  /\ GoTo(w, Idle)
  /\ UNCHANGED <<orders, money, stock, trail, answered>>

Reversal(o) == IF "EARN" \in points[o] THEN {"REFUND_REVERSAL"} ELSE {}

\* Points come back whether the sale had spent any or not.
MutantRestoration(o) == {"REDEEM_REVERSAL"}

Restoration(o) == IF "REDEEM" \in points[o] THEN {"REDEEM_REVERSAL"} ELSE {}

\* Nothing earned is no failure, and a failure does not stop the restore.
Reverse(w) ==
  /\ At(w, "reverse")
  /\ LET o == req[w].order
     IN /\ \/ points' = [points EXCEPT ![o] = @ \cup Reversal(o)]
           \/ UNCHANGED points
        /\ GoTo(w, [pc |-> "restore", order |-> o])
  /\ UNCHANGED <<orders, money, stock, trail, answered>>

Restore(w) ==
  /\ At(w, "restore")
  /\ LET o == req[w].order
     IN points' = [points EXCEPT ![o] = @ \cup Restoration(o)]
  /\ GoTo(w, Idle)
  /\ UNCHANGED <<orders, money, stock, trail, answered>>

\* POST /orders/:id/loyalty/reverse, the recovery endpoint.
ReverseArrive(o) ==
  /\ "reverse" \in Load /\ sent < MaxRequests
  /\ "EARN" \in points[o]
  /\ sent' = sent + 1
  /\ points' = [points EXCEPT ![o] = @ \cup Reversal(o)]
  /\ UNCHANGED <<orders, money, stock, trail, req, answered>>

-----------------------------------------------------------------------------

\* A request dies where it stands: refused by a check that reads other tables
\* (menu, coupon, points balance), a lost connection, a crashed process.  The
\* open transaction is rolled back; what was committed stays.
Abort(w) ==
  /\ req[w] # Idle
  /\ GoTo(w, Idle)
  /\ UNCHANGED <<orders, money, stock, points, trail, answered>>

Create(w) ==
  \/ \E d \in Draft : CreateArrive(w, d)
  \/ CreateNumber(w) \/ CreateInsert(w) \/ CreateRetry(w)
  \/ CreateKeyLost(w) \/ CreateLookup(w)

UpdateStatus(w) ==
  \/ \E o \in Order, to \in Status : StatusRead(w, o, to)
  \/ StatusWrite(w)

RecordPayment(w) ==
  \/ \E o \in Order, k \in MaybeKey, a \in Tender : PayRead(w, o, k, a)
  \/ PaySum(w) \/ PayInsert(w)

RecordRefund(w) ==
  \/ \E o \in Order, k \in MaybeKey, a \in Tender : RefundRead(w, o, k, a)
  \/ RefundSum(w) \/ RefundInsert(w)

Loyalty(w) ==
  \/ \E o \in Order : EarnArrive(w, o)
  \/ EarnRead(w) \/ EarnWrite(w) \/ Reverse(w) \/ Restore(w)

Next ==
  \/ \E o \in Order, k \in Key : CreateReplay(o, k)
  \/ \E o \in Order : ReverseArrive(o)
  \/ \E w \in Worker :
       \/ Create(w) \/ UpdateStatus(w) \/ RecordPayment(w) \/ RecordRefund(w)
       \/ TenderKeyLost(w) \/ Loyalty(w) \/ Abort(w)

Spec == Init /\ [][Next]_vars

-----------------------------------------------------------------------------
(* What holds whatever the workers do at the same time.                    *)

\* One idempotency key is one order: however often create() is retried with a
\* key, in sequence or at once, one order carries it and every answer is that
\* order (create, findByIdempotencyKey).
KeyNamesOneOrder ==
  \A k \in Key :
    /\ \A o1, o2 \in Order : HasKey(o1, k) /\ HasKey(o2, k) => o1 = o2
    /\ \A o \in answered[k] : HasKey(o, k)

\* Order numbers are 1, 2, 3, ... without a gap or a repeat, although two
\* transactions may read the same highest number (insert and its retry).
NumbersRunOn ==
  /\ \A o1, o2 \in Order :
       Exists(o1) /\ Exists(o2) /\ orders[o1].number = orders[o2].number
         => o1 = o2
  /\ \A o \in Order :
       Exists(o) => /\ orders[o].number > 0
                    /\ orders[o].number > 1 => NumberTaken(orders[o].number - 1)

\* The timeline and the order agree: the last status event of an order names
\* the status its row has (insert, updateStatus).
TrailTellsStatus ==
  \A o \in Order :
    Exists(o) => /\ trail[o] # <<>>
                 /\ trail[o][Len(trail[o])].to = orders[o].status

\* Money is handed back only on a sale that had come to an end, whatever has
\* overwritten its status since the refund's check (recordRefund).
RefundsFollowAnEnding ==
  \A o \in Order :
    refunded[o] > 0 => \E i \in 1 .. Len(trail[o]) : trail[o][i].to \in Finished

\* Unless a manager credits them by hand, points are earned only by a sale of
\* a named customer that was paid at least in full (recordPayment's settled).
PointsAreForPaidSales ==
  "earn" \notin Load =>
    \A o \in Order :
      "EARN" \in points[o] => orders[o].member /\ captured[o] >= orders[o].total

\* Points spent come back only with a refund, and only if they were spent; a
\* reversal of earned points has something to reverse.
ReversalsHaveACause ==
  \A o \in Order :
    /\ "REFUND_REVERSAL" \in points[o] => "EARN" \in points[o]
    /\ "REDEEM_REVERSAL" \in points[o] =>
         "REDEEM" \in points[o] /\ refunded[o] > 0

-----------------------------------------------------------------------------
(* What holds as long as requests do not overlap (Worker has one element), *)
(* and the documentation says of any number of tills.                      *)

\* A refund is capped at what was captured and not refunded yet.
RefundedWithinCaptured == \A o \in Order : refunded[o] <= captured[o]

\* "A reversed sale earns nothing" (earnForOrder).
ReversedSaleEarnsNothing ==
  [][\A o \in Order :
       orders[o].status \in Reversing /\ "EARN" \in points'[o]
         => "EARN" \in points[o]]_vars

\* The order desk implements Sale.
S == INSTANCE Sale WITH
       status <- [o \in Order |-> orders[o].status],
       story <- trail,
       total <- [o \in Order |-> orders[o].total],
       taken <- captured, given <- refunded,
       demand <- [o \in Order |-> orders[o].basket.products + orders[o].basket.combos],
       consumed <- used, restored <- returned

ImplementsSale == S!SaleSpec

-----------------------------------------------------------------------------
(* What a comment says and the code does not do, even one request at a time. *)

\* Resuming a held order depletes "exactly what creation does for a non-held
\* order": a live sale has taken its whole basket.
LiveSaleIsDepleted ==
  \A o \in Order :
    orders[o].status \in {"PLACED", "PREPARING", "READY", "COMPLETED"}
      => used[o] = Units(orders[o].basket)

-----------------------------------------------------------------------------
(* Strengthenings: what makes the invariants above inductive.              *)

\* An order that is not inserted yet has no rows in any other table.
AbsentIsBlank ==
  \A o \in Order :
    ~Exists(o) => /\ orders[o].number = 0 /\ trail[o] = <<>>
                  /\ points[o] = {}
                  /\ captured[o] = 0 /\ refunded[o] = 0
                  /\ used[o] = 0 /\ returned[o] = 0

OrderPCs == {"update", "paySum", "payInsert", "refundSum", "refundInsert",
             "earnRead", "earnWrite", "reverse", "restore"}

\* A worker on an order found it in the table.
RequestsHaveOrders ==
  \A w \in Worker : req[w].pc \in OrderPCs => Exists(req[w].order)

Grounded == AbsentIsBlank /\ RequestsHaveOrders

\* The number a worker is about to use follows one that is taken, or is 1.
PickedNumbersRunOn ==
  \A w \in Worker :
    At(w, "insert") => /\ req[w].number > 0
                       /\ req[w].number > 1 => NumberTaken(req[w].number - 1)

Ended(o) == \E i \in 1 .. Len(trail[o]) : trail[o][i].to \in Finished

\* A refund in progress has seen its order finished.
RefundersSawAnEnding ==
  \A w \in Worker :
    req[w].pc \in {"refundSum", "refundInsert"} => Ended(req[w].order)

\* A payment knows no less than what is outstanding; a crediting worker's
\* order is paid.
CreditorsArePaid ==
  "earn" \notin Load =>
    \A w \in Worker :
      /\ At(w, "payInsert") => captured[req[w].order] + req[w].left
                                >= orders[req[w].order].total
      /\ req[w].pc \in {"earnRead", "earnWrite"} =>
           captured[req[w].order] >= orders[req[w].order].total
      /\ At(w, "earnWrite") => orders[req[w].order].member

ReversersRefunded ==
  \A w \in Worker :
    req[w].pc \in {"reverse", "restore"} => refunded[req[w].order] > 0

\* With one worker, what a request read is what the tables still hold.
ReadsAreFresh ==
  \A w \in Worker :
    LET r == req[w] IN
    /\ r.pc = "update" => orders[r.order].status = r.from
                          /\ CanTransition(r.from, r.to)
    /\ r.pc \in {"paySum", "payInsert"} =>
         orders[r.order].status \notin Reversing
    /\ r.pc = "payInsert" =>
         captured[r.order] + r.amount <= orders[r.order].total
    /\ r.pc \in {"refundSum", "refundInsert"} =>
         orders[r.order].status \in Finished
    /\ r.pc = "refundInsert" =>
         refunded[r.order] + r.amount <= captured[r.order]
    /\ r.pc = "earnWrite" => orders[r.order].status \notin Reversing

\* What is being created is not both held and paid.
DraftsAreSound ==
  \A w \in Worker :
    req[w].pc \in {"number", "insert"} => ~(req[w].draft.hold /\ req[w].draft.paid)

\* ... and a held order has taken nothing, a live one given nothing back.
StockFollowsStatus ==
  \A o \in Order :
    /\ orders[o].status = "DRAFT" => used[o] = 0
    /\ orders[o].status \notin Reversing => returned[o] = 0

=============================================================================
