------------------------------ MODULE Counter ------------------------------
(***************************************************************************)
(* The counter of a restaurant for one day: sales with their discounts     *)
(* (OrdersService.create, MarketingService), further payments and refunds  *)
(* as the cash drawer sees them, and the drawer itself (CashService).      *)
(* One tenant, one coupon.                                                 *)
(*                                                                         *)
(* A row carries the time its statement was sent and is seen by others     *)
(* when its transaction commits, so a step that writes money is two: the   *)
(* stamp and the commit.  The clock counts stamps: no two are taken in the *)
(* same millisecond.                                                       *)
(*                                                                         *)
(* A definition whose name begins with Mutant stands for a plausible bug   *)
(* in the definition below it.  No action uses it.                         *)
(***************************************************************************)
EXTENDS Pricing

CONSTANTS
  Worker,        \* requests the API can have in flight at once
  Draft,         \* the sales the tills send
  Coupon,        \* the coupon of this instance
  Config,        \* loyalty configurations an owner may try to save
  DefaultConfig, \* DEFAULT_LOYALTY_CONFIG
  Tender,        \* amounts of the other payments, refunds and movements
  Float,         \* opening floats
  Balance,       \* balances a customer may have
  Load,          \* the operations the clients of this instance send
  MaxSessions,   \* bound on the till sessions
  MaxTime,       \* bound on the clock
  MaxRequests,   \* bound on the requests ever sent
  MaxAttempts    \* create() retries an order number this often (5)

Method == {"CASH", "OTHER"}
Operation == {"sale", "payment", "refund", "drawer", "coupon", "settings"}
Session == 1 .. MaxSessions
Time == 0 .. MaxTime

ASSUME CounterAssumption ==
  /\ IsFiniteSet(Worker)
  /\ \A d \in Draft : /\ Subtotal(d.lines) \in Nat /\ TaxTotal(d.lines) \in Nat
                      /\ d.amount \in Nat
                      /\ d.paid \in Method \cup {None}
  /\ Coupon \in CouponRow
  /\ Config \subseteq ConfigRow
  /\ DefaultConfig \in Config /\ ConfigAllowed(DefaultConfig)
  /\ Tender \subseteq Nat \ {0} /\ Float \subseteq Nat /\ Balance \subseteq Int
  /\ Load \subseteq Operation
  /\ MaxSessions \in Nat /\ MaxTime \in Nat /\ MaxRequests \in Nat
  /\ MaxAttempts \in Nat \ {0}

VARIABLES
  orders,      \* the highest order number
  redeemed,    \* coupon_redemptions of the coupon, counted
  active,      \* is the coupon switched on?
  config,      \* the loyalty configuration in force
  payments,    \* committed payments: time, method, amount
  refunds,     \* committed refunds: the same
  session,     \* the till sessions, in the order they were opened
  moved,       \* per session, pay-ins less pay-outs
  now,         \* the clock
  req,         \* what each worker is in the middle of
  overlapped,  \* workers whose request met another one on its way
  quiet,       \* sessions whose last closing met no other request
  sent         \* requests sent so far

shop == <<redeemed, active, config>>
money == <<payments, refunds>>
till == <<session, moved, quiet>>
vars == <<orders, redeemed, active, config, payments, refunds, session, moved,
          now, req, overlapped, quiet, sent>>

Idle == [pc |-> "idle"]

Row == [at : Time, method : Method, amount : Nat]
SaleRequest ==
  [pc : {"price"}, draft : Draft, attempt : 0 .. MaxAttempts - 1] \cup
  [pc : {"number"}, draft : Draft, attempt : 0 .. MaxAttempts - 1, total : Nat] \cup
  [pc : {"insert"}, draft : Draft, attempt : 0 .. MaxAttempts - 1, total : Nat,
   number : Nat \ {0}] \cup
  [pc : {"inserted"}, draft : Draft, attempt : 0 .. MaxAttempts - 1, total : Nat,
   number : Nat \ {0}, at : Time]
RowRequest == [pc : {"row"}, refund : BOOLEAN, row : Row]
DrawerRequest ==
  [pc : {"open"}, float : Float, at : Time] \cup
  [pc : {"move"}, session : Session, amount : Int] \cup
  [pc : {"close"}, session : Session, counted : Nat, expected : Int]
Request == {Idle} \cup SaleRequest \cup RowRequest \cup DrawerRequest

Drawer == [status : {"OPEN"}, openedAt : Time, float : Float] \cup
          [status : {"CLOSED"}, openedAt : Time, float : Float, closedAt : Time,
           counted : Nat, expected : Int]

TypeOK ==
  /\ orders \in Nat /\ redeemed \in Nat /\ active \in BOOLEAN
  /\ config \in Config
  /\ payments \subseteq Row /\ refunds \subseteq Row
  /\ session \in Seq(Drawer)
  /\ moved \in [Session -> Int]
  /\ now \in Time
  /\ req \in [Worker -> Request]
  /\ overlapped \subseteq Worker /\ quiet \subseteq Session
  /\ sent \in 0 .. MaxRequests

Init ==
  /\ orders = 0 /\ redeemed = 0 /\ active = TRUE
  /\ config = DefaultConfig
  /\ payments = {} /\ refunds = {}
  /\ session = <<>> /\ moved = [s \in Session |-> 0]
  /\ now = 0
  /\ req = [w \in Worker |-> Idle]
  /\ overlapped = {} /\ quiet = {}
  /\ sent = 0

-----------------------------------------------------------------------------
(***************************************************************************)
(* Requests                                                                *)
(***************************************************************************)

Busy == {w \in Worker : req[w] # Idle}

\* A request comes in and its handler goes as far as r.
Arrive(w, kind, r) ==
  /\ req[w] = Idle /\ kind \in Load /\ sent < MaxRequests
  /\ req' = [req EXCEPT ![w] = r]
  /\ overlapped' = IF Busy = {} THEN overlapped \ {w} ELSE overlapped \cup Busy \cup {w}
  /\ sent' = sent + 1

Goto(w, r) ==
  /\ req' = [req EXCEPT ![w] = r]
  /\ UNCHANGED <<overlapped, sent>>

End(w) == Goto(w, Idle)

\* new Date(), or the default of a createdAt.
Stamp == now < MaxTime /\ now' = now + 1

\* The transaction is refused by what is not modelled, times out, or its
\* process dies: it rolls back.
Abort(w) ==
  /\ req[w] # Idle
  /\ End(w)
  /\ UNCHANGED <<orders, shop, money, till, now>>

-----------------------------------------------------------------------------
(***************************************************************************)
(* create()                                                                *)
(***************************************************************************)

SaleArrive(w, d) ==
  /\ Arrive(w, "sale", [pc |-> "price", draft |-> d, attempt |-> 0])
  /\ UNCHANGED <<orders, shop, money, till, now>>

\* What the draft costs, as far as this transaction can see, or None.
PricedTotal(d) ==
  LET subtotal == Subtotal(d.lines)
      discount == Discount(d, subtotal, Coupon, active, now, redeemed, config)
  IN IF (\E i \in DOMAIN d.lines : ~LineAllowed(d.lines[i])) \/ discount = None THEN None
     ELSE subtotal - discount + TaxTotal(d.lines)

\* insert() validates the lines and prices them; a coupon's redemptions are
\* counted here, before the order number is read.
SalePrice(w) ==
  LET r == req[w] IN
  /\ r.pc = "price"
  /\ PricedTotal(r.draft) # None
  /\ Goto(w, [pc |-> "number", draft |-> r.draft, attempt |-> r.attempt,
              total |-> PricedTotal(r.draft)])
  /\ UNCHANGED <<orders, shop, money, till, now>>

SaleRefused(w) ==
  /\ req[w].pc = "price"
  /\ PricedTotal(req[w].draft) = None
  /\ End(w)
  /\ UNCHANGED <<orders, shop, money, till, now>>

SaleNumber(w) ==
  LET r == req[w] IN
  /\ r.pc = "number"
  /\ Goto(w, [pc |-> "insert", draft |-> r.draft, attempt |-> r.attempt,
              total |-> r.total, number |-> orders + 1])
  /\ UNCHANGED <<orders, shop, money, till, now>>

\* The rows of the sale, its redemption and its payment.  While another
\* transaction has inserted the same number, this one waits at the index.
SaleInsert(w) ==
  LET r == req[w] IN
  /\ r.pc = "insert" /\ r.number > orders
  /\ \A v \in Worker : req[v].pc = "inserted" => req[v].number # r.number
  /\ Stamp
  /\ Goto(w, [pc |-> "inserted", draft |-> r.draft, attempt |-> r.attempt,
              total |-> r.total, number |-> r.number, at |-> now'])
  /\ UNCHANGED <<orders, shop, money, till>>

\* The number is taken: roll back, and begin again or give up.
SaleRetry(w) ==
  LET r == req[w] IN
  /\ r.pc = "insert" /\ r.number <= orders
  /\ IF r.attempt + 1 < MaxAttempts
     THEN Goto(w, [pc |-> "price", draft |-> r.draft, attempt |-> r.attempt + 1])
     ELSE End(w)
  /\ UNCHANGED <<orders, shop, money, till, now>>

SaleCommit(w) ==
  LET r == req[w] IN
  /\ r.pc = "inserted"
  /\ orders' = r.number
  /\ redeemed' = IF r.draft.offer = "coupon" THEN redeemed + 1 ELSE redeemed
  /\ payments' = IF r.draft.paid = None THEN payments
                 ELSE payments \cup {[at |-> r.at, method |-> r.draft.paid,
                                      amount |-> r.total]}
  /\ End(w)
  /\ UNCHANGED <<active, config, refunds, till, now>>

\* setCouponActive()
SetCouponActive(w) ==
  /\ req[w] = Idle /\ "coupon" \in Load /\ sent < MaxRequests
  /\ active' = ~active
  /\ sent' = sent + 1
  /\ UNCHANGED <<orders, redeemed, config, money, till, now, req, overlapped>>

\* updateSettings(): what validateConfig() refuses is not saved.
UpdateSettings(w, c) ==
  /\ req[w] = Idle /\ "settings" \in Load /\ sent < MaxRequests
  /\ ConfigAllowed(c)
  /\ config' = c
  /\ sent' = sent + 1
  /\ UNCHANGED <<orders, redeemed, active, money, till, now, req, overlapped>>

-----------------------------------------------------------------------------
(***************************************************************************)
(* Other payments and refunds.  What they are checked against belongs to   *)
(* the order; here they are money that is taken in and handed out.         *)
(***************************************************************************)

SumOf(rows) == MapThenSumSet(LAMBDA r : r.amount, rows)

Tendered(w, refund, row) ==
  /\ refund => SumOf(refunds) + row.amount <= SumOf(payments)
  /\ Stamp
  /\ Arrive(w, IF refund THEN "refund" ELSE "payment",
            [pc |-> "row", refund |-> refund, row |-> row])
  /\ UNCHANGED <<orders, shop, money, till>>

TenderCommit(w) ==
  LET r == req[w] IN
  /\ r.pc = "row"
  /\ payments' = IF r.refund THEN payments ELSE payments \cup {r.row}
  /\ refunds' = IF r.refund THEN refunds \cup {r.row} ELSE refunds
  /\ End(w)
  /\ UNCHANGED <<orders, shop, till, now>>

-----------------------------------------------------------------------------
(***************************************************************************)
(* The cash drawer                                                         *)
(***************************************************************************)

IsOpen(s) == s \in DOMAIN session /\ session[s].status = "OPEN"

\* What the time window leaves out is what was refunded.
MutantSettlement(s, until) ==
  session[s].float + moved[s] +
  SumOf({p \in payments : p.method = "CASH" /\ p.at \in session[s].openedAt .. until}) -
  SumOf({p \in refunds : p.method = "CASH" /\ p.at \in session[s].openedAt .. now})

\* settlement(): the cash that should be in the drawer, from the payments and
\* refunds made between the opening of the session and a moment, and from the
\* movements booked on it at any time.
Settlement(s, until) ==
  session[s].float + moved[s] +
  SumOf({p \in payments : p.method = "CASH" /\ p.at \in session[s].openedAt .. until}) -
  SumOf({p \in refunds : p.method = "CASH" /\ p.at \in session[s].openedAt .. until})

\* open(): the row carries the time at which the request was sent to the
\* database.
Open(w, float) ==
  /\ Stamp
  /\ Arrive(w, "drawer", [pc |-> "open", float |-> float, at |-> now'])
  /\ UNCHANGED <<orders, shop, money, till>>

\* cash_sessions_one_open_per_tenant: one open session, or 409.
OpenWrite(w) ==
  LET r == req[w] IN
  /\ r.pc = "open"
  /\ IF \E s \in DOMAIN session : IsOpen(s) THEN UNCHANGED session
     ELSE /\ Len(session) < MaxSessions
          /\ session' = Append(session, [status |-> "OPEN", openedAt |-> r.at,
                                         float |-> r.float])
  /\ End(w)
  /\ UNCHANGED <<orders, shop, money, moved, quiet, now>>

\* recordMovement(): a pay-in or a pay-out of an open session ...
Move(w, s, amount) ==
  /\ IsOpen(s)
  /\ Arrive(w, "drawer", [pc |-> "move", session |-> s, amount |-> amount])
  /\ UNCHANGED <<orders, shop, money, till, now>>

\* ... whose status is not looked at again.
MoveWrite(w) ==
  LET r == req[w] IN
  /\ r.pc = "move"
  /\ moved' = [moved EXCEPT ![r.session] = @ + r.amount]
  /\ End(w)
  /\ UNCHANGED <<orders, shop, money, session, quiet, now>>

\* close(): the status, the instant up to which it settles, and the sums.
Close(w, s, counted) ==
  /\ IsOpen(s)
  /\ Stamp
  /\ Arrive(w, "drawer", [pc |-> "close", session |-> s, counted |-> counted,
                          expected |-> Settlement(s, now')])
  /\ UNCHANGED <<orders, shop, money, till>>

\* The UPDATE names the session by its id alone; closedAt is a second instant.
CloseWrite(w) ==
  LET r == req[w] IN
  /\ r.pc = "close"
  /\ Stamp
  /\ session' = [session EXCEPT ![r.session] =
       [status |-> "CLOSED", openedAt |-> session[r.session].openedAt,
        float |-> session[r.session].float, closedAt |-> now',
        counted |-> r.counted, expected |-> r.expected]]
  /\ quiet' = IF w \in overlapped THEN quiet \ {r.session} ELSE quiet \cup {r.session}
  /\ End(w)
  /\ UNCHANGED <<orders, shop, money, moved>>

-----------------------------------------------------------------------------
Step(w) ==
  \/ Abort(w)
  \/ SalePrice(w) \/ SaleRefused(w) \/ SaleNumber(w) \/ SaleInsert(w)
  \/ SaleRetry(w) \/ SaleCommit(w)
  \/ TenderCommit(w)
  \/ OpenWrite(w) \/ MoveWrite(w) \/ CloseWrite(w)

Arrival(w) ==
  \/ \E d \in Draft : SaleArrive(w, d)
  \/ SetCouponActive(w)
  \/ \E c \in Config : UpdateSettings(w, c)
  \/ \E refund \in BOOLEAN, m \in Method, a \in Tender :
       Tendered(w, refund, [at |-> now + 1, method |-> m, amount |-> a])
  \/ \E f \in Float : Open(w, f)
  \/ \E s \in Session, a \in Tender : Move(w, s, a) \/ Move(w, s, -a)
  \/ \E s \in Session, a \in Tender : Close(w, s, a)

Next == \E w \in Worker : Step(w) \/ Arrival(w)

Spec == Init /\ [][Next]_vars

-----------------------------------------------------------------------------
(***************************************************************************)
(* Properties                                                              *)
(***************************************************************************)

\* Concurrent sales can use a coupon more often than it allows, since each
\* counts the redemptions before it commits its own, but only as often as
\* there are requests in flight beside the one that used it up: a till that
\* begins later is refused, however long the overlap went on.
OveruseIsBounded ==
  Coupon.limit # None => redeemed < Coupon.limit + Cardinality(Worker)

\* "The Z-report reprints identically forever" (cash.service.ts:107): what
\* close() stored is what getById() computes again, at any later time.  The
\* promise holds for a session whose closing overlapped no other request,
\* whatever overlapped before and after: late movements, stale closings and
\* payments that commit late all began before the closing had ended.
QuietClosingsReprint ==
  \A s \in (DOMAIN session) \cap quiet :
    session[s].status = "CLOSED" /\
      Settlement(s, session[s].closedAt) = session[s].expected

\* The reward the till offers to a customer is one create() accepts, for an
\* order that is large enough, at the value that was shown, and no smaller
\* redemption would be accepted.
OfferedRewardsApply ==
  \A b \in Balance :
    LET reward == AvailableReward(b, config) IN
    reward # None =>
      /\ reward.points <= b
      /\ RedemptionAllowed(reward.points, reward.discount, config)
      /\ Worth(reward.points, config) = reward.discount
      /\ \A p \in 1 .. reward.points - 1 : ~RedemptionAllowed(p, reward.discount, config)
=============================================================================
