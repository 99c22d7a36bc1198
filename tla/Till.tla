-------------------------------- MODULE Till --------------------------------
(***************************************************************************)
(* One till and the API it rings orders up with: the cart, the key that    *)
(* goes with every try to charge or hold it, the panel a split payment is  *)
(* collected on, the held orders that are resumed, and the calls, which    *)
(* arrive late, more than once, or not at all (pos-client.tsx).  The       *)
(* till's code runs to completion between two awaits, so every tap and     *)
(* every answer is one step.                                               *)
(*                                                                         *)
(* The API takes one step to a request: Orders is about what goes on       *)
(* inside one.  Orders are numbered as they are created.                   *)
(*                                                                         *)
(* A definition whose name begins with Mutant stands for a plausible bug   *)
(* in the definition below it.  No action uses it.                         *)
(***************************************************************************)
EXTENDS Integers, Sequences

CONSTANTS
  Content,   \* what a cart can hold: lines, customer, discount, note
  Price,     \* what each of them comes to
  Call,      \* HTTP calls the till can have in flight at once
  None,      \* null, or an empty cart
  MaxKeys,   \* bound on the keys ever minted
  MaxCarts,  \* bound on the carts ever filled
  MaxFaults  \* bound on calls that fail and pages left

ASSUME TillAssumption ==
  /\ Price \in [Content -> Nat \ {0}]
  /\ None \notin Content \cup Call \cup Nat \cup [order : Nat, key : Nat]
  /\ MaxKeys \in Nat /\ MaxCarts \in Nat /\ MaxFaults \in Nat

VARIABLES
  orders,    \* the orders of the API
  cart,      \* activeCart with the fields that go with it
  idemKey,   \* the key of the order attempt
  legKey,    \* the key of the leg being recorded, and its order
  panel,     \* success: the order on the panel, as it was last answered
  recorder,  \* the call the mounted SplitRecorder is busy with
  calls,     \* the till's calls
  gone,      \* calls nobody waits for any more
  minted,    \* keys minted so far
  visit,     \* the cart being filled: how many there have been
  touched,   \* has the cart changed since its key was minted?
  parked,    \* has the cart been sent to be held?
  blind,     \* orders whose leg key was given up, or whose panel went back
  faults     \* faults so far

keys == <<idemKey, legKey, minted>>
attempt == <<visit, touched, parked>>
page == <<panel, recorder>>
vars == <<orders, cart, idemKey, legKey, panel, recorder, calls, gone, minted,
          visit, touched, parked, blind, faults>>

Key == 1 .. MaxKeys
Id == Nat \ {0}

Idle == [pc |-> "idle"]

\* The order an answer carries.
View == [order : Id, draft : BOOLEAN, paid : Nat, legs : Nat]

CallState ==
  {Idle} \cup
  [pc : {"charge", "hold"}, cart : Content, key : Key, of : Nat, split : BOOLEAN] \cup
  [pc : {"charged", "held"}, of : Nat, view : View] \cup
  [pc : {"resume", "fetch"}, order : Id] \cup
  [pc : {"fetched"}, view : View] \cup
  [pc : {"leg"}, order : Id, amount : Nat, key : Key, seen : Nat] \cup
  [pc : {"rung"}, key : Key, view : View]

Leg == [key : Key, seen : Nat]

\* `of', `told' and each leg's `seen' are history: the cart the order was
\* rung up from, the legs the till was told of, the legs its cashier saw.
OrderRow ==
  [cart : Content, key : Key, draft : BOOLEAN, held : BOOLEAN, paid : Nat,
   legs : Seq(Leg), of : Nat, told : Nat]

Init ==
  /\ orders = <<>>
  /\ cart = None
  /\ idemKey = None /\ legKey = None
  /\ panel = None /\ recorder = None
  /\ calls = [c \in Call |-> Idle] /\ gone = {}
  /\ minted = 0
  /\ visit = 0 /\ touched = FALSE /\ parked = FALSE
  /\ blind = {}
  /\ faults = 0

-----------------------------------------------------------------------------
(***************************************************************************)
(* The API                                                                 *)
(***************************************************************************)

\* The answer that carries order o, now row r.
Shot(o, r) == [order |-> o, draft |-> r.draft, paid |-> r.paid, legs |-> Len(r.legs)]

\* The call is answered, if anybody waits for it.
Answer(c, r) ==
  /\ calls' = [calls EXCEPT ![c] = IF c \in gone THEN Idle ELSE r]
  /\ gone' = gone \ {c}
  /\ UNCHANGED <<cart, keys, page, attempt, blind, faults>>

\* A held order takes no payment; a charge that is not split pays in full.
NewRow(r) ==
  [cart |-> r.cart, key |-> r.key, draft |-> r.pc = "hold", held |-> r.pc = "hold",
   paid |-> IF r.pc = "charge" /\ ~r.split THEN Price[r.cart] ELSE 0,
   legs |-> <<>>, of |-> r.of, told |-> 0]

\* POST /orders.  A key that is known answers with its order, whatever the
\* request holds.
ServeCreate(c) ==
  LET r == calls[c]
      Reply(o, row) == Answer(c, [pc |-> IF r.pc = "hold" THEN "held" ELSE "charged",
                                  of |-> r.of, view |-> Shot(o, row)])
  IN
  /\ r.pc \in {"charge", "hold"}
  /\ \/ \E o \in DOMAIN orders :
          /\ orders[o].key = r.key
          /\ Reply(o, orders[o])
          /\ UNCHANGED orders
     \/ /\ \A o \in DOMAIN orders : orders[o].key # r.key
        /\ orders' = Append(orders, NewRow(r))
        /\ Reply(Len(orders) + 1, NewRow(r))

\* PATCH /orders/:id/status to PLACED, which an order that is placed already
\* answers as well; the till goes on to fetch the order.
ServeResume(c) ==
  LET r == calls[c] IN
  /\ r.pc = "resume"
  /\ orders' = [orders EXCEPT ![r.order].draft = FALSE]
  /\ Answer(c, [r EXCEPT !.pc = "fetch"])

\* GET /orders/:id
ServeFetch(c) ==
  LET r == calls[c] IN
  /\ r.pc = "fetch"
  /\ Answer(c, [pc |-> "fetched", view |-> Shot(r.order, orders[r.order])])
  /\ UNCHANGED orders

\* The API forgets what was paid before.
MutantOutstanding(o) == Price[orders[o].cart]

Outstanding(o) == Price[orders[o].cart] - orders[o].paid

\* POST /orders/:id/payments.  A key that is known answers with the order
\* as it is.
ServeLeg(c) ==
  LET r == calls[c]
      o == r.order
      row == [orders[o] EXCEPT
                !.paid = @ + r.amount,
                !.legs = Append(@, [key |-> r.key, seen |-> r.seen])]
      Reply(now) == Answer(c, [pc |-> "rung", key |-> r.key, view |-> Shot(o, now)])
      known == \E i \in 1 .. Len(orders[o].legs) : orders[o].legs[i].key = r.key
  IN
  /\ r.pc = "leg"
  /\ \/ /\ known
        /\ Reply(orders[o])
        /\ UNCHANGED orders
     \/ /\ ~known /\ r.amount <= Outstanding(o)
        /\ orders' = [orders EXCEPT ![o] = row]
        /\ Reply(row)

\* Another till resumes a held order, or takes money for an order.
PlaceElsewhere(o) ==
  /\ orders[o].draft
  /\ orders' = [orders EXCEPT ![o].draft = FALSE]
  /\ UNCHANGED <<cart, keys, page, calls, gone, attempt, blind, faults>>

PayElsewhere(o, a) ==
  /\ a <= Outstanding(o)
  /\ orders' = [orders EXCEPT ![o].paid = @ + a]
  /\ UNCHANGED <<cart, keys, page, calls, gone, attempt, blind, faults>>

-----------------------------------------------------------------------------
(***************************************************************************)
(* What the code waits for                                                 *)
(***************************************************************************)

Waiting(pcs) == \E c \in Call \ gone : calls[c].pc \in pcs

placing == Waiting({"charge", "charged"})
holding == Waiting({"hold", "held"})
resuming == Waiting({"resume", "fetch", "fetched"})

\* A call fails: refused, cut off, or given up while the request is still on
\* its way.  The finally blocks let the cashier go on.
FailCall(c) ==
  LET r == calls[c] IN
  /\ r # Idle /\ c \notin gone /\ faults < MaxFaults
  /\ \/ calls' = [calls EXCEPT ![c] = Idle] /\ UNCHANGED gone
     \/ /\ r.pc \in {"charge", "hold", "resume", "leg"}
        /\ gone' = gone \cup {c}
        /\ UNCHANGED calls
  /\ recorder' = IF recorder = c THEN None ELSE recorder
  /\ faults' = faults + 1
  /\ UNCHANGED <<orders, cart, keys, panel, attempt, blind>>

-----------------------------------------------------------------------------
(***************************************************************************)
(* The cart                                                                *)
(***************************************************************************)

\* Lines are tapped in, changed and removed; the key stays.
Edit(x) ==
  /\ x # cart /\ visit < MaxCarts
  /\ cart' = x
  /\ touched' = (touched \/ idemKey # None)
  /\ UNCHANGED <<orders, keys, page, calls, gone, visit, parked, blind, faults>>

\* A key of its own for every request.
MutantOrderKey == minted + 1

\* orderKey(): minted by the first try, kept for the others.
OrderKey == IF idemKey = None THEN minted + 1 ELSE idemKey

\* The cart goes out under its key.
Send(c, pc, split) ==
  /\ cart # None /\ calls[c] = Idle
  /\ OrderKey \in Key
  /\ idemKey' = OrderKey
  /\ minted' = IF OrderKey > minted THEN OrderKey ELSE minted
  /\ calls' = [calls EXCEPT ![c] = [pc |-> pc, cart |-> cart, key |-> OrderKey,
                                    of |-> visit, split |-> split]]
  /\ UNCHANGED <<orders, cart, legKey, page, gone, visit, touched, blind, faults>>

\* charge(): the shortcut works whatever the panel shows and while a hold is
\* out.
Charge(c, split) ==
  /\ ~placing
  /\ Send(c, "charge", split)
  /\ UNCHANGED parked

\* hold(), by its button only.
Hold(c) ==
  /\ ~holding /\ ~placing /\ panel = None
  /\ Send(c, "hold", FALSE)
  /\ parked' = TRUE

\* clearCart()
Clear ==
  /\ cart' = None
  /\ idemKey' = None
  /\ visit' = visit + 1
  /\ touched' = FALSE /\ parked' = FALSE

\* The cashier clears the order.
ClearTap ==
  /\ cart # None
  /\ Clear
  /\ UNCHANGED <<orders, legKey, minted, page, calls, gone, blind, faults>>

-----------------------------------------------------------------------------
(***************************************************************************)
(* The panel                                                               *)
(***************************************************************************)

Answered(c) ==
  /\ calls' = [calls EXCEPT ![c] = Idle]
  /\ UNCHANGED <<gone, minted, faults>>

Remaining(view) == Price[orders[view.order].cart] - view.paid

\* Is a SplitRecorder mounted for the order of this view?
Mounted(view) == panel # None /\ panel.order = view.order
                   /\ Remaining(panel) > 0 /\ Remaining(view) > 0

\* setSuccess(): the panel shows the view.  A SplitRecorder that stays keeps
\* waiting for its call c; a new one waits for nothing.
Show(c, view) ==
  /\ panel' = view
  /\ recorder' = IF Mounted(view) /\ recorder # c THEN recorder ELSE None
  /\ orders' = [orders EXCEPT ![view.order].told = IF @ < view.legs THEN view.legs ELSE @]

\* The panel goes back to an order with fewer legs than it has shown.
Behind(view) == IF view.legs < orders[view.order].told THEN {view.order} ELSE {}

TakeCharged(c) ==
  LET r == calls[c] IN
  /\ r.pc = "charged"
  /\ Answered(c)
  /\ Show(c, r.view)
  /\ Clear
  /\ blind' = blind \cup Behind(r.view)
  /\ UNCHANGED legKey

TakeHeld(c) ==
  /\ calls[c].pc = "held"
  /\ Answered(c)
  /\ Clear
  /\ UNCHANGED <<orders, legKey, page, blind>>

\* resume(), of an order the tray lists, which may be as old as its last
\* reload.
Resume(c, o) ==
  /\ ~resuming /\ orders[o].held
  /\ calls[c] = Idle
  /\ calls' = [calls EXCEPT ![c] = [pc |-> "resume", order |-> o]]
  /\ UNCHANGED <<orders, cart, keys, page, gone, attempt, blind, faults>>

TakeFetched(c) ==
  LET r == calls[c] IN
  /\ r.pc = "fetched"
  /\ Answered(c)
  /\ Show(c, r.view)
  /\ blind' = blind \cup Behind(r.view)
  /\ UNCHANGED <<cart, idemKey, legKey, attempt>>

\* A key of its own for every tap.
MutantLegKey(o) == minted + 1

\* The key of a leg of order o: kept while the same order's leg is retried.
LegKey(o) == IF legKey # None /\ legKey.order = o THEN legKey.key ELSE minted + 1

\* The order whose leg key is given up, if it is another key than k.
GivenUp(k) == IF legKey # None /\ legKey.key # k THEN {legKey.order} ELSE {}

\* recordLeg(), from the SplitRecorder of the order on the panel.
RecordLeg(c, a) ==
  LET o == panel.order
      k == LegKey(o)
  IN
  /\ panel # None /\ a \in 1 .. Remaining(panel)
  /\ recorder = None
  /\ calls[c] = Idle /\ k \in Key
  /\ legKey' = [order |-> o, key |-> k]
  /\ minted' = IF k > minted THEN k ELSE minted
  /\ calls' = [calls EXCEPT ![c] = [pc |-> "leg", order |-> o, amount |-> a,
                                    key |-> k, seen |-> panel.legs]]
  /\ recorder' = c
  /\ blind' = blind \cup (GivenUp(k) \ {o})
  /\ UNCHANGED <<orders, cart, idemKey, panel, gone, attempt, faults>>

\* A leg lands: the key is dropped, whoever's it is by now, and the panel
\* shows the leg's order.
TakeRung(c) ==
  LET r == calls[c] IN
  /\ r.pc = "rung"
  /\ Answered(c)
  /\ Show(c, r.view)
  /\ legKey' = None
  /\ blind' = blind \cup GivenUp(r.key) \cup Behind(r.view)
  /\ UNCHANGED <<cart, idemKey, attempt>>

\* 'New order', or six seconds, once nothing is owed.
NewOrder ==
  /\ panel # None /\ Remaining(panel) <= 0
  /\ panel' = None
  /\ UNCHANGED <<orders, cart, keys, recorder, calls, gone, attempt, blind, faults>>

\* The page is left and opened again: only what has been sent goes on.
Leave ==
  /\ faults < MaxFaults
  /\ Clear
  /\ legKey' = None /\ panel' = None /\ recorder' = None
  /\ LET sent == {c \in Call : calls[c].pc \in {"charge", "hold", "resume", "leg"}} IN
       /\ calls' = [c \in Call |-> IF c \in sent THEN calls[c] ELSE Idle]
       /\ gone' = sent
  /\ blind' = blind \cup GivenUp(None)
  /\ faults' = faults + 1
  /\ UNCHANGED <<orders, minted>>

-----------------------------------------------------------------------------
ApiStep ==
  \/ \E c \in Call : \/ ServeCreate(c) \/ ServeResume(c)
                     \/ ServeFetch(c) \/ ServeLeg(c)
  \/ \E o \in DOMAIN orders : \/ PlaceElsewhere(o)
                              \/ \E a \in 1 .. Outstanding(o) : PayElsewhere(o, a)

CartStep ==
  \/ \E x \in Content \cup {None} : Edit(x)
  \/ \E c \in Call : Hold(c) \/ TakeHeld(c) \/ TakeCharged(c)
  \/ \E c \in Call, split \in BOOLEAN : Charge(c, split)
  \/ ClearTap

PanelStep ==
  \/ \E c \in Call : TakeFetched(c) \/ TakeRung(c)
  \/ \E c \in Call, o \in DOMAIN orders : Resume(c, o)
  \/ \E c \in Call : panel # None /\ \E a \in 1 .. Remaining(panel) : RecordLeg(c, a)
  \/ NewOrder

Next ==
  \/ ApiStep \/ CartStep \/ PanelStep \/ Leave
  \/ \E c \in Call : FailCall(c)

Spec == Init /\ [][Next]_vars

-----------------------------------------------------------------------------
(***************************************************************************)
(* Properties                                                              *)
(***************************************************************************)

\* Every variable has its type, and no order is paid more than it comes to
\* (pos-client.tsx caps a leg by its panel, recordPayment by what is there).
TypeOK ==
  /\ orders \in Seq(OrderRow)
  /\ \A o \in DOMAIN orders : orders[o].paid <= Price[orders[o].cart]
  /\ cart \in Content \cup {None}
  /\ idemKey \in Key \cup {None}
  /\ legKey \in [order : Id, key : Key] \cup {None}
  /\ panel \in View \cup {None}
  /\ recorder \in Call \cup {None}
  /\ calls \in [Call -> CallState] /\ gone \subseteq Call
  /\ minted \in Key \cup {0}
  /\ visit \in Nat /\ touched \in BOOLEAN /\ parked \in BOOLEAN
  /\ blind \subseteq DOMAIN orders
  /\ faults \in 0 .. MaxFaults

\* When the answer to a cart that is charged or held comes back, however
\* often it was sent, given up, sent twice at once or answered late, the
\* order it carries is the only one that cart was rung up as; it holds what
\* the cart holds unless the cart was changed after it was first sent, and
\* it is placed if it was charged, unless the cart had been sent to be held
\* (the order key of pos-client.tsx).
CartsBecomeOneOrder ==
  \A c \in Call :
    calls[c].pc \in {"charged", "held"} /\ calls[c].of = visit =>
      LET o == calls[c].view.order IN
      /\ \A p \in DOMAIN orders : orders[p].of = visit => p = o
      /\ orders[o].cart = cart \/ touched
      /\ calls[c].pc = "charged" => ~calls[c].view.draft \/ parked

\* Every leg of a split that was recorded was tapped by a cashier who saw all
\* legs recorded before it, so no retry rings a leg up twice; unless the key
\* of an unresolved leg was lost to another order or to the answer of another
\* leg, or an answer put the panel back to before a leg (the leg key of
\* pos-client.tsx).
LegsRingOnce ==
  \A o \in DOMAIN orders : o \notin blind =>
    \A i \in 1 .. Len(orders[o].legs) : orders[o].legs[i].seen = i - 1
=============================================================================
