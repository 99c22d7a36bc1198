----------------------------- MODULE TillProofs -----------------------------
(***************************************************************************)
(* Theorems about Till, for every menu and its prices, any number of calls *)
(* in flight, and every bound on keys, carts and faults.                   *)
(***************************************************************************)
EXTENDS Till, SequenceTheorems, TLAPS

OutPC == {"charge", "hold"}
PlacedPC == {"charged", "held"}
ViewPC == {"charged", "held", "fetched", "rung"}
OrderPC == {"resume", "fetch", "leg"}

\* What a call carries.
LEMMA CallShapes ==
  ASSUME NEW r \in CallState
  PROVE  /\ r.pc \in OutPC => /\ r.cart \in Content /\ r.key \in Key
                              /\ r.of \in Nat /\ r.split \in BOOLEAN
         /\ r.pc \in PlacedPC => r.of \in Nat
         /\ r.pc \in ViewPC => r.view \in View
         /\ r.pc \in OrderPC => r.order \in Id
         /\ r.pc = "leg" => r.amount \in Nat /\ r.key \in Key /\ r.seen \in Nat
         /\ r.pc = "rung" => r.key \in Key
         /\ r.pc = "idle" <=> r = Idle
  BY DEF CallState, Idle, OutPC, PlacedPC, ViewPC, OrderPC

\* The records that the till and the API make of a call.
LEMMA CallsAreMade ==
  /\ Idle \in CallState
  /\ \A x \in Content, k \in Key, n \in Nat, b \in BOOLEAN, p \in OutPC :
       [pc |-> p, cart |-> x, key |-> k, of |-> n, split |-> b] \in CallState
  /\ \A n \in Nat, v \in View, p \in PlacedPC :
       [pc |-> p, of |-> n, view |-> v] \in CallState
  /\ \A o \in Id, p \in {"resume", "fetch"} : [pc |-> p, order |-> o] \in CallState
  /\ \A v \in View : [pc |-> "fetched", view |-> v] \in CallState
  /\ \A o \in Id, n, m \in Nat, k \in Key :
       [pc |-> "leg", order |-> o, amount |-> n, key |-> k, seen |-> m] \in CallState
  /\ \A k \in Key, v \in View : [pc |-> "rung", key |-> k, view |-> v] \in CallState
  <1>1. Idle \in CallState
    BY DEF CallState
  <1>2. \A x \in Content, k \in Key, n \in Nat, b \in BOOLEAN, p \in OutPC :
          [pc |-> p, cart |-> x, key |-> k, of |-> n, split |-> b] \in CallState
    BY DEF CallState, OutPC
  <1>3. \A n \in Nat, v \in View, p \in PlacedPC :
          [pc |-> p, of |-> n, view |-> v] \in CallState
    BY DEF CallState, PlacedPC
  <1>4. \A o \in Id, p \in {"resume", "fetch"} : [pc |-> p, order |-> o] \in CallState
    BY DEF CallState
  <1>5. \A v \in View : [pc |-> "fetched", view |-> v] \in CallState
    BY DEF CallState
  <1>6. \A o \in Id, n, m \in Nat, k \in Key :
          [pc |-> "leg", order |-> o, amount |-> n, key |-> k, seen |-> m] \in CallState
    BY DEF CallState
  <1>7. \A k \in Key, v \in View : [pc |-> "rung", key |-> k, view |-> v] \in CallState
    BY DEF CallState
  <1> QED BY <1>1, <1>2, <1>3, <1>4, <1>5, <1>6, <1>7

\* The orders and their rows.
LEMMA Rows ==
  ASSUME NEW os \in Seq(OrderRow)
  PROVE  /\ DOMAIN os = 1 .. Len(os) /\ Len(os) \in Nat
         /\ \A o \in DOMAIN os :
              /\ o \in Id /\ os[o] \in OrderRow
              /\ os[o].cart \in Content /\ os[o].key \in Key
              /\ os[o].draft \in BOOLEAN /\ os[o].held \in BOOLEAN
              /\ os[o].paid \in Nat /\ os[o].of \in Nat /\ os[o].told \in Nat
              /\ os[o].legs \in Seq(Leg) /\ Len(os[o].legs) \in Nat
              /\ \A i \in 1 .. Len(os[o].legs) :
                   /\ os[o].legs[i] \in Leg
                   /\ os[o].legs[i].key \in Key /\ os[o].legs[i].seen \in Nat
  <1>1. DOMAIN os = 1 .. Len(os) /\ Len(os) \in Nat
    BY LenProperties
  <1>2. ASSUME NEW o \in DOMAIN os
        PROVE  /\ o \in Id /\ os[o] \in OrderRow
               /\ os[o].cart \in Content /\ os[o].key \in Key
               /\ os[o].draft \in BOOLEAN /\ os[o].held \in BOOLEAN
               /\ os[o].paid \in Nat /\ os[o].of \in Nat /\ os[o].told \in Nat
               /\ os[o].legs \in Seq(Leg) /\ Len(os[o].legs) \in Nat
               /\ \A i \in 1 .. Len(os[o].legs) :
                    /\ os[o].legs[i] \in Leg
                    /\ os[o].legs[i].key \in Key /\ os[o].legs[i].seen \in Nat
    <2>1. os[o] \in OrderRow /\ o \in Id
      BY <1>1, ElementOfSeq DEF Id
    <2>2. os[o].legs \in Seq(Leg)
      BY <2>1 DEF OrderRow
    <2>3. Len(os[o].legs) \in Nat /\ \A i \in 1 .. Len(os[o].legs) : os[o].legs[i] \in Leg
      BY <2>2, LenProperties, ElementOfSeq
    <2>4. \A g \in Leg : g.key \in Key /\ g.seen \in Nat
      BY DEF Leg
    <2> QED BY <2>1, <2>2, <2>3, <2>4 DEF OrderRow
  <1> QED BY <1>1, <1>2

\* Row q is row r later on.
Keeps(r, q) ==
  /\ q.cart = r.cart /\ q.key = r.key /\ q.of = r.of
  /\ q.draft => r.draft
  /\ r.told <= q.told
  /\ Len(r.legs) <= Len(q.legs)
  /\ \A i \in 1 .. Len(r.legs) : q.legs[i] = r.legs[i]

\* Orders stay, and their legs only grow at the end.
Grows ==
  /\ orders' \in Seq(OrderRow)
  /\ DOMAIN orders \subseteq DOMAIN orders'
  /\ \A o \in DOMAIN orders : Keeps(orders[o], orders'[o])

\* No leg is recorded and none is shown.
LegsStay ==
  \A o \in DOMAIN orders :
    orders'[o].legs = orders[o].legs /\ orders'[o].told = orders[o].told

\* Nobody pays too much.
Covered(os) == \A o \in DOMAIN os : os[o].paid <= Price[os[o].cart]

\* A step that leaves the orders alone.
LEMMA SameOrders ==
  ASSUME orders \in Seq(OrderRow), UNCHANGED orders
  PROVE  Grows /\ LegsStay /\ (Covered(orders) => Covered(orders'))
  <1>1. \A o \in DOMAIN orders : orders[o].told \in Nat /\ Len(orders[o].legs) \in Nat
    BY Rows
  <1> QED BY <1>1 DEF Grows, Keeps, LegsStay

\* A step that changes one row.
LEMMA OneRow ==
  ASSUME orders \in Seq(OrderRow), NEW o \in DOMAIN orders, NEW r \in OrderRow,
         orders' = [orders EXCEPT ![o] = r], Keeps(orders[o], r)
  PROVE  /\ Grows
         /\ DOMAIN orders' = DOMAIN orders /\ orders'[o] = r
         /\ \A p \in DOMAIN orders \ {o} : orders'[p] = orders[p]
         /\ Covered(orders) /\ r.paid <= Price[r.cart] => Covered(orders')
  <1>1. /\ DOMAIN orders = 1 .. Len(orders) /\ Len(orders) \in Nat
        /\ \A p \in DOMAIN orders : orders[p].told \in Nat /\ Len(orders[p].legs) \in Nat
    BY Rows
  <1>2. orders' \in Seq(OrderRow)
    BY <1>1, ExceptSeq
  <1>3. /\ DOMAIN orders' = DOMAIN orders /\ orders'[o] = r
        /\ \A p \in DOMAIN orders \ {o} : orders'[p] = orders[p]
    OBVIOUS
  <1>4. \A p \in DOMAIN orders : Keeps(orders[p], orders'[p])
    <2>1. TAKE p \in DOMAIN orders
    <2>2. p # o => Keeps(orders[p], orders'[p])
      BY <1>1, <1>3 DEF Keeps
    <2> QED BY <1>3, <2>2
  <1> QED BY <1>2, <1>3, <1>4 DEF Grows, Covered

\* A step that adds a row.
LEMMA NewOrderRow ==
  ASSUME orders \in Seq(OrderRow), NEW r \in OrderRow, orders' = Append(orders, r)
  PROVE  /\ Grows
         /\ DOMAIN orders' = DOMAIN orders \cup {Len(orders) + 1}
         /\ Len(orders) + 1 \in Id /\ Len(orders) + 1 \notin DOMAIN orders
         /\ orders'[Len(orders) + 1] = r
         /\ \A p \in DOMAIN orders : orders'[p] = orders[p]
         /\ Covered(orders) /\ r.paid <= Price[r.cart] => Covered(orders')
  <1>1. /\ DOMAIN orders = 1 .. Len(orders) /\ Len(orders) \in Nat
        /\ \A p \in DOMAIN orders : orders[p].told \in Nat /\ Len(orders[p].legs) \in Nat
    BY Rows
  <1>2. /\ orders' \in Seq(OrderRow) /\ Len(orders') = Len(orders) + 1
        /\ \A p \in 1 .. Len(orders) : orders'[p] = orders[p]
        /\ orders'[Len(orders) + 1] = r
    BY AppendProperties
  <1>3. DOMAIN orders' = 1 .. Len(orders) + 1
    BY <1>2, Rows
  <1>4. /\ DOMAIN orders' = DOMAIN orders \cup {Len(orders) + 1}
        /\ Len(orders) + 1 \in Id /\ Len(orders) + 1 \notin DOMAIN orders
    BY <1>1, <1>3 DEF Id
  <1>5. \A p \in DOMAIN orders : Keeps(orders[p], orders'[p])
    BY <1>1, <1>2 DEF Keeps
  <1> QED BY <1>1, <1>2, <1>4, <1>5 DEF Grows, Covered

-----------------------------------------------------------------------------
(***************************************************************************)
(* Type correctness                                                        *)
(***************************************************************************)

\* What a view shows is there.
Shown(view, os) ==
  /\ view.order \in DOMAIN os
  /\ view.legs <= Len(os[view.order].legs)

\* What a call names is there.
Refers(r, os) ==
  /\ r.pc \in OrderPC => r.order \in DOMAIN os
  /\ r.pc \in ViewPC => Shown(r.view, os)
  /\ r.pc = "rung" => \E i \in 1 .. r.view.legs : os[r.view.order].legs[i].key = r.key

CallsRefer == \A c \in Call : Refers(calls[c], orders)
PanelRefers == panel # None => Shown(panel, orders)
LegKeyRefers == legKey # None => legKey.order \in DOMAIN orders

Typed == TypeOK /\ CallsRefer /\ PanelRefers /\ LegKeyRefers

\* What was there stays there.
LEMMA StillShown ==
  ASSUME orders \in Seq(OrderRow), Grows, NEW v \in View, Shown(v, orders)
  PROVE  Shown(v, orders')
  <1>1. v.legs \in Nat /\ v.order \in DOMAIN orders
    BY DEF View, Shown
  <1>2. Len(orders[v.order].legs) \in Nat /\ Len(orders'[v.order].legs) \in Nat
    BY <1>1, Rows DEF Grows
  <1> QED BY <1>1, <1>2 DEF Shown, Grows, Keeps

\* A call keeps referring to an order that exists: orders only grow.
LEMMA StillRefers ==
  ASSUME orders \in Seq(OrderRow), Grows, NEW r \in CallState, Refers(r, orders)
  PROVE  Refers(r, orders')
  <1>1. r.pc \in OrderPC => r.order \in DOMAIN orders'
    BY DEF Refers, Grows
  <1>2. r.pc \in ViewPC => Shown(r.view, orders')
    BY CallShapes, StillShown DEF Refers
  <1>3. ASSUME r.pc = "rung"
        PROVE  \E i \in 1 .. r.view.legs : orders'[r.view.order].legs[i].key = r.key
    <2>1. r.view \in View /\ Shown(r.view, orders)
      BY <1>3, CallShapes DEF Refers, ViewPC
    <2>2. PICK i \in 1 .. r.view.legs : orders[r.view.order].legs[i].key = r.key
      BY <1>3 DEF Refers
    <2>3. /\ r.view.order \in DOMAIN orders /\ r.view.legs \in Nat
          /\ r.view.legs <= Len(orders[r.view.order].legs)
          /\ Len(orders[r.view.order].legs) \in Nat
      BY <2>1, Rows DEF Shown, View
    <2>4. orders'[r.view.order].legs[i] = orders[r.view.order].legs[i]
      BY <2>2, <2>3 DEF Grows, Keeps
    <2> QED BY <2>2, <2>4
  <1> QED BY <1>1, <1>2, <1>3 DEF Refers

\* Calls stay, or are made anew.
LEMMA CallsMade ==
  ASSUME Typed, Grows, calls' \in [Call -> CallState],
         \A c \in Call : calls'[c] = calls[c] \/ Refers(calls'[c], orders')
  PROVE  CallsRefer'
  <1>1. ASSUME NEW c \in Call, calls'[c] = calls[c]
        PROVE  Refers(calls'[c], orders')
    BY <1>1, StillRefers DEF Typed, TypeOK, CallsRefer
  <1> QED BY <1>1 DEF CallsRefer

\* One call is made, answered or taken.
LEMMA OneCall ==
  ASSUME Typed, Grows, NEW c \in Call, NEW r \in CallState, Refers(r, orders'),
         calls' = [calls EXCEPT ![c] = r]
  PROVE  calls' \in [Call -> CallState] /\ CallsRefer'
  <1>1. calls' \in [Call -> CallState]
    BY DEF Typed, TypeOK
  <1>2. \A d \in Call : calls'[d] = calls[d] \/ Refers(calls'[d], orders')
    BY DEF Typed, TypeOK
  <1> QED BY <1>1, <1>2, CallsMade

\* A call that is over refers to no order.
LEMMA IdleRefers ==
  ASSUME NEW os
  PROVE  Refers(Idle, os)
  BY DEF Refers, Idle, OrderPC, ViewPC

\* Legs rung up for the orders, as the cart and the panel go on.
OrdersTyped == orders \in Seq(OrderRow) /\ Covered(orders)

CartTyped ==
  /\ cart \in Content \cup {None}
  /\ visit \in Nat /\ touched \in BOOLEAN /\ parked \in BOOLEAN

KeysTyped ==
  /\ idemKey \in Key \cup {None}
  /\ legKey \in [order : Id, key : Key] \cup {None} /\ LegKeyRefers
  /\ minted \in Key \cup {0}

PanelTyped ==
  /\ panel \in View \cup {None} /\ PanelRefers
  /\ recorder \in Call \cup {None}

CallsTyped ==
  /\ calls \in [Call -> CallState] /\ CallsRefer
  /\ gone \subseteq Call

RestTyped ==
  /\ blind \subseteq DOMAIN orders
  /\ faults \in 0 .. MaxFaults

\* Well-formedness, part by part.
LEMMA Parts ==
  Typed <=> /\ OrdersTyped /\ CartTyped /\ KeysTyped /\ PanelTyped
            /\ CallsTyped /\ RestTyped
  BY DEF Typed, TypeOK, OrdersTyped, Covered, CartTyped, KeysTyped, PanelTyped,
         CallsTyped, RestTyped

\* The parts of the type make up the type.
LEMMA PartsNext ==
  ASSUME OrdersTyped', CartTyped', KeysTyped', PanelTyped', CallsTyped', RestTyped'
  PROVE  Typed'
  BY DEF Typed, TypeOK, OrdersTyped, Covered, CartTyped, KeysTyped, PanelTyped,
         CallsTyped, RestTyped

\* Parts a step leaves alone.
LEMMA PartsKept ==
  ASSUME Typed, Grows
  PROVE  /\ UNCHANGED <<cart, visit, touched, parked>> => CartTyped'
         /\ UNCHANGED <<idemKey, legKey, minted>> => KeysTyped'
         /\ UNCHANGED <<panel, recorder>> => PanelTyped'
         /\ UNCHANGED <<blind, faults>> => RestTyped'
         /\ UNCHANGED <<calls, gone>> => CallsTyped'
  <1>1. UNCHANGED <<cart, visit, touched, parked>> => CartTyped'
    BY Parts DEF CartTyped
  <1>2. UNCHANGED <<idemKey, legKey, minted>> => KeysTyped'
    BY Parts DEF KeysTyped, LegKeyRefers, Grows
  <1>3. UNCHANGED <<panel, recorder>> => PanelTyped'
    BY Parts, StillShown DEF PanelTyped, PanelRefers, OrdersTyped
  <1>4. UNCHANGED <<blind, faults>> => RestTyped'
    BY Parts DEF RestTyped, Grows
  <1>5. UNCHANGED <<calls, gone>> => CallsTyped'
    BY Parts, CallsMade DEF CallsTyped
  <1> QED BY <1>1, <1>2, <1>3, <1>4, <1>5

\* The view of an order as it now is.
LEMMA ShotShows ==
  ASSUME NEW os \in Seq(OrderRow), NEW o \in DOMAIN os
  PROVE  /\ Shot(o, os[o]) \in View
         /\ Shown(Shot(o, os[o]), os)
         /\ Shot(o, os[o]).order = o
         /\ Shot(o, os[o]).legs = Len(os[o].legs)
         /\ Shot(o, os[o]).draft = os[o].draft
  <1>1. /\ o \in Id /\ os[o].draft \in BOOLEAN /\ os[o].paid \in Nat
        /\ Len(os[o].legs) \in Nat
    BY Rows
  <1> QED BY <1>1 DEF Shot, View, Shown

\* The API answers.
LEMMA AnswerTyped ==
  ASSUME Typed, Grows, OrdersTyped', NEW c \in Call, NEW r \in CallState,
         Refers(r, orders'), Answer(c, r)
  PROVE  Typed'
  <1>1. CASE c \in gone
    <2>1. calls' = [calls EXCEPT ![c] = Idle] /\ gone' = gone \ {c}
      BY <1>1 DEF Answer
    <2>2. CallsTyped'
      BY <2>1, OneCall, IdleRefers, CallsAreMade, Parts DEF CallsTyped
    <2> QED BY <2>2, PartsKept, PartsNext DEF Answer, keys, page, attempt
  <1>2. CASE c \notin gone
    <2>1. calls' = [calls EXCEPT ![c] = r] /\ gone' = gone \ {c}
      BY <1>2 DEF Answer
    <2>2. CallsTyped'
      BY <2>1, OneCall, Parts DEF CallsTyped
    <2> QED BY <2>2, PartsKept, PartsNext DEF Answer, keys, page, attempt
  <1> QED BY <1>1, <1>2

\* A request that rings up a new order, or finds the order of its key.
LEMMA CreateTyped ==
  ASSUME Typed, NEW c \in Call, ServeCreate(c)
  PROVE  /\ Typed' /\ Grows /\ LegsStay
         /\ calls[c].pc \in OutPC
         /\ \E o \in DOMAIN orders' :
              /\ orders'[o].key = calls[c].key
              /\ \/ o \in DOMAIN orders /\ UNCHANGED orders
                 \/ /\ DOMAIN orders' = DOMAIN orders \cup {o} /\ o \notin DOMAIN orders
                    /\ \A p \in DOMAIN orders : orders'[p] = orders[p] /\ orders[p].key # calls[c].key
                    /\ orders'[o] = NewRow(calls[c])
              /\ Answer(c, [pc |-> IF calls[c].pc = "hold" THEN "held" ELSE "charged",
                            of |-> calls[c].of, view |-> Shot(o, orders'[o])])
  <1> DEFINE r == calls[c]
             a(o, row) == [pc |-> IF r.pc = "hold" THEN "held" ELSE "charged",
                           of |-> r.of, view |-> Shot(o, row)]
  <1>1. /\ orders \in Seq(OrderRow) /\ r \in CallState /\ r.pc \in OutPC
        /\ r.cart \in Content /\ r.key \in Key /\ r.of \in Nat /\ r.split \in BOOLEAN
    <2>1. orders \in Seq(OrderRow) /\ r \in CallState /\ r.pc \in OutPC
      BY DEF ServeCreate, Typed, TypeOK, OutPC
    <2> QED BY <2>1, CallShapes
  <1>2. ASSUME NEW os \in Seq(OrderRow), NEW o \in DOMAIN os
        PROVE  a(o, os[o]) \in CallState /\ Refers(a(o, os[o]), os)
    <2>1. a(o, os[o]).pc \in PlacedPC /\ a(o, os[o]).view = Shot(o, os[o])
      BY DEF PlacedPC
    <2>2. a(o, os[o]) \in CallState
      BY <1>1, <2>1, ShotShows, CallsAreMade
    <2> QED BY <2>1, <2>2, ShotShows DEF Refers, PlacedPC, ViewPC, OrderPC
  <1>3. CASE \E o \in DOMAIN orders :
               orders[o].key = r.key /\ Answer(c, a(o, orders[o])) /\ UNCHANGED orders
    <2>1. PICK o \in DOMAIN orders :
            orders[o].key = r.key /\ Answer(c, a(o, orders[o])) /\ UNCHANGED orders
      BY <1>3
    <2>2. Grows /\ LegsStay /\ OrdersTyped'
      BY <1>1, <2>1, SameOrders, Parts DEF OrdersTyped
    <2>3. a(o, orders[o]) \in CallState /\ Refers(a(o, orders[o]), orders')
      BY <1>1, <1>2, <2>1
    <2>4. Typed'
      BY <2>1, <2>2, <2>3, AnswerTyped
    <2> QED BY <1>1, <2>1, <2>2, <2>4
  <1>4. CASE /\ \A o \in DOMAIN orders : orders[o].key # r.key
             /\ orders' = Append(orders, NewRow(r))
             /\ Answer(c, a(Len(orders) + 1, NewRow(r)))
    <2>1. /\ NewRow(r) \in OrderRow /\ NewRow(r).paid <= Price[NewRow(r).cart]
          /\ NewRow(r).key = r.key
      <3>1. Price[r.cart] \in Nat
        BY <1>1, TillAssumption
      <3>2. <<>> \in Seq(Leg)
        OBVIOUS
      <3> QED BY <1>1, <3>1, <3>2 DEF NewRow, OrderRow
    <2>2. /\ Grows /\ OrdersTyped'
          /\ DOMAIN orders' = DOMAIN orders \cup {Len(orders) + 1}
          /\ Len(orders) + 1 \notin DOMAIN orders
          /\ orders'[Len(orders) + 1] = NewRow(r)
          /\ \A p \in DOMAIN orders : orders'[p] = orders[p]
      BY <1>1, <1>4, <2>1, NewOrderRow, Parts DEF OrdersTyped, Grows
    <2>3. LegsStay
      BY <2>2 DEF LegsStay
    <2>4. /\ a(Len(orders) + 1, orders'[Len(orders) + 1]) \in CallState
          /\ Refers(a(Len(orders) + 1, orders'[Len(orders) + 1]), orders')
      BY <1>2, <2>2 DEF Grows
    <2>5. Typed'
      BY <1>4, <2>2, <2>4, AnswerTyped
    <2> QED BY <1>1, <1>4, <2>1, <2>2, <2>3, <2>5
  <1> QED BY <1>3, <1>4 DEF ServeCreate

\* A row that is placed, or paid, and no more.
LEMMA RowTouched ==
  ASSUME Typed, NEW o \in DOMAIN orders, NEW r \in OrderRow,
         orders' = [orders EXCEPT ![o] = r],
         r.cart = orders[o].cart, r.key = orders[o].key, r.of = orders[o].of,
         r.draft => orders[o].draft, r.legs = orders[o].legs, r.told = orders[o].told,
         r.paid <= Price[r.cart]
  PROVE  /\ Grows /\ LegsStay /\ OrdersTyped'
         /\ DOMAIN orders' = DOMAIN orders
         /\ orders'[o] = r
         /\ \A p \in DOMAIN orders \ {o} : orders'[p] = orders[p]
  <1>1. orders \in Seq(OrderRow) /\ Covered(orders)
    BY Parts DEF OrdersTyped
  <1>2. orders[o].told \in Nat /\ Len(orders[o].legs) \in Nat
    BY <1>1, Rows
  <1>3. Keeps(orders[o], r)
    BY <1>2 DEF Keeps
  <1>4. /\ Grows /\ DOMAIN orders' = DOMAIN orders /\ orders'[o] = r
        /\ \A p \in DOMAIN orders \ {o} : orders'[p] = orders[p]
    BY <1>1, <1>3, OneRow
  <1>5. Covered(orders')
    BY <1>1, <1>3, OneRow
  <1> QED BY <1>1, <1>4, <1>5 DEF LegsStay, OrdersTyped, Grows

\* The answer to a resume sends the till to fetch the order.
LEMMA ResumeServed ==
  ASSUME Typed, NEW c \in Call, ServeResume(c)
  PROVE  /\ Typed' /\ Grows /\ LegsStay
         /\ DOMAIN orders' = DOMAIN orders
         /\ calls[c].pc = "resume"
         /\ \E r \in CallState : r.pc = "fetch" /\ Answer(c, r)
  <1> DEFINE o == calls[c].order
             r == [calls[c] EXCEPT !.pc = "fetch"]
             q == [orders[o] EXCEPT !.draft = FALSE]
  <1>1. /\ orders \in Seq(OrderRow) /\ calls[c] \in CallState /\ calls[c].pc = "resume"
        /\ Covered(orders)
    BY Parts DEF ServeResume, OrdersTyped, CallsTyped
  <1>2. o \in DOMAIN orders
    BY <1>1, Parts DEF CallsTyped, CallsRefer, Refers, OrderPC
  <1>3. q \in OrderRow /\ orders[o] \in OrderRow /\ o \in Id
    <2>1. orders[o] \in OrderRow /\ o \in Id
      BY <1>1, <1>2, Rows
    <2>2. \A row \in OrderRow : [row EXCEPT !.draft = FALSE] \in OrderRow
      BY DEF OrderRow
    <2> QED BY <2>1, <2>2
  <1>4. /\ q.cart = orders[o].cart /\ q.key = orders[o].key /\ q.of = orders[o].of
        /\ q.draft = FALSE /\ q.legs = orders[o].legs /\ q.told = orders[o].told
        /\ q.paid <= Price[q.cart] /\ orders' = [orders EXCEPT ![o] = q]
    BY <1>1, <1>2, <1>3 DEF ServeResume, Covered, OrderRow
  <1>5. Grows /\ LegsStay /\ OrdersTyped' /\ DOMAIN orders' = DOMAIN orders
    BY <1>2, <1>3, <1>4, RowTouched
  <1>6. r = [pc |-> "fetch", order |-> o]
    BY <1>1 DEF CallState, Idle
  <1>7. r \in CallState /\ Refers(r, orders') /\ r.pc = "fetch" /\ Answer(c, r)
    BY <1>2, <1>3, <1>5, <1>6, CallsAreMade DEF Refers, OrderPC, ViewPC, ServeResume
  <1>8. Typed'
    BY <1>5, <1>7, AnswerTyped
  <1> QED BY <1>1, <1>5, <1>7, <1>8

\* The answer to a fetch is a view of the order.
LEMMA FetchServed ==
  ASSUME Typed, NEW c \in Call, ServeFetch(c)
  PROVE  /\ Typed' /\ Grows /\ LegsStay
         /\ UNCHANGED orders
         /\ calls[c].pc = "fetch"
         /\ \E r \in CallState : r.pc = "fetched" /\ Answer(c, r)
  <1> DEFINE o == calls[c].order
             r == [pc |-> "fetched", view |-> Shot(o, orders[o])]
  <1>1. /\ orders \in Seq(OrderRow) /\ calls[c].pc = "fetch" /\ Covered(orders)
        /\ UNCHANGED orders /\ Answer(c, r)
    BY Parts DEF ServeFetch, OrdersTyped
  <1>2. o \in DOMAIN orders
    BY <1>1, Parts DEF CallsTyped, CallsRefer, Refers, OrderPC
  <1>3. Grows /\ LegsStay /\ OrdersTyped'
    BY <1>1, SameOrders DEF OrdersTyped
  <1>4. r \in CallState /\ r.pc = "fetched"
    BY <1>1, <1>2, ShotShows, CallsAreMade
  <1>5. Refers(r, orders')
    BY <1>1, <1>2, ShotShows DEF Refers, OrderPC, ViewPC
  <1>6. Typed'
    BY <1>1, <1>3, <1>4, <1>5, AnswerTyped
  <1> QED BY <1>1, <1>3, <1>4, <1>6

\* Is there a leg of order o under key k?
Known(o, k) == \E i \in 1 .. Len(orders[o].legs) : orders[o].legs[i].key = k

\* What answers a leg.
RungView(r) == [pc |-> "rung", key |-> r.key, view |-> Shot(r.order, orders'[r.order])]

\* A request that rings up a leg, or finds the leg of its key.
LEMMA LegServed ==
  ASSUME Typed, NEW c \in Call, ServeLeg(c)
  PROVE  /\ Typed' /\ Grows
         /\ calls[c].pc = "leg" /\ calls[c].order \in DOMAIN orders
         /\ Answer(c, RungView(calls[c]))
         /\ DOMAIN orders' = DOMAIN orders
         /\ \A p \in DOMAIN orders \ {calls[c].order} : orders'[p] = orders[p]
         /\ orders'[calls[c].order].told = orders[calls[c].order].told
         /\ \/ Known(calls[c].order, calls[c].key) /\ UNCHANGED orders
            \/ /\ ~Known(calls[c].order, calls[c].key)
               /\ orders'[calls[c].order].legs =
                    Append(orders[calls[c].order].legs,
                           [key |-> calls[c].key, seen |-> calls[c].seen])
  <1> DEFINE r == calls[c]
             o == calls[c].order
             g == [key |-> r.key, seen |-> r.seen]
             q == [orders[o] EXCEPT !.paid = @ + r.amount, !.legs = Append(@, g)]
             a(row) == [pc |-> "rung", key |-> r.key, view |-> Shot(o, row)]
  <1>1. /\ orders \in Seq(OrderRow) /\ r \in CallState /\ r.pc = "leg" /\ Covered(orders)
    BY Parts DEF ServeLeg, OrdersTyped, CallsTyped
  <1>2. o \in DOMAIN orders
    BY <1>1, Parts DEF CallsTyped, CallsRefer, Refers, OrderPC
  <1>3. r.amount \in Nat /\ r.key \in Key /\ r.seen \in Nat /\ g \in Leg
    BY <1>1, CallShapes DEF Leg
  <1>4. \A os \in Seq(OrderRow) : o \in DOMAIN os => a(os[o]) \in CallState
    BY <1>3, ShotShows, CallsAreMade
  <1>5. CASE Known(o, r.key) /\ UNCHANGED orders /\ Answer(c, a(orders[o]))
    <2>1. Grows /\ OrdersTyped'
      BY <1>1, <1>5, SameOrders DEF OrdersTyped
    <2>2. a(orders[o]) \in CallState
      BY <1>1, <1>2, <1>4
    <2>3. Refers(a(orders[o]), orders')
      <3>1. PICK i \in 1 .. Len(orders[o].legs) : orders[o].legs[i].key = r.key
        BY <1>5 DEF Known
      <3>2. Shown(Shot(o, orders[o]), orders) /\ Shot(o, orders[o]).order = o
            /\ Shot(o, orders[o]).legs = Len(orders[o].legs)
        BY <1>1, <1>2, ShotShows
      <3>3. \E j \in 1 .. Shot(o, orders[o]).legs :
              orders'[Shot(o, orders[o]).order].legs[j].key = r.key
        BY <1>5, <3>1, <3>2
      <3> QED BY <1>5, <3>2, <3>3 DEF Refers, OrderPC, ViewPC
    <2>4. Typed'
      BY <1>5, <2>1, <2>2, <2>3, AnswerTyped
    <2> QED BY <1>1, <1>2, <1>5, <2>1, <2>4 DEF RungView
  <1>6. CASE /\ ~Known(o, r.key) /\ r.amount <= Outstanding(o)
             /\ orders' = [orders EXCEPT ![o] = q] /\ Answer(c, a(q))
    <2>1. /\ orders[o] \in OrderRow /\ orders[o].legs \in Seq(Leg)
          /\ Len(orders[o].legs) \in Nat /\ orders[o].paid \in Nat
          /\ orders[o].told \in Nat /\ orders[o].cart \in Content
      BY <1>1, <1>2, Rows
    <2>2. /\ Append(orders[o].legs, g) \in Seq(Leg)
          /\ Len(Append(orders[o].legs, g)) = Len(orders[o].legs) + 1
          /\ \A i \in 1 .. Len(orders[o].legs) : Append(orders[o].legs, g)[i] = orders[o].legs[i]
          /\ Append(orders[o].legs, g)[Len(orders[o].legs) + 1] = g
      BY <1>3, <2>1, AppendProperties
    <2>3. /\ q.cart = orders[o].cart /\ q.key = orders[o].key /\ q.of = orders[o].of
          /\ q.draft = orders[o].draft /\ q.told = orders[o].told
          /\ q.paid = orders[o].paid + r.amount /\ q.legs = Append(orders[o].legs, g)
      BY <2>1 DEF OrderRow
    <2>4. q \in OrderRow
      <3>1. \A row \in OrderRow, n \in Nat, w \in Seq(Leg) :
              [row EXCEPT !.paid = n, !.legs = w] \in OrderRow
        BY DEF OrderRow
      <3>2. q = [orders[o] EXCEPT !.paid = orders[o].paid + r.amount,
                                  !.legs = Append(orders[o].legs, g)]
        OBVIOUS
      <3>3. orders[o].paid + r.amount \in Nat
        BY <1>3, <2>1
      <3> QED BY <2>1, <2>2, <3>1, <3>2, <3>3
    <2>5. q.paid <= Price[q.cart]
      BY <1>3, <1>6, <2>1, <2>3, TillAssumption DEF Outstanding
    <2> HIDE DEF q
    <2>6. Keeps(orders[o], q)
      <3>1. q.draft => orders[o].draft
        BY <2>3
      <3>2. /\ Len(orders[o].legs) <= Len(q.legs)
            /\ \A i \in 1 .. Len(orders[o].legs) : q.legs[i] = orders[o].legs[i]
        BY <2>1, <2>2, <2>3
      <3>3. orders[o].told <= q.told
        BY <2>1, <2>3
      <3> QED BY <2>3, <3>1, <3>2, <3>3 DEF Keeps
    <2>7. /\ Grows /\ Covered(orders')
          /\ DOMAIN orders' = DOMAIN orders /\ orders'[o] = q
          /\ \A p \in DOMAIN orders \ {o} : orders'[p] = orders[p]
      BY <1>1, <1>2, <1>6, <2>4, <2>5, <2>6, OneRow
    <2>8. OrdersTyped'
      BY <2>7 DEF OrdersTyped, Grows
    <2>9. a(orders'[o]) \in CallState
      BY <1>2, <1>4, <2>7 DEF Grows
    <2>10. Refers(a(orders'[o]), orders')
      <3>1. /\ Shown(Shot(o, orders'[o]), orders') /\ Shot(o, orders'[o]).order = o
            /\ Shot(o, orders'[o]).legs = Len(orders'[o].legs)
        BY <1>2, <2>7, ShotShows DEF Grows
      <3>2. /\ Len(orders'[o].legs) = Len(orders[o].legs) + 1
            /\ orders'[o].legs[Len(orders[o].legs) + 1].key = r.key
        BY <2>2, <2>3, <2>7
      <3>3. \E j \in 1 .. Shot(o, orders'[o]).legs :
              orders'[Shot(o, orders'[o]).order].legs[j].key = r.key
        <4>1. Len(orders[o].legs) + 1 \in 1 .. Shot(o, orders'[o]).legs
          BY <2>1, <3>1, <3>2
        <4> QED BY <3>1, <3>2, <4>1
      <3> QED BY <3>1, <3>3 DEF Refers, OrderPC, ViewPC
    <2>11. Typed'
      BY <1>6, <2>7, <2>8, <2>9, <2>10, AnswerTyped
    <2> QED BY <1>1, <1>2, <1>6, <2>3, <2>7, <2>11 DEF RungView
  <1> QED BY <1>5, <1>6 DEF ServeLeg, Known

\* Another till places or pays an order.
LEMMA ElsewhereTyped ==
  ASSUME Typed, NEW o \in DOMAIN orders,
         PlaceElsewhere(o) \/ \E a \in 1 .. Outstanding(o) : PayElsewhere(o, a)
  PROVE  /\ Typed' /\ Grows /\ LegsStay
         /\ DOMAIN orders' = DOMAIN orders
         /\ UNCHANGED <<cart, keys, page, calls, gone, attempt, blind, faults>>
  <1>1. orders \in Seq(OrderRow) /\ Covered(orders)
    BY Parts DEF OrdersTyped
  <1>2. /\ orders[o] \in OrderRow /\ orders[o].paid \in Nat /\ orders[o].cart \in Content
        /\ orders[o].paid <= Price[orders[o].cart]
    BY <1>1, Rows DEF Covered
  <1>3. /\ UNCHANGED <<cart, keys, page, calls, gone, attempt, blind, faults>>
        /\ Grows /\ LegsStay /\ OrdersTyped' /\ DOMAIN orders' = DOMAIN orders
    <2>1. CASE PlaceElsewhere(o)
      <3> DEFINE q == [orders[o] EXCEPT !.draft = FALSE]
      <3>1. \A row \in OrderRow : [row EXCEPT !.draft = FALSE] \in OrderRow
        BY DEF OrderRow
      <3>2. /\ q.cart = orders[o].cart /\ q.key = orders[o].key /\ q.of = orders[o].of
            /\ q.draft = FALSE /\ q.legs = orders[o].legs /\ q.told = orders[o].told
            /\ q.paid = orders[o].paid /\ orders' = [orders EXCEPT ![o] = q]
        BY <1>2, <2>1 DEF OrderRow, PlaceElsewhere
      <3> QED BY <1>2, <2>1, <3>1, <3>2, RowTouched DEF PlaceElsewhere
    <2>2. CASE \E a \in 1 .. Outstanding(o) : PayElsewhere(o, a)
      <3>1. PICK a \in 1 .. Outstanding(o) : PayElsewhere(o, a)
        BY <2>2
      <3> DEFINE q == [orders[o] EXCEPT !.paid = @ + a]
      <3>2. \A row \in OrderRow, n \in Nat : [row EXCEPT !.paid = n] \in OrderRow
        BY DEF OrderRow
      <3>3. /\ q.cart = orders[o].cart /\ q.key = orders[o].key /\ q.of = orders[o].of
            /\ q.draft = orders[o].draft /\ q.legs = orders[o].legs
            /\ q.told = orders[o].told
            /\ q.paid = orders[o].paid + a /\ orders' = [orders EXCEPT ![o] = q]
        BY <1>2, <3>1 DEF OrderRow, PayElsewhere
      <3>4. a \in Nat /\ Price[orders[o].cart] \in Nat /\ a <= Price[orders[o].cart] - orders[o].paid
        BY <1>2, <3>1, TillAssumption DEF Outstanding
      <3>5. orders[o].paid + a \in Nat /\ orders[o].paid + a <= Price[orders[o].cart]
        BY <1>2, <3>4
      <3>6. q \in OrderRow
        BY <1>2, <3>2, <3>5
      <3> HIDE DEF q
      <3>7. Grows /\ LegsStay /\ OrdersTyped' /\ DOMAIN orders' = DOMAIN orders
        BY <3>3, <3>5, <3>6, RowTouched
      <3> QED BY <3>1, <3>7 DEF PayElsewhere
    <2> QED BY <2>1, <2>2
  <1>4. Typed'
    BY <1>3, PartsKept, PartsNext DEF keys, page, attempt
  <1> QED BY <1>3, <1>4

\* Calls that stay or end leave the calls well formed.
LEMMA CallsEnd ==
  ASSUME Typed, Grows, DOMAIN calls' = Call, calls' = [d \in Call |-> calls'[d]],
         \A d \in Call : calls'[d] = calls[d] \/ calls'[d] = Idle, gone' \subseteq Call
  PROVE  CallsTyped'
  <1>1. calls' \in [Call -> CallState]
    BY CallsAreMade, Parts DEF CallsTyped
  <1>2. \A d \in Call : calls'[d] = calls[d] \/ Refers(calls'[d], orders')
    BY IdleRefers
  <1> QED BY <1>1, <1>2, CallsMade DEF CallsTyped

\* A call fails.
LEMMA FailTyped ==
  ASSUME Typed, NEW c \in Call, FailCall(c)
  PROVE  /\ Typed'
         /\ \A d \in Call : calls'[d] = calls[d] \/ calls'[d] = Idle
  <1>1. calls \in [Call -> CallState] /\ gone \subseteq Call /\ orders \in Seq(OrderRow)
    BY Parts DEF CallsTyped, OrdersTyped
  <1>2. Grows /\ OrdersTyped'
    BY <1>1, SameOrders, Parts DEF FailCall, OrdersTyped
  <1>3. /\ DOMAIN calls' = Call /\ calls' = [d \in Call |-> calls'[d]]
        /\ \A d \in Call : calls'[d] = calls[d] \/ calls'[d] = Idle
        /\ gone' \subseteq Call
    BY <1>1 DEF FailCall
  <1>4. CallsTyped'
    BY <1>2, <1>3, CallsEnd
  <1>5. CartTyped' /\ KeysTyped'
    BY <1>2, PartsKept DEF FailCall, keys, attempt
  <1>6. PanelTyped'
    <2>1. UNCHANGED panel /\ recorder' \in {recorder, None}
      BY DEF FailCall
    <2>2. PanelRefers'
      BY <1>2, <2>1, StillShown, Parts DEF PanelTyped, PanelRefers, OrdersTyped
    <2> QED BY <2>1, <2>2, Parts DEF PanelTyped
  <1>7. RestTyped'
    BY <1>2, Parts, TillAssumption DEF FailCall, RestTyped, Grows
  <1> QED BY <1>2, <1>3, <1>4, <1>5, <1>6, <1>7, PartsNext

\* Editing the cart keeps the types.
LEMMA EditTyped ==
  ASSUME Typed, NEW x \in Content \cup {None}, Edit(x)
  PROVE  Typed'
  <1>1. Grows /\ OrdersTyped'
    BY SameOrders, Parts DEF Edit, OrdersTyped
  <1>2. CartTyped'
    BY Parts DEF Edit, CartTyped
  <1> QED BY <1>1, <1>2, PartsKept, PartsNext DEF Edit, keys, page

\* The cart goes out.
LEMMA SendTyped ==
  ASSUME Typed, NEW c \in Call, NEW pc \in OutPC, NEW split \in BOOLEAN,
         Send(c, pc, split), parked' \in BOOLEAN
  PROVE  /\ Typed'
         /\ cart \in Content /\ OrderKey \in Key /\ idemKey' = OrderKey
         /\ minted' = IF OrderKey > minted THEN OrderKey ELSE minted
         /\ calls' = [calls EXCEPT ![c] = [pc |-> pc, cart |-> cart, key |-> OrderKey,
                                          of |-> visit, split |-> split]]
  <1> DEFINE r == [pc |-> pc, cart |-> cart, key |-> OrderKey, of |-> visit, split |-> split]
  <1>1. /\ cart \in Content /\ OrderKey \in Key /\ idemKey' = OrderKey
        /\ minted' = IF OrderKey > minted THEN OrderKey ELSE minted
        /\ calls' = [calls EXCEPT ![c] = r] /\ visit \in Nat
        /\ UNCHANGED <<orders, cart, legKey, page, gone, visit, touched, blind, faults>>
    BY Parts DEF Send, CartTyped
  <1>2. Grows /\ OrdersTyped'
    BY <1>1, SameOrders, Parts DEF OrdersTyped
  <1>3. r \in CallState
    BY <1>1, CallsAreMade
  <1>4. Refers(r, orders')
    BY DEF Refers, OutPC, OrderPC, ViewPC
  <1>5. CallsTyped'
    BY <1>1, <1>2, <1>3, <1>4, OneCall, Parts DEF CallsTyped
  <1>6. KeysTyped'
    BY <1>1, Parts DEF KeysTyped, LegKeyRefers
  <1>7. CartTyped'
    BY <1>1, Parts DEF CartTyped
  <1>8. Typed'
    BY <1>1, <1>2, <1>5, <1>6, <1>7, PartsKept, PartsNext DEF page
  <1> QED BY <1>1, <1>8

\* The cart starts afresh.
LEMMA ClearTyped ==
  ASSUME Typed, Clear
  PROVE  CartTyped' /\ idemKey' = None
  <1>1. visit \in Nat
    BY Parts DEF CartTyped
  <1>2. cart' = None /\ visit' = visit + 1 /\ idemKey' = None
    BY DEF Clear
  <1>3. touched' \in BOOLEAN /\ parked' \in BOOLEAN
    BY DEF Clear
  <1> QED BY <1>1, <1>2, <1>3 DEF CartTyped

\* Clearing the cart by hand keeps the types.
LEMMA ClearTapTyped ==
  ASSUME Typed, ClearTap
  PROVE  Typed'
  <1>1. Grows /\ OrdersTyped'
    BY SameOrders, Parts DEF ClearTap, OrdersTyped
  <1>2. CartTyped' /\ idemKey' = None
    BY ClearTyped DEF ClearTap
  <1>3. KeysTyped'
    BY <1>2, Parts DEF ClearTap, KeysTyped, LegKeyRefers
  <1> QED BY <1>1, <1>2, <1>3, PartsKept, PartsNext DEF ClearTap, page

\* An answer is taken from its call.
LEMMA AnsweredCalls ==
  ASSUME Typed, Grows, NEW c \in Call, Answered(c)
  PROVE  /\ CallsTyped'
         /\ calls'[c] = Idle /\ \A d \in Call \ {c} : calls'[d] = calls[d]
         /\ UNCHANGED <<gone, minted, faults>>
  <1>1. calls' = [calls EXCEPT ![c] = Idle] /\ UNCHANGED <<gone, minted, faults>>
    BY DEF Answered
  <1>2. CallsTyped'
    BY <1>1, OneCall, IdleRefers, CallsAreMade, Parts DEF CallsTyped
  <1>3. calls \in [Call -> CallState]
    BY Parts DEF CallsTyped
  <1> QED BY <1>1, <1>2, <1>3

\* The panel shows a view.
LEMMA ShowTyped ==
  ASSUME Typed, NEW c \in Call, NEW v \in View, Shown(v, orders), Show(c, v)
  PROVE  /\ Grows /\ OrdersTyped' /\ PanelTyped'
         /\ panel' = v
         /\ DOMAIN orders' = DOMAIN orders
         /\ \A p \in DOMAIN orders :
              /\ orders'[p].legs = orders[p].legs /\ orders'[p].draft = orders[p].draft
              /\ orders'[p].told = IF p = v.order /\ orders[p].told < v.legs
                                     THEN v.legs ELSE orders[p].told
  <1> DEFINE o == v.order
             n == IF orders[o].told < v.legs THEN v.legs ELSE orders[o].told
             q == [orders[o] EXCEPT !.told = n]
  <1>1. /\ orders \in Seq(OrderRow) /\ Covered(orders)
        /\ o \in DOMAIN orders /\ v.legs \in Nat
        /\ panel' = v /\ recorder' \in Call \cup {None}
    BY Parts DEF OrdersTyped, PanelTyped, Shown, View, Show
  <1>2. /\ orders[o] \in OrderRow /\ orders[o].told \in Nat /\ Len(orders[o].legs) \in Nat
        /\ orders[o].draft \in BOOLEAN /\ orders[o].paid <= Price[orders[o].cart]
    BY <1>1, Rows DEF Covered
  <1>3. /\ q.cart = orders[o].cart /\ q.key = orders[o].key /\ q.of = orders[o].of
        /\ q.draft = orders[o].draft /\ q.legs = orders[o].legs
        /\ q.paid = orders[o].paid /\ q.told = n
    BY <1>2 DEF OrderRow
  <1>4. n \in Nat /\ orders[o].told <= n
    BY <1>1, <1>2
  <1>5. q \in OrderRow
    <2>1. \A row \in OrderRow, m \in Nat : [row EXCEPT !.told = m] \in OrderRow
      BY DEF OrderRow
    <2> QED BY <1>2, <1>4, <2>1
  <1>6. orders' = [orders EXCEPT ![o] = q]
    BY <1>1 DEF Show
  <1> HIDE DEF q
  <1>7. Keeps(orders[o], q)
    <2>1. q.draft => orders[o].draft
      BY <1>3
    <2>2. Len(orders[o].legs) <= Len(q.legs) /\ orders[o].told <= q.told
      BY <1>2, <1>3, <1>4
    <2> QED BY <1>3, <2>1, <2>2 DEF Keeps
  <1>8. /\ Grows /\ DOMAIN orders' = DOMAIN orders /\ orders'[o] = q
        /\ \A p \in DOMAIN orders \ {o} : orders'[p] = orders[p]
    BY <1>1, <1>5, <1>6, <1>7, OneRow
  <1>9. Covered(orders')
    BY <1>1, <1>2, <1>3, <1>5, <1>6, <1>7, OneRow
  <1>10. OrdersTyped'
    BY <1>8, <1>9 DEF OrdersTyped, Grows
  <1>11. PanelTyped'
    BY <1>1, <1>8, StillShown DEF PanelTyped, PanelRefers
  <1> QED BY <1>1, <1>3, <1>8, <1>10, <1>11

\* What the taken calls carried.
LEMMA Viewed ==
  ASSUME Typed, NEW c \in Call, calls[c].pc \in ViewPC
  PROVE  calls[c].view \in View /\ Shown(calls[c].view, orders)
  BY Parts, CallShapes DEF CallsTyped, CallsRefer, Refers

\* Taking the answer to a charge keeps the types.
LEMMA ChargedTyped ==
  ASSUME Typed, NEW c \in Call, TakeCharged(c)
  PROVE  Typed'
  <1>1. calls[c].view \in View /\ Shown(calls[c].view, orders)
    BY Viewed DEF TakeCharged, ViewPC
  <1>2. Grows /\ OrdersTyped' /\ PanelTyped' /\ DOMAIN orders' = DOMAIN orders
    BY <1>1, ShowTyped DEF TakeCharged
  <1>3. CallsTyped' /\ UNCHANGED <<gone, minted, faults>>
    BY <1>2, AnsweredCalls DEF TakeCharged
  <1>4. CartTyped' /\ idemKey' = None
    BY ClearTyped DEF TakeCharged
  <1>5. KeysTyped'
    BY <1>2, <1>3, <1>4, Parts DEF TakeCharged, KeysTyped, LegKeyRefers
  <1>6. RestTyped'
    BY <1>1, <1>2, <1>3, Parts DEF TakeCharged, RestTyped, Behind, Shown
  <1> QED BY <1>2, <1>3, <1>4, <1>5, <1>6, PartsNext

\* Taking the answer to a hold keeps the types.
LEMMA HeldTyped ==
  ASSUME Typed, NEW c \in Call, TakeHeld(c)
  PROVE  Typed'
  <1>1. Grows /\ OrdersTyped'
    BY SameOrders, Parts DEF TakeHeld, OrdersTyped
  <1>2. CallsTyped' /\ UNCHANGED <<gone, minted, faults>>
    BY <1>1, AnsweredCalls DEF TakeHeld
  <1>3. CartTyped' /\ idemKey' = None
    BY ClearTyped DEF TakeHeld
  <1>4. KeysTyped'
    BY <1>2, <1>3, Parts DEF TakeHeld, KeysTyped, LegKeyRefers
  <1> QED BY <1>1, <1>2, <1>3, <1>4, PartsKept, PartsNext DEF TakeHeld, page

\* Asking to resume a held order keeps the types.
LEMMA ResumeTyped ==
  ASSUME Typed, NEW c \in Call, NEW o \in DOMAIN orders, Resume(c, o)
  PROVE  Typed'
  <1> DEFINE r == [pc |-> "resume", order |-> o]
  <1>1. Grows /\ OrdersTyped'
    BY SameOrders, Parts DEF Resume, OrdersTyped
  <1>2. o \in Id
    BY Rows, Parts DEF OrdersTyped
  <1>3. r \in CallState /\ Refers(r, orders')
    BY <1>2, CallsAreMade DEF Refers, OrderPC, ViewPC, Resume
  <1>4. CallsTyped'
    BY <1>1, <1>3, OneCall, Parts DEF Resume, CallsTyped
  <1> QED BY <1>1, <1>4, PartsKept, PartsNext DEF Resume, keys, page, attempt

\* Taking a fetched order into the panel keeps the types.
LEMMA FetchedTyped ==
  ASSUME Typed, NEW c \in Call, TakeFetched(c)
  PROVE  Typed'
  <1>1. calls[c].view \in View /\ Shown(calls[c].view, orders)
    BY Viewed DEF TakeFetched, ViewPC
  <1>2. Grows /\ OrdersTyped' /\ PanelTyped' /\ DOMAIN orders' = DOMAIN orders
    BY <1>1, ShowTyped DEF TakeFetched
  <1>3. CallsTyped' /\ UNCHANGED <<gone, minted, faults>>
    BY <1>2, AnsweredCalls DEF TakeFetched
  <1>4. RestTyped'
    BY <1>1, <1>2, <1>3, Parts DEF TakeFetched, RestTyped, Behind, Shown
  <1> QED BY <1>2, <1>3, <1>4, PartsKept, PartsNext DEF TakeFetched, attempt

\* A leg goes out.
LEMMA RecordTyped ==
  ASSUME Typed, NEW c \in Call, panel # None,
         NEW a \in 1 .. Remaining(panel), RecordLeg(c, a)
  PROVE  /\ Typed'
         /\ panel \in View /\ panel.order \in DOMAIN orders
         /\ LegKey(panel.order) \in Key
         /\ legKey' = [order |-> panel.order, key |-> LegKey(panel.order)]
         /\ minted' = IF LegKey(panel.order) > minted THEN LegKey(panel.order) ELSE minted
         /\ calls' = [calls EXCEPT ![c] = [pc |-> "leg", order |-> panel.order,
                        amount |-> a, key |-> LegKey(panel.order), seen |-> panel.legs]]
         /\ blind' = blind \cup (GivenUp(LegKey(panel.order)) \ {panel.order})
         /\ UNCHANGED <<orders, cart, idemKey, panel, gone, attempt, faults>>
  <1> DEFINE o == panel.order
             k == LegKey(o)
             r == [pc |-> "leg", order |-> o, amount |-> a, key |-> k, seen |-> panel.legs]
  <1>1. /\ k \in Key /\ legKey' = [order |-> o, key |-> k]
        /\ minted' = IF k > minted THEN k ELSE minted
        /\ calls' = [calls EXCEPT ![c] = r] /\ recorder' = c
        /\ blind' = blind \cup (GivenUp(k) \ {o})
        /\ UNCHANGED <<orders, cart, idemKey, panel, gone, attempt, faults>>
    BY DEF RecordLeg
  <1>2. Grows /\ OrdersTyped'
    BY <1>1, SameOrders, Parts DEF OrdersTyped
  <1>3. panel \in View /\ o \in DOMAIN orders /\ o \in Id /\ panel.legs \in Nat /\ a \in Nat
    BY Parts DEF PanelTyped, PanelRefers, Shown, View
  <1>4. r \in CallState
    BY <1>1, <1>3, CallsAreMade
  <1>5. Refers(r, orders')
    BY <1>1, <1>3 DEF Refers, OrderPC, ViewPC
  <1>6. CallsTyped'
    BY <1>1, <1>2, <1>4, <1>5, OneCall, Parts DEF CallsTyped
  <1>7. KeysTyped'
    BY <1>1, <1>3, Parts DEF KeysTyped, LegKeyRefers
  <1>8. PanelTyped'
    BY <1>1, Parts DEF PanelTyped, PanelRefers
  <1>9. RestTyped'
    <2>1. GivenUp(k) \subseteq DOMAIN orders
      BY Parts DEF KeysTyped, LegKeyRefers, GivenUp
    <2> QED BY <1>1, <2>1, Parts DEF RestTyped
  <1>10. CartTyped'
    BY <1>1, <1>2, PartsKept DEF attempt
  <1> QED BY <1>1, <1>2, <1>3, <1>6, <1>7, <1>8, <1>9, <1>10, PartsNext

\* Taking the answer to a leg keeps the types.
LEMMA RungTyped ==
  ASSUME Typed, NEW c \in Call, TakeRung(c)
  PROVE  Typed'
  <1>1. calls[c].view \in View /\ Shown(calls[c].view, orders)
    BY Viewed DEF TakeRung, ViewPC
  <1>2. Grows /\ OrdersTyped' /\ PanelTyped' /\ DOMAIN orders' = DOMAIN orders
    BY <1>1, ShowTyped DEF TakeRung
  <1>3. CallsTyped' /\ UNCHANGED <<gone, minted, faults>>
    BY <1>2, AnsweredCalls DEF TakeRung
  <1>4. KeysTyped'
    BY <1>2, <1>3, Parts DEF TakeRung, KeysTyped, LegKeyRefers
  <1>5. RestTyped'
    <2>1. GivenUp(calls[c].key) \subseteq DOMAIN orders
      BY Parts DEF KeysTyped, LegKeyRefers, GivenUp
    <2> QED BY <1>1, <1>2, <1>3, <2>1, Parts DEF TakeRung, RestTyped, Behind, Shown
  <1>6. CartTyped'
    BY <1>2, PartsKept DEF TakeRung, attempt
  <1> QED BY <1>2, <1>3, <1>4, <1>5, <1>6, PartsNext

\* Leaving the panel for a new order keeps the types.
LEMMA NewOrderTyped ==
  ASSUME Typed, NewOrder
  PROVE  Typed'
  <1>1. Grows /\ OrdersTyped'
    BY SameOrders, Parts DEF NewOrder, OrdersTyped
  <1>2. PanelTyped'
    BY Parts DEF NewOrder, PanelTyped, PanelRefers
  <1> QED BY <1>1, <1>2, PartsKept, PartsNext DEF NewOrder, keys, attempt

\* Leaving the page keeps the types and forgets its calls at most.
LEMMA LeaveTyped ==
  ASSUME Typed, Leave
  PROVE  /\ Typed'
         /\ \A d \in Call : calls'[d] = calls[d] \/ calls'[d] = Idle
  <1>1. Grows /\ OrdersTyped'
    BY SameOrders, Parts DEF Leave, OrdersTyped
  <1>2. /\ DOMAIN calls' = Call /\ calls' = [d \in Call |-> calls'[d]]
        /\ \A d \in Call : calls'[d] = calls[d] \/ calls'[d] = Idle
        /\ gone' \subseteq Call
    BY DEF Leave
  <1>3. CallsTyped'
    BY <1>1, <1>2, CallsEnd
  <1>4. CartTyped' /\ idemKey' = None
    BY ClearTyped DEF Leave
  <1>5. KeysTyped'
    BY <1>4, Parts DEF Leave, KeysTyped, LegKeyRefers
  <1>6. PanelTyped'
    BY DEF Leave, PanelTyped, PanelRefers
  <1>7. RestTyped'
    <2>1. GivenUp(None) \subseteq DOMAIN orders
      BY Parts DEF KeysTyped, LegKeyRefers, GivenUp
    <2> QED BY <1>1, <2>1, Parts, TillAssumption DEF Leave, RestTyped
  <1> QED BY <1>1, <1>2, <1>3, <1>4, <1>5, <1>6, <1>7, PartsNext

\* The till starts well typed.
LEMMA InitTyped ==
  ASSUME Init
  PROVE  Typed
  <1>1. OrdersTyped
    BY DEF Init, OrdersTyped, Covered
  <1>2. CartTyped /\ KeysTyped /\ PanelTyped
    BY DEF Init, CartTyped, KeysTyped, LegKeyRefers, PanelTyped, PanelRefers
  <1>3. CallsTyped
    BY CallsAreMade, IdleRefers DEF Init, CallsTyped, CallsRefer
  <1>4. RestTyped
    BY TillAssumption DEF Init, RestTyped
  <1> QED BY <1>1, <1>2, <1>3, <1>4, Parts

\* A step of somebody else keeps the types.
LEMMA StutterTyped ==
  ASSUME Typed, UNCHANGED vars
  PROVE  Typed'
  <1>1. Grows /\ OrdersTyped'
    BY SameOrders, Parts DEF vars, OrdersTyped
  <1> QED BY <1>1, PartsKept, PartsNext DEF vars

\* Sending a hold keeps the types.
LEMMA HoldTyped ==
  ASSUME Typed, NEW c \in Call, Hold(c)
  PROVE  Typed'
  <1>1. Send(c, "hold", FALSE) /\ parked' \in BOOLEAN /\ "hold" \in OutPC
    BY DEF Hold, OutPC
  <1> QED BY <1>1, SendTyped

\* Sending a charge keeps the types.
LEMMA ChargeTyped ==
  ASSUME Typed, NEW c \in Call, NEW split \in BOOLEAN, Charge(c, split)
  PROVE  Typed'
  <1>1. Send(c, "charge", split) /\ parked' \in BOOLEAN /\ "charge" \in OutPC
    BY Parts DEF Charge, OutPC, CartTyped
  <1> QED BY <1>1, SendTyped

\* So does every step of the till and of the API.
LEMMA TypedStep ==
  ASSUME Typed, [Next]_vars
  PROVE  Typed'
  <1>1. CASE ApiStep
    BY <1>1, CreateTyped, ResumeServed, FetchServed, LegServed, ElsewhereTyped DEF ApiStep
  <1>2. CASE CartStep
    BY <1>2, EditTyped, HoldTyped, HeldTyped, ChargedTyped, ChargeTyped, ClearTapTyped
       DEF CartStep
  <1>3. CASE PanelStep
    BY <1>3, FetchedTyped, RungTyped, ResumeTyped, RecordTyped, NewOrderTyped DEF PanelStep
  <1>4. CASE Leave
    BY <1>4, LeaveTyped
  <1>5. CASE \E c \in Call : FailCall(c)
    BY <1>5, FailTyped
  <1>6. CASE UNCHANGED vars
    BY <1>6, StutterTyped
  <1> QED BY <1>1, <1>2, <1>3, <1>4, <1>5, <1>6 DEF Next

\* Every variable has its type, every order a call or the panel names is
\* there, and no order is paid more than it comes to.
THEOREM Typing == Spec => []TypeOK
  <1>1. Init => Typed
    BY InitTyped
  <1>2. Typed /\ [Next]_vars => Typed'
    BY TypedStep
  <1>3. Typed => TypeOK
    BY DEF Typed
  <1> QED BY <1>1, <1>2, <1>3, PTL DEF Spec

-----------------------------------------------------------------------------
(***************************************************************************)
(* Carts become one order                                                  *)
(*                                                                         *)
(* Orders and calls of the cart being filled carry its key, a key names    *)
(* one order, and what was sent under the key is what the cart holds until *)
(* it is changed.                                                          *)
(***************************************************************************)

KeysAreMinted ==
  /\ idemKey # None => idemKey <= minted
  /\ \A o \in DOMAIN orders : orders[o].key <= minted /\ orders[o].of <= visit
  /\ \A c \in Call :
       /\ calls[c].pc \in OutPC => calls[c].key <= minted /\ calls[c].of <= visit
       /\ calls[c].pc \in PlacedPC => calls[c].of <= visit

KeysNameOrders ==
  \A o, p \in DOMAIN orders : orders[o].key = orders[p].key => o = p

AttemptHasItsKey ==
  /\ \A o \in DOMAIN orders : orders[o].of = visit => orders[o].key = idemKey
  /\ \A c \in Call :
       /\ calls[c].pc \in OutPC /\ calls[c].of = visit => calls[c].key = idemKey
       /\ calls[c].pc \in PlacedPC /\ calls[c].of = visit =>
            orders[calls[c].view.order].key = idemKey

UntouchedIsSame ==
  ~touched =>
    /\ \A o \in DOMAIN orders : orders[o].key = idemKey => orders[o].cart = cart
    /\ \A c \in Call : calls[c].pc \in OutPC /\ calls[c].key = idemKey => calls[c].cart = cart

UnparkedIsPlaced ==
  ~parked =>
    /\ \A o \in DOMAIN orders : orders[o].key = idemKey => ~orders[o].draft
    /\ \A c \in Call :
         /\ calls[c].pc = "hold" => calls[c].key # idemKey
         /\ calls[c].pc = "charged" /\ calls[c].of = visit => ~calls[c].view.draft

CartInv ==
  /\ KeysAreMinted /\ KeysNameOrders /\ AttemptHasItsKey
  /\ UntouchedIsSame /\ UnparkedIsPlaced

\* The types the arguments below rest on.
LEMMA CartTypes ==
  ASSUME Typed
  PROVE  /\ minted \in Nat /\ visit \in Nat /\ idemKey \in Key \cup {None}
         /\ touched \in BOOLEAN /\ parked \in BOOLEAN
         /\ None \notin Key /\ Key \subseteq Nat
         /\ \A o \in DOMAIN orders :
              /\ orders[o].key \in Key /\ orders[o].of \in Nat /\ orders[o].draft \in BOOLEAN
         /\ \A c \in Call :
              /\ calls[c].pc \in OutPC => calls[c].key \in Key /\ calls[c].of \in Nat
              /\ calls[c].pc \in PlacedPC =>
                   /\ calls[c].of \in Nat /\ calls[c].view.order \in DOMAIN orders
                   /\ calls[c].view.draft \in BOOLEAN
  <1>1. /\ minted \in Nat /\ visit \in Nat /\ idemKey \in Key \cup {None}
        /\ touched \in BOOLEAN /\ parked \in BOOLEAN
        /\ None \notin Key /\ Key \subseteq Nat
    BY Parts, TillAssumption DEF CartTyped, KeysTyped, Key
  <1>2. \A o \in DOMAIN orders :
          /\ orders[o].key \in Key /\ orders[o].of \in Nat /\ orders[o].draft \in BOOLEAN
    BY Rows, Parts DEF OrdersTyped
  <1>3. ASSUME NEW c \in Call
        PROVE  /\ calls[c].pc \in OutPC => calls[c].key \in Key /\ calls[c].of \in Nat
               /\ calls[c].pc \in PlacedPC =>
                    /\ calls[c].of \in Nat /\ calls[c].view.order \in DOMAIN orders
                    /\ calls[c].view.draft \in BOOLEAN
    <2>1. calls[c] \in CallState /\ Refers(calls[c], orders)
      BY Parts DEF CallsTyped, CallsRefer
    <2>2. calls[c].pc \in PlacedPC => calls[c].pc \in ViewPC
      BY DEF PlacedPC, ViewPC
    <2>3. \A v \in View : v.draft \in BOOLEAN
      BY DEF View
    <2> QED BY <2>1, <2>2, <2>3, CallShapes DEF Refers, Shown
  <1> QED BY <1>1, <1>2, <1>3

CartPC == {"charge", "hold", "charged", "held"}

\* A step that has nothing to do with the cart.
LEMMA CartKept ==
  ASSUME Typed, Typed', CartInv, Grows, DOMAIN orders' = DOMAIN orders,
         UNCHANGED <<cart, idemKey, attempt>>, minted <= minted',
         \A c \in Call : calls'[c] = calls[c] \/ calls'[c].pc \notin CartPC
  PROVE  CartInv'
  <1>1. /\ \A o \in DOMAIN orders :
             /\ orders'[o].cart = orders[o].cart /\ orders'[o].key = orders[o].key
             /\ orders'[o].of = orders[o].of /\ (orders'[o].draft => orders[o].draft)
        /\ \A c \in Call : calls'[c].pc \in CartPC => calls'[c] = calls[c]
        /\ UNCHANGED <<cart, idemKey, visit, touched, parked>>
    BY DEF Grows, Keeps, attempt
  <1>2. KeysAreMinted'
    <2>1. minted \in Nat /\ minted' \in Nat
      BY CartTypes DEF Typed, TypeOK, Key
    <2>2. /\ idemKey # None => idemKey \in Nat
          /\ \A o \in DOMAIN orders : orders[o].key \in Nat
          /\ \A c \in Call : calls[c].pc \in OutPC => calls[c].key \in Nat
      BY CartTypes
    <2> QED BY <1>1, <2>1, <2>2 DEF CartInv, KeysAreMinted, CartPC, OutPC, PlacedPC
  <1>3. KeysNameOrders'
    BY <1>1 DEF CartInv, KeysNameOrders
  <1>4. AttemptHasItsKey'
    <2>1. \A o \in DOMAIN orders' : orders'[o].of = visit' => orders'[o].key = idemKey'
      BY <1>1 DEF CartInv, AttemptHasItsKey
    <2>2. ASSUME NEW c \in Call
          PROVE  /\ calls'[c].pc \in OutPC /\ calls'[c].of = visit' => calls'[c].key = idemKey'
                 /\ calls'[c].pc \in PlacedPC /\ calls'[c].of = visit' =>
                      orders'[calls'[c].view.order].key = idemKey'
      BY <1>1, CartTypes DEF CartInv, AttemptHasItsKey, CartPC, OutPC, PlacedPC
    <2> QED BY <2>1, <2>2 DEF AttemptHasItsKey
  <1>5. UntouchedIsSame'
    BY <1>1 DEF CartInv, UntouchedIsSame, CartPC, OutPC
  <1>6. UnparkedIsPlaced'
    BY <1>1 DEF CartInv, UnparkedIsPlaced, CartPC
  <1> QED BY <1>2, <1>3, <1>4, <1>5, <1>6 DEF CartInv

\* A cart that starts afresh has neither orders nor calls.
LEMMA CartCleared ==
  ASSUME Typed, Typed', CartInv, Grows, DOMAIN orders' = DOMAIN orders,
         Clear, UNCHANGED minted,
         \A c \in Call : calls'[c] = calls[c] \/ calls'[c] = Idle
  PROVE  CartInv'
  <1>1. /\ \A o \in DOMAIN orders :
             orders'[o].key = orders[o].key /\ orders'[o].of = orders[o].of
        /\ \A c \in Call : calls'[c].pc \in CartPC => calls'[c] = calls[c]
        /\ idemKey' = None /\ visit' = visit + 1 /\ ~touched' /\ ~parked'
        /\ OutPC \subseteq CartPC /\ PlacedPC \subseteq CartPC
    BY DEF Grows, Keeps, Clear, Idle, CartPC, OutPC, PlacedPC
  <1>2. /\ \A o \in DOMAIN orders :
             orders[o].key \in Key /\ orders[o].of \in Nat /\ orders[o].of <= visit
        /\ \A c \in Call : calls[c].pc \in OutPC =>
             calls[c].key \in Key /\ calls[c].of \in Nat /\ calls[c].of <= visit
        /\ \A c \in Call : calls[c].pc \in PlacedPC => calls[c].of \in Nat /\ calls[c].of <= visit
        /\ visit \in Nat /\ None \notin Key
    BY CartTypes DEF CartInv, KeysAreMinted
  <1>3. KeysAreMinted'
    BY <1>1, <1>2 DEF CartInv, KeysAreMinted
  <1>4. KeysNameOrders'
    BY <1>1 DEF CartInv, KeysNameOrders
  <1>5. \A o \in DOMAIN orders' : orders'[o].of # visit' /\ orders'[o].key # idemKey'
    BY <1>1, <1>2
  <1>6. \A c \in Call :
          /\ calls'[c].pc \in OutPC => calls'[c].of # visit' /\ calls'[c].key # idemKey'
          /\ calls'[c].pc \in PlacedPC => calls'[c].of # visit'
    BY <1>1, <1>2
  <1>7. AttemptHasItsKey'
    BY <1>5, <1>6 DEF AttemptHasItsKey
  <1>8. UntouchedIsSame'
    BY <1>5, <1>6 DEF UntouchedIsSame
  <1>9. UnparkedIsPlaced'
    BY <1>5, <1>6 DEF UnparkedIsPlaced, OutPC, PlacedPC
  <1> QED BY <1>3, <1>4, <1>7, <1>8, <1>9 DEF CartInv

\* A cart that goes out, for the first time or again.
LEMMA CartSent ==
  ASSUME Typed, CartInv, NEW c \in Call, NEW pc \in OutPC, NEW split \in BOOLEAN,
         Send(c, pc, split), parked' \in BOOLEAN, ~parked' => ~parked /\ pc # "hold"
  PROVE  CartInv'
  <1> DEFINE k == OrderKey
             r == [pc |-> pc, cart |-> cart, key |-> k, of |-> visit, split |-> split]
  <1>1. /\ k \in Key /\ idemKey' = k /\ minted' = IF k > minted THEN k ELSE minted
        /\ UNCHANGED <<orders, cart, visit, touched>>
        /\ calls'[c] = r /\ \A d \in Call \ {c} : calls'[d] = calls[d]
    BY SendTyped, Parts DEF Send, CallsTyped
  <1>2. /\ r.pc = pc /\ r.cart = cart /\ r.key = k /\ r.of = visit
    OBVIOUS
  <1> HIDE DEF r
  <1>3. /\ idemKey # None => k = idemKey
        /\ idemKey = None => k = minted + 1
    BY DEF OrderKey
  <1> HIDE DEF k
  <1>4. k \in Nat /\ minted \in Nat /\ minted <= minted' /\ k <= minted' /\ minted' \in Nat
        /\ visit \in Nat
    BY <1>1, CartTypes
  <1>5. ASSUME idemKey = None
        PROVE  /\ \A o \in DOMAIN orders : orders[o].key # k /\ orders[o].of # visit
               /\ \A d \in Call :
                    /\ calls[d].pc \in OutPC => calls[d].key # k /\ calls[d].of # visit
                    /\ calls[d].pc \in PlacedPC => calls[d].of # visit
    <2>1. k = minted + 1 /\ \A n \in Nat : n <= minted => n # k
      BY <1>3, <1>4, <1>5
    <2>2. \A o \in DOMAIN orders : orders[o].key # k /\ orders[o].of # visit
      BY <1>5, <2>1, CartTypes DEF CartInv, KeysAreMinted, AttemptHasItsKey
    <2>3. \A d \in Call :
            /\ calls[d].pc \in OutPC => calls[d].key # k /\ calls[d].of # visit
            /\ calls[d].pc \in PlacedPC => calls[d].of # visit
      BY <1>5, <2>1, CartTypes DEF CartInv, KeysAreMinted, AttemptHasItsKey
    <2> QED BY <2>2, <2>3
  <1>6. r.pc \in OutPC /\ r.pc \notin PlacedPC /\ (r.pc = "hold" => pc = "hold") /\ r.pc # "charged"
    BY <1>2 DEF OutPC, PlacedPC
  <1>7. KeysAreMinted'
    <2>1. \A o \in DOMAIN orders' : orders'[o].key <= minted' /\ orders'[o].of <= visit'
      <3>1. TAKE o \in DOMAIN orders'
      <3>2. o \in DOMAIN orders /\ orders'[o] = orders[o] /\ visit' = visit
        BY <1>1
      <3>3. orders[o].key \in Nat /\ orders[o].key <= minted /\ orders[o].of <= visit
        BY <3>2, CartTypes DEF CartInv, KeysAreMinted
      <3> QED BY <1>4, <3>2, <3>3
    <2>2. ASSUME NEW d \in Call
          PROVE  /\ calls'[d].pc \in OutPC => calls'[d].key <= minted' /\ calls'[d].of <= visit'
                 /\ calls'[d].pc \in PlacedPC => calls'[d].of <= visit'
      <3>1. CASE d = c
        BY <1>1, <1>2, <1>4, <1>6, <3>1
      <3>2. CASE d # c
        <4>1. calls'[d] = calls[d] /\ visit' = visit
          BY <1>1, <3>2
        <4>2. /\ calls[d].pc \in OutPC => /\ calls[d].key \in Nat /\ calls[d].key <= minted
                                         /\ calls[d].of <= visit
              /\ calls[d].pc \in PlacedPC => calls[d].of <= visit
          BY CartTypes DEF CartInv, KeysAreMinted
        <4> QED BY <1>4, <4>1, <4>2
      <3> QED BY <3>1, <3>2
    <2> QED BY <1>1, <1>4, <2>1, <2>2 DEF KeysAreMinted
  <1>8. KeysNameOrders'
    BY <1>1 DEF CartInv, KeysNameOrders
  <1>9. AttemptHasItsKey'
    <2>1. \A o \in DOMAIN orders' : orders'[o].of = visit' => orders'[o].key = idemKey'
      BY <1>1, <1>3, <1>5 DEF CartInv, AttemptHasItsKey
    <2>2. ASSUME NEW d \in Call
          PROVE  /\ calls'[d].pc \in OutPC /\ calls'[d].of = visit' => calls'[d].key = idemKey'
                 /\ calls'[d].pc \in PlacedPC /\ calls'[d].of = visit' =>
                      orders'[calls'[d].view.order].key = idemKey'
      <3>1. CASE d = c
        BY <1>1, <1>2, <1>6, <3>1
      <3>2. CASE d # c
        BY <1>1, <1>3, <1>5, <3>2 DEF CartInv, AttemptHasItsKey
      <3> QED BY <3>1, <3>2
    <2> QED BY <2>1, <2>2 DEF AttemptHasItsKey
  <1>10. UntouchedIsSame'
    <2>1. ~touched => \A o \in DOMAIN orders' : orders'[o].key = idemKey' => orders'[o].cart = cart'
      BY <1>1, <1>3, <1>5 DEF CartInv, UntouchedIsSame
    <2>2. ASSUME NEW d \in Call, ~touched, calls'[d].pc \in OutPC, calls'[d].key = idemKey'
          PROVE  calls'[d].cart = cart'
      <3>1. CASE d = c
        BY <1>1, <1>2, <3>1
      <3>2. CASE d # c
        BY <1>1, <1>3, <1>5, <2>2, <3>2 DEF CartInv, UntouchedIsSame
      <3> QED BY <3>1, <3>2
    <2> QED BY <1>1, <2>1, <2>2 DEF UntouchedIsSame
  <1>11. UnparkedIsPlaced'
    <2>1. SUFFICES ASSUME ~parked'
          PROVE  /\ \A o \in DOMAIN orders' : orders'[o].key = idemKey' => ~orders'[o].draft
                 /\ \A d \in Call :
                      /\ calls'[d].pc = "hold" => calls'[d].key # idemKey'
                      /\ calls'[d].pc = "charged" /\ calls'[d].of = visit' => ~calls'[d].view.draft
      BY DEF UnparkedIsPlaced
    <2>2. ~parked /\ pc # "hold"
      BY <2>1
    <2>3. \A o \in DOMAIN orders' : orders'[o].key = idemKey' => ~orders'[o].draft
      BY <1>1, <1>3, <1>5, <2>2 DEF CartInv, UnparkedIsPlaced
    <2>4. ASSUME NEW d \in Call
          PROVE  /\ calls'[d].pc = "hold" => calls'[d].key # idemKey'
                 /\ calls'[d].pc = "charged" /\ calls'[d].of = visit' => ~calls'[d].view.draft
      <3>1. CASE d = c
        BY <1>1, <1>6, <2>2, <3>1
      <3>2. CASE d # c
        BY <1>1, <1>3, <1>5, <2>2, <3>2 DEF CartInv, UnparkedIsPlaced, OutPC
      <3> QED BY <3>1, <3>2
    <2> QED BY <2>3, <2>4
  <1> QED BY <1>7, <1>8, <1>9, <1>10, <1>11 DEF CartInv

\* The call that is answered, and the others.
LEMMA AfterAnswer ==
  ASSUME Typed, NEW c \in Call, NEW r, Answer(c, r)
  PROVE  /\ calls'[c] = r \/ calls'[c] = Idle
         /\ \A d \in Call \ {c} : calls'[d] = calls[d]
         /\ UNCHANGED <<cart, keys, page, attempt, blind, faults>>
  BY Parts DEF Answer, CallsTyped

\* An order that is created under the key of the cart is the cart's.
LEMMA CartServed ==
  ASSUME Typed, CartInv, NEW c \in Call, ServeCreate(c)
  PROVE  CartInv'
  <1> DEFINE r == calls[c]
  <1>1. /\ r.pc \in OutPC /\ r.key \in Key /\ r.of \in Nat /\ Grows
        /\ r.pc \notin PlacedPC
    BY CreateTyped, CartTypes DEF OutPC, PlacedPC
  <1>2. PICK o \in DOMAIN orders' :
          /\ orders'[o].key = r.key
          /\ \/ o \in DOMAIN orders /\ UNCHANGED orders
             \/ /\ DOMAIN orders' = DOMAIN orders \cup {o} /\ o \notin DOMAIN orders
                /\ \A p \in DOMAIN orders : orders'[p] = orders[p] /\ orders[p].key # r.key
                /\ orders'[o] = NewRow(r)
          /\ Answer(c, [pc |-> IF r.pc = "hold" THEN "held" ELSE "charged",
                        of |-> r.of, view |-> Shot(o, orders'[o])])
    BY CreateTyped
  <1> DEFINE a == [pc |-> IF r.pc = "hold" THEN "held" ELSE "charged",
                   of |-> r.of, view |-> Shot(o, orders'[o])]
  <1>3. /\ calls'[c] = a \/ calls'[c] = Idle
        /\ \A d \in Call \ {c} : calls'[d] = calls[d]
        /\ UNCHANGED <<cart, idemKey, minted, visit, touched, parked>>
    BY <1>2, AfterAnswer DEF keys, attempt
  <1>4. /\ a.pc \in PlacedPC /\ a.pc \notin OutPC /\ a.of = r.of
        /\ a.view.order = o /\ a.view.draft = orders'[o].draft
        /\ a.pc = "charged" => r.pc # "hold"
    BY DEF Shot, PlacedPC, OutPC
  <1>5. /\ NewRow(r).cart = r.cart /\ NewRow(r).key = r.key /\ NewRow(r).of = r.of
        /\ NewRow(r).draft = (r.pc = "hold")
    BY DEF NewRow
  <1>6. Idle.pc \notin OutPC \cup PlacedPC
    BY DEF Idle, OutPC, PlacedPC
  <1> HIDE DEF a
  <1>7. /\ r.key <= minted /\ r.of <= visit /\ (r.of = visit => r.key = idemKey)
        /\ ~touched /\ r.key = idemKey => r.cart = cart
        /\ ~parked /\ r.pc = "hold" => r.key # idemKey
    BY <1>1 DEF CartInv, KeysAreMinted, AttemptHasItsKey, UntouchedIsSame, UnparkedIsPlaced, OutPC
  <1>8. \A d \in Call : calls'[d].pc \in OutPC => calls'[d] = calls[d]
    BY <1>3, <1>4, <1>6
  <1>9. \A d \in Call : calls'[d].pc \in PlacedPC => calls'[d] = calls[d] \/ calls'[d] = a
    BY <1>3, <1>6
  <1>10. \A p \in DOMAIN orders' : \/ p \in DOMAIN orders /\ orders'[p] = orders[p]
                                   \/ p = o /\ orders'[p] = NewRow(r)
    BY <1>2
  <1>11. KeysAreMinted'
    <2>1. \A p \in DOMAIN orders' : orders'[p].key <= minted' /\ orders'[p].of <= visit'
      BY <1>3, <1>5, <1>7, <1>10 DEF CartInv, KeysAreMinted
    <2>2. \A d \in Call :
            /\ calls'[d].pc \in OutPC => calls'[d].key <= minted' /\ calls'[d].of <= visit'
            /\ calls'[d].pc \in PlacedPC => calls'[d].of <= visit'
      BY <1>3, <1>4, <1>7, <1>8, <1>9 DEF CartInv, KeysAreMinted
    <2> QED BY <1>3, <2>1, <2>2 DEF CartInv, KeysAreMinted
  <1>12. KeysNameOrders'
    <2>1. CASE o \in DOMAIN orders /\ UNCHANGED orders
      BY <2>1 DEF CartInv, KeysNameOrders
    <2>2. CASE /\ DOMAIN orders' = DOMAIN orders \cup {o} /\ o \notin DOMAIN orders
               /\ \A p \in DOMAIN orders : orders'[p] = orders[p] /\ orders[p].key # r.key
               /\ orders'[o] = NewRow(r)
      BY <1>5, <2>2 DEF CartInv, KeysNameOrders
    <2> QED BY <1>2, <2>1, <2>2
  <1>13. AttemptHasItsKey'
    <2>1. \A p \in DOMAIN orders' : orders'[p].of = visit' => orders'[p].key = idemKey'
      BY <1>3, <1>5, <1>7, <1>10 DEF CartInv, AttemptHasItsKey
    <2>2. ASSUME NEW d \in Call
          PROVE  /\ calls'[d].pc \in OutPC /\ calls'[d].of = visit' => calls'[d].key = idemKey'
                 /\ calls'[d].pc \in PlacedPC /\ calls'[d].of = visit' =>
                      orders'[calls'[d].view.order].key = idemKey'
      <3>1. calls'[d].pc \in OutPC /\ calls'[d].of = visit' => calls'[d].key = idemKey'
        BY <1>3, <1>8 DEF CartInv, AttemptHasItsKey
      <3>2. ASSUME calls'[d].pc \in PlacedPC, calls'[d].of = visit'
            PROVE  orders'[calls'[d].view.order].key = idemKey'
        <4>1. CASE calls'[d] = a
          BY <1>2, <1>3, <1>4, <1>7, <3>2, <4>1
        <4>2. CASE calls'[d] = calls[d]
          <5>1. calls[d].view.order \in DOMAIN orders /\ orders[calls[d].view.order].key = idemKey
            BY <1>3, <3>2, <4>2, CartTypes DEF CartInv, AttemptHasItsKey
          <5> QED BY <1>1, <1>3, <4>2, <5>1 DEF Grows, Keeps
        <4> QED BY <1>9, <3>2, <4>1, <4>2
      <3> QED BY <3>1, <3>2
    <2> QED BY <2>1, <2>2 DEF AttemptHasItsKey
  <1>14. UntouchedIsSame'
    BY <1>3, <1>5, <1>7, <1>8, <1>10 DEF CartInv, UntouchedIsSame
  <1>15. UnparkedIsPlaced'
    <2>1. SUFFICES ASSUME ~parked
          PROVE  /\ \A p \in DOMAIN orders' : orders'[p].key = idemKey' => ~orders'[p].draft
                 /\ \A d \in Call :
                      /\ calls'[d].pc = "hold" => calls'[d].key # idemKey'
                      /\ calls'[d].pc = "charged" /\ calls'[d].of = visit' => ~calls'[d].view.draft
      BY <1>3 DEF UnparkedIsPlaced
    <2>2. \A p \in DOMAIN orders' : orders'[p].key = idemKey' => ~orders'[p].draft
      BY <1>3, <1>5, <1>7, <1>10, <2>1 DEF CartInv, UnparkedIsPlaced
    <2>3. \A d \in Call : calls'[d].pc = "hold" => calls'[d].key # idemKey'
      BY <1>3, <1>8, <2>1 DEF CartInv, UnparkedIsPlaced, OutPC
    <2>4. ASSUME NEW d \in Call, calls'[d].pc = "charged", calls'[d].of = visit'
          PROVE  ~calls'[d].view.draft
      <3>1. CASE calls'[d] = a
        BY <1>2, <1>3, <1>4, <1>7, <2>2, <2>4, <3>1
      <3>2. CASE calls'[d] = calls[d]
        BY <1>3, <2>1, <2>4, <3>2 DEF CartInv, UnparkedIsPlaced
      <3> QED BY <1>9, <2>4, <3>1, <3>2 DEF PlacedPC
    <2> QED BY <2>2, <2>3, <2>4
  <1> QED BY <1>11, <1>12, <1>13, <1>14, <1>15 DEF CartInv

\* A cart that is changed keeps its key.
LEMMA CartEdited ==
  ASSUME Typed, CartInv, NEW x \in Content \cup {None}, Edit(x)
  PROVE  CartInv'
  <1>1. /\ UNCHANGED <<orders, idemKey, minted, calls, visit, parked>>
        /\ touched' = (touched \/ idemKey # None)
    BY DEF Edit, keys
  <1>2. KeysAreMinted' /\ KeysNameOrders' /\ AttemptHasItsKey' /\ UnparkedIsPlaced'
    BY <1>1 DEF CartInv, KeysAreMinted, KeysNameOrders, AttemptHasItsKey, UnparkedIsPlaced
  <1>3. UntouchedIsSame'
    <2>1. ~touched' => idemKey = None
      BY <1>1
    <2> QED BY <1>1, <2>1, CartTypes DEF UntouchedIsSame
  <1> QED BY <1>2, <1>3 DEF CartInv

\* At the start there is no cart to lose.
LEMMA CartInit ==
  ASSUME Init
  PROVE  CartInv
  <1>1. DOMAIN orders = {} /\ \A c \in Call : calls[c].pc \notin CartPC
    BY DEF Init, Idle, CartPC
  <1>2. idemKey = None
    BY DEF Init
  <1>3. KeysAreMinted /\ KeysNameOrders /\ AttemptHasItsKey
    BY <1>1, <1>2 DEF KeysAreMinted, KeysNameOrders, AttemptHasItsKey, OutPC, PlacedPC, CartPC
  <1>4. UntouchedIsSame /\ UnparkedIsPlaced
    BY <1>1 DEF UntouchedIsSame, UnparkedIsPlaced, OutPC, CartPC
  <1> QED BY <1>3, <1>4 DEF CartInv

\* A request of a held order or of a leg is answered.
LEMMA CartAfterAnswer ==
  ASSUME Typed, Typed', CartInv, Grows, DOMAIN orders' = DOMAIN orders,
         NEW c \in Call, NEW r, Answer(c, r), r.pc \notin CartPC
  PROVE  CartInv'
  <1>1. \A d \in Call : calls'[d] = calls[d] \/ calls'[d].pc \notin CartPC
    BY AfterAnswer DEF Idle, CartPC
  <1>2. minted <= minted' /\ UNCHANGED <<cart, idemKey, attempt>>
    BY AfterAnswer, CartTypes DEF keys
  <1> QED BY <1>1, <1>2, CartKept

\* Whatever the API answers keeps the cart tied to one key.
LEMMA CartStepApi ==
  ASSUME Typed, Typed', CartInv, ApiStep
  PROVE  CartInv'
  <1>1. ASSUME NEW c \in Call, ServeCreate(c)
        PROVE  CartInv'
    BY <1>1, CartServed
  <1>2. ASSUME NEW c \in Call, ServeResume(c)
        PROVE  CartInv'
    <2>1. PICK r \in CallState : r.pc = "fetch" /\ Answer(c, r)
      BY <1>2, ResumeServed
    <2> QED BY <1>2, <2>1, ResumeServed, CartAfterAnswer DEF CartPC
  <1>3. ASSUME NEW c \in Call, ServeFetch(c)
        PROVE  CartInv'
    <2>1. PICK r \in CallState : r.pc = "fetched" /\ Answer(c, r)
      BY <1>3, FetchServed
    <2> QED BY <1>3, <2>1, FetchServed, CartAfterAnswer DEF CartPC
  <1>4. ASSUME NEW c \in Call, ServeLeg(c)
        PROVE  CartInv'
    <2>1. RungView(calls[c]).pc = "rung"
      BY DEF RungView
    <2> QED BY <1>4, <2>1, LegServed, CartAfterAnswer DEF CartPC
  <1>5. ASSUME NEW o \in DOMAIN orders,
               PlaceElsewhere(o) \/ \E a \in 1 .. Outstanding(o) : PayElsewhere(o, a)
        PROVE  CartInv'
    <2>1. minted <= minted' /\ UNCHANGED <<cart, idemKey, attempt, calls>>
      BY <1>5, ElsewhereTyped, CartTypes DEF keys
    <2> QED BY <1>5, <2>1, ElsewhereTyped, CartKept
  <1> QED BY <1>1, <1>2, <1>3, <1>4, <1>5 DEF ApiStep

\* So does whatever happens at the cart.
LEMMA CartStepCart ==
  ASSUME Typed, Typed', CartInv, CartStep
  PROVE  CartInv'
  <1>1. ASSUME NEW x \in Content \cup {None}, Edit(x)
        PROVE  CartInv'
    BY <1>1, CartEdited
  <1>2. ASSUME NEW c \in Call, Hold(c)
        PROVE  CartInv'
    <2>1. Send(c, "hold", FALSE) /\ parked' /\ parked' \in BOOLEAN /\ "hold" \in OutPC
      BY <1>2 DEF Hold, OutPC
    <2> QED BY <2>1, CartSent
  <1>3. ASSUME NEW c \in Call, NEW split \in BOOLEAN, Charge(c, split)
        PROVE  CartInv'
    <2>1. Send(c, "charge", split) /\ parked' = parked /\ parked \in BOOLEAN
          /\ "charge" \in OutPC /\ "charge" # "hold"
      BY <1>3, CartTypes DEF Charge, OutPC
    <2> QED BY <2>1, CartSent
  <1>4. ASSUME NEW c \in Call, TakeHeld(c)
        PROVE  CartInv'
    <2>1. Grows /\ UNCHANGED orders
      BY <1>4, SameOrders, Parts DEF TakeHeld, OrdersTyped
    <2>2. Clear /\ UNCHANGED minted /\ \A d \in Call : calls'[d] = calls[d] \/ calls'[d] = Idle
      BY <1>4, <2>1, AnsweredCalls DEF TakeHeld
    <2> QED BY <2>1, <2>2, CartCleared
  <1>5. ASSUME NEW c \in Call, TakeCharged(c)
        PROVE  CartInv'
    <2>1. calls[c].view \in View /\ Shown(calls[c].view, orders)
      BY <1>5, Viewed DEF TakeCharged, ViewPC
    <2>2. Grows /\ DOMAIN orders' = DOMAIN orders
      BY <1>5, <2>1, ShowTyped DEF TakeCharged
    <2>3. Clear /\ UNCHANGED minted /\ \A d \in Call : calls'[d] = calls[d] \/ calls'[d] = Idle
      BY <1>5, <2>2, AnsweredCalls DEF TakeCharged
    <2> QED BY <2>2, <2>3, CartCleared
  <1>6. ASSUME ClearTap
        PROVE  CartInv'
    <2>1. Grows /\ UNCHANGED <<orders, minted, calls>> /\ Clear
      BY <1>6, SameOrders, Parts DEF ClearTap, OrdersTyped
    <2> QED BY <2>1, CartCleared
  <1> QED BY <1>1, <1>2, <1>3, <1>4, <1>5, <1>6 DEF CartStep

\* So does whatever happens at the payment panel.
LEMMA CartStepPanel ==
  ASSUME Typed, Typed', CartInv, PanelStep
  PROVE  CartInv'
  <1>1. ASSUME NEW c \in Call, TakeFetched(c) \/ TakeRung(c)
        PROVE  CartInv'
    <2>1. calls[c].view \in View /\ Shown(calls[c].view, orders)
      BY <1>1, Viewed DEF TakeFetched, TakeRung, ViewPC
    <2>2. Grows /\ DOMAIN orders' = DOMAIN orders
      BY <1>1, <2>1, ShowTyped DEF TakeFetched, TakeRung
    <2>3. \A d \in Call : calls'[d] = calls[d] \/ calls'[d].pc \notin CartPC
      BY <1>1, <2>2, AnsweredCalls DEF TakeFetched, TakeRung, Idle, CartPC
    <2>4. minted <= minted' /\ UNCHANGED <<cart, idemKey, attempt>>
      BY <1>1, <2>2, AnsweredCalls, CartTypes DEF TakeFetched, TakeRung
    <2> QED BY <2>2, <2>3, <2>4, CartKept
  <1>2. ASSUME NEW c \in Call, NEW o \in DOMAIN orders, Resume(c, o)
        PROVE  CartInv'
    <2>1. Grows /\ UNCHANGED orders
      BY <1>2, SameOrders, Parts DEF Resume, OrdersTyped
    <2>2. \A d \in Call : calls'[d] = calls[d] \/ calls'[d].pc \notin CartPC
      BY <1>2, Parts DEF Resume, CallsTyped, CartPC
    <2>3. minted <= minted' /\ UNCHANGED <<cart, idemKey, attempt>>
      BY <1>2, CartTypes DEF Resume, keys
    <2> QED BY <2>1, <2>2, <2>3, CartKept
  <1>3. ASSUME NEW c \in Call, panel # None, NEW a \in 1 .. Remaining(panel), RecordLeg(c, a)
        PROVE  CartInv'
    <2>1. Grows /\ UNCHANGED <<orders, cart, idemKey, attempt>>
      BY <1>3, SameOrders, Parts DEF RecordLeg, OrdersTyped
    <2>2. \A d \in Call : calls'[d] = calls[d] \/ calls'[d].pc \notin CartPC
      BY <1>3, RecordTyped, Parts DEF CallsTyped, CartPC
    <2>3. minted <= minted'
      <3>1. LegKey(panel.order) \in Nat /\ minted \in Nat
        BY <1>3, RecordTyped, CartTypes
      <3>2. minted' = IF LegKey(panel.order) > minted THEN LegKey(panel.order) ELSE minted
        BY <1>3, RecordTyped
      <3> QED BY <3>1, <3>2
    <2> QED BY <2>1, <2>2, <2>3, CartKept
  <1>4. ASSUME NewOrder
        PROVE  CartInv'
    <2>1. Grows /\ UNCHANGED <<orders, cart, idemKey, attempt, calls>> /\ minted <= minted'
      BY <1>4, SameOrders, CartTypes, Parts DEF NewOrder, keys, OrdersTyped
    <2> QED BY <2>1, CartKept
  <1> QED BY <1>1, <1>2, <1>3, <1>4 DEF PanelStep

\* So does every step, calls that fail among them.
LEMMA CartPreserved ==
  ASSUME Typed, Typed', CartInv, [Next]_vars
  PROVE  CartInv'
  <1>1. ASSUME NEW c \in Call, FailCall(c)
        PROVE  CartInv'
    <2>1. /\ Grows /\ UNCHANGED <<orders, cart, idemKey, attempt>> /\ minted <= minted'
      BY <1>1, SameOrders, CartTypes, Parts DEF FailCall, keys, OrdersTyped
    <2>2. \A d \in Call : calls'[d] = calls[d] \/ calls'[d].pc \notin CartPC
      BY <1>1, FailTyped DEF Idle, CartPC
    <2> QED BY <2>1, <2>2, CartKept
  <1>2. ASSUME Leave
        PROVE  CartInv'
    <2>1. /\ Grows /\ UNCHANGED <<orders, minted>> /\ Clear
          /\ \A d \in Call : calls'[d] = calls[d] \/ calls'[d] = Idle
      BY <1>2, LeaveTyped, SameOrders, Parts DEF Leave, OrdersTyped
    <2> QED BY <2>1, CartCleared
  <1>3. ASSUME UNCHANGED vars
        PROVE  CartInv'
    <2>1. Grows /\ UNCHANGED <<orders, cart, idemKey, attempt, calls>> /\ minted <= minted'
      BY <1>3, SameOrders, CartTypes, Parts DEF vars, attempt, OrdersTyped
    <2> QED BY <2>1, CartKept
  <1> QED BY <1>1, <1>2, <1>3, CartStepApi, CartStepCart, CartStepPanel DEF Next

\* What the invariant says of an answer that comes back to its cart.
LEMMA CartSafe ==
  ASSUME Typed, CartInv
  PROVE  CartsBecomeOneOrder
  <1>1. SUFFICES ASSUME NEW c \in Call, calls[c].pc \in PlacedPC, calls[c].of = visit
        PROVE  LET o == calls[c].view.order IN
               /\ \A p \in DOMAIN orders : orders[p].of = visit => p = o
               /\ orders[o].cart = cart \/ touched
               /\ calls[c].pc = "charged" => ~calls[c].view.draft \/ parked
    BY DEF CartsBecomeOneOrder, PlacedPC
  <1> DEFINE o == calls[c].view.order
  <1>2. o \in DOMAIN orders /\ orders[o].key = idemKey
    BY <1>1, CartTypes DEF CartInv, AttemptHasItsKey
  <1>3. \A p \in DOMAIN orders : orders[p].of = visit => p = o
    BY <1>2 DEF CartInv, AttemptHasItsKey, KeysNameOrders
  <1>4. orders[o].cart = cart \/ touched
    BY <1>2 DEF CartInv, UntouchedIsSame
  <1>5. calls[c].pc = "charged" => ~calls[c].view.draft \/ parked
    BY <1>1 DEF CartInv, UnparkedIsPlaced
  <1> QED BY <1>3, <1>4, <1>5

\* However often a cart is sent, given up, sent twice at once or answered
\* late, the order its answer carries is the only one it was rung up as,
\* holds what the cart holds unless it was changed, and is placed if it was
\* charged and never sent to be held.
THEOREM OneOrderPerCart == Spec => []CartsBecomeOneOrder
  <1>1. Init => Typed /\ CartInv
    BY InitTyped, CartInit
  <1>2. Typed /\ CartInv /\ [Next]_vars => Typed' /\ CartInv'
    BY TypedStep, CartPreserved
  <1>3. Typed /\ CartInv => CartsBecomeOneOrder
    BY CartSafe
  <1> QED BY <1>1, <1>2, <1>3, PTL DEF Spec

-----------------------------------------------------------------------------
(***************************************************************************)
(* Legs ring once                                                          *)
(*                                                                         *)
(* At most one leg of an order is recorded that the till was not told of,  *)
(* and then it is the leg of the key the till still holds; a leg on its    *)
(* way that is not recorded holds that key as well, and was tapped by a    *)
(* cashier who saw all that are.                                           *)
(***************************************************************************)

\* Key k is, or may become, the key of a leg of order o.
Uses(o, k) ==
  \/ legKey # None /\ legKey.order = o /\ legKey.key = k
  \/ \E c \in Call : calls[c].pc = "leg" /\ calls[c].order = o /\ calls[c].key = k
  \/ o \in DOMAIN orders /\ Known(o, k)

LegKeysNameOrders ==
  \A k \in Key : \A o, p \in DOMAIN orders :
    /\ Uses(o, k) => k <= minted
    /\ Uses(o, k) /\ Uses(p, k) => o = p

LegKeysDiffer ==
  \A o \in DOMAIN orders : \A i, j \in 1 .. Len(orders[o].legs) :
    orders[o].legs[i].key = orders[o].legs[j].key => i = j

PanelIsCurrent ==
  panel # None /\ panel.order \notin blind => panel.legs = orders[panel.order].told

OneLegUntold ==
  \A o \in DOMAIN orders :
    /\ orders[o].told <= Len(orders[o].legs)
    /\ o \notin blind =>
         \/ orders[o].told = Len(orders[o].legs)
         \/ /\ orders[o].told + 1 = Len(orders[o].legs)
            /\ legKey # None /\ legKey.order = o
            /\ legKey.key = orders[o].legs[Len(orders[o].legs)].key

UnknownLegIsNext ==
  \A c \in Call :
    /\ calls[c].pc = "leg"
    /\ calls[c].order \notin blind
    /\ ~Known(calls[c].order, calls[c].key)
    => /\ legKey # None /\ legKey.order = calls[c].order /\ legKey.key = calls[c].key
       /\ calls[c].seen = Len(orders[calls[c].order].legs)
       /\ orders[calls[c].order].told = Len(orders[calls[c].order].legs)

LegInv ==
  /\ LegKeysNameOrders /\ LegKeysDiffer /\ PanelIsCurrent
  /\ OneLegUntold /\ UnknownLegIsNext /\ LegsRingOnce

\* The types the arguments below rest on.
LEMMA LegTypes ==
  ASSUME Typed
  PROVE  /\ minted \in Nat /\ Key \subseteq Nat
         /\ \A o \in DOMAIN orders :
              /\ orders[o].told \in Nat /\ Len(orders[o].legs) \in Nat
              /\ \A i \in 1 .. Len(orders[o].legs) : orders[o].legs[i].key \in Key
         /\ legKey # None => legKey.order \in DOMAIN orders /\ legKey.key \in Key
         /\ panel # None => panel.order \in DOMAIN orders /\ panel.legs \in Nat
         /\ \A c \in Call : calls[c].pc = "leg" =>
              /\ calls[c].order \in DOMAIN orders /\ calls[c].key \in Key
              /\ calls[c].seen \in Nat
  <1>1. minted \in Nat /\ Key \subseteq Nat
    BY Parts DEF KeysTyped, Key
  <1>2. \A o \in DOMAIN orders :
          /\ orders[o].told \in Nat /\ Len(orders[o].legs) \in Nat
          /\ \A i \in 1 .. Len(orders[o].legs) : orders[o].legs[i].key \in Key
    BY Rows, Parts DEF OrdersTyped
  <1>3. legKey # None => legKey.order \in DOMAIN orders /\ legKey.key \in Key
    BY Parts DEF KeysTyped, LegKeyRefers
  <1>4. panel # None => panel.order \in DOMAIN orders /\ panel.legs \in Nat
    BY Parts DEF PanelTyped, PanelRefers, Shown, View
  <1>5. \A c \in Call : calls[c].pc = "leg" =>
          /\ calls[c].order \in DOMAIN orders /\ calls[c].key \in Key
          /\ calls[c].seen \in Nat
    BY Parts, CallShapes DEF CallsTyped, CallsRefer, Refers, OrderPC
  <1> QED BY <1>1, <1>2, <1>3, <1>4, <1>5

\* The leg key stays, or is dropped when its leg has been told of, or with an
\* order that is blind from then on.
LegKeyGoes ==
  \/ legKey' = legKey
  \/ /\ legKey' = None
     /\ legKey # None /\ legKey.order \notin blind' =>
          /\ Known(legKey.order, legKey.key)
          /\ orders'[legKey.order].told = Len(orders[legKey.order].legs)

\* A step that records no leg and taps none.
LEMMA LegsKept ==
  ASSUME Typed, LegInv, Grows,
         \A o \in DOMAIN orders : /\ orders'[o].legs = orders[o].legs
                                  /\ orders'[o].told \in Nat
                                  /\ orders'[o].told <= Len(orders[o].legs),
         \A o \in DOMAIN orders' \ DOMAIN orders :
           orders'[o].legs = <<>> /\ orders'[o].told = 0,
         blind \subseteq blind', minted \in Nat, minted' \in Nat, minted <= minted',
         \A c \in Call : calls'[c] = calls[c] \/ calls'[c].pc # "leg",
         LegKeyGoes, PanelIsCurrent'
  PROVE  LegInv'
  <1>1. \A o \in DOMAIN orders, k \in Key : Known(o, k)' <=> Known(o, k)
    BY DEF Known
  <1>2. \A c \in Call : calls'[c].pc = "leg" => calls'[c] = calls[c]
    OBVIOUS
  <1>3. Len(<<>>) = 0
    OBVIOUS
  <1>4. \A o \in DOMAIN orders' \ DOMAIN orders, k \in Key : ~Uses(o, k)'
    <2>1. TAKE o \in DOMAIN orders' \ DOMAIN orders, k \in Key
    <2>2. ~Known(o, k)'
      BY <1>3 DEF Known
    <2>3. ~(legKey' # None /\ legKey'.order = o)
      BY LegTypes DEF LegKeyGoes
    <2>4. \A c \in Call : calls'[c].pc = "leg" => calls'[c].order # o
      BY <1>2, LegTypes
    <2> QED BY <2>2, <2>3, <2>4 DEF Uses
  <1>5. \A o \in DOMAIN orders, k \in Key : Uses(o, k)' => Uses(o, k)
    BY <1>1, <1>2 DEF Uses, LegKeyGoes
  <1>6. LegKeysNameOrders'
    <2>1. SUFFICES ASSUME NEW k \in Key, NEW o \in DOMAIN orders', NEW p \in DOMAIN orders',
                          Uses(o, k)'
          PROVE  k <= minted' /\ (Uses(p, k)' => o = p)
      BY DEF LegKeysNameOrders
    <2>2. o \in DOMAIN orders /\ Uses(o, k)
      BY <1>4, <1>5, <2>1
    <2>3. Uses(p, k)' => p \in DOMAIN orders /\ Uses(p, k)
      BY <1>4, <1>5
    <2>4. k <= minted /\ k \in Nat
      BY <2>2, LegTypes DEF LegInv, LegKeysNameOrders
    <2> QED BY <2>2, <2>3, <2>4 DEF LegInv, LegKeysNameOrders
  <1>7. LegKeysDiffer'
    <2>1. SUFFICES ASSUME NEW o \in DOMAIN orders', NEW i \in 1 .. Len(orders'[o].legs),
                          NEW j \in 1 .. Len(orders'[o].legs),
                          orders'[o].legs[i].key = orders'[o].legs[j].key
          PROVE  i = j
      BY DEF LegKeysDiffer
    <2>2. o \in DOMAIN orders
      BY <1>3
    <2> QED BY <2>1, <2>2 DEF LegInv, LegKeysDiffer
  <1>8. OneLegUntold'
    <2>1. SUFFICES ASSUME NEW o \in DOMAIN orders'
          PROVE  /\ orders'[o].told <= Len(orders'[o].legs)
                 /\ o \notin blind' =>
                      \/ orders'[o].told = Len(orders'[o].legs)
                      \/ /\ orders'[o].told + 1 = Len(orders'[o].legs)
                         /\ legKey' # None /\ legKey'.order = o
                         /\ legKey'.key = orders'[o].legs[Len(orders'[o].legs)].key
      BY DEF OneLegUntold
    <2>2. CASE o \notin DOMAIN orders
      BY <1>3, <2>2
    <2>3. CASE o \in DOMAIN orders
      <3>1. /\ orders[o].told \in Nat /\ Len(orders[o].legs) \in Nat
            /\ orders'[o].told \in Nat /\ orders[o].told <= orders'[o].told
            /\ orders'[o].told <= Len(orders[o].legs) /\ orders'[o].legs = orders[o].legs
        BY <2>3, LegTypes DEF Grows, Keeps
      <3>2. ASSUME o \notin blind', orders'[o].told # Len(orders[o].legs)
            PROVE  /\ orders'[o].told + 1 = Len(orders[o].legs)
                   /\ legKey' # None /\ legKey'.order = o
                   /\ legKey'.key = orders[o].legs[Len(orders[o].legs)].key
        <4>1. /\ orders[o].told + 1 = Len(orders[o].legs)
              /\ legKey # None /\ legKey.order = o
              /\ legKey.key = orders[o].legs[Len(orders[o].legs)].key
          BY <2>3, <3>1, <3>2 DEF LegInv, OneLegUntold
        <4>2. legKey' = legKey
          BY <3>2, <4>1 DEF LegKeyGoes
        <4> QED BY <3>1, <3>2, <4>1, <4>2
      <3> QED BY <3>1, <3>2
    <2> QED BY <2>2, <2>3
  <1>9. UnknownLegIsNext'
    <2>1. SUFFICES ASSUME NEW c \in Call, calls'[c].pc = "leg", calls'[c].order \notin blind',
                          ~Known(calls[c].order, calls[c].key)'
          PROVE  /\ legKey' # None /\ legKey'.order = calls'[c].order
                 /\ legKey'.key = calls'[c].key
                 /\ calls'[c].seen = Len(orders'[calls'[c].order].legs)
                 /\ orders'[calls'[c].order].told = Len(orders'[calls'[c].order].legs)
      BY DEF UnknownLegIsNext
    <2> DEFINE o == calls[c].order
    <2>0. \A q \in DOMAIN orders, y \in Key :
            q = calls'[c].order /\ y = calls'[c].key => ~Known(q, y)'
      BY <2>1 DEF Known
    <2>2. calls'[c] = calls[c] /\ o \in DOMAIN orders /\ calls[c].key \in Key
          /\ o \notin blind /\ ~Known(o, calls[c].key)
      BY <1>1, <1>2, <2>0, <2>1, LegTypes
    <2>3. /\ legKey # None /\ legKey.order = o /\ legKey.key = calls[c].key
          /\ calls[c].seen = Len(orders[o].legs) /\ orders[o].told = Len(orders[o].legs)
      BY <2>1, <2>2 DEF LegInv, UnknownLegIsNext
    <2>4. legKey' = legKey
      BY <2>1, <2>2, <2>3 DEF LegKeyGoes
    <2>5. orders'[o].told = Len(orders[o].legs) /\ orders'[o].legs = orders[o].legs
      BY <2>2, <2>3, LegTypes DEF Grows, Keeps
    <2> QED BY <2>2, <2>3, <2>4, <2>5
  <1>10. LegsRingOnce'
    <2>1. SUFFICES ASSUME NEW o \in DOMAIN orders', o \notin blind',
                          NEW i \in 1 .. Len(orders'[o].legs)
          PROVE  orders'[o].legs[i].seen = i - 1
      BY DEF LegsRingOnce
    <2>2. o \in DOMAIN orders
      BY <1>3
    <2> QED BY <2>1, <2>2 DEF LegInv, LegsRingOnce
  <1> QED BY <1>6, <1>7, <1>8, <1>9, <1>10 DEF LegInv

\* A step that shows a view: the panel is current, or its order is blind.
LEMMA LegsShown ==
  ASSUME Typed, LegInv, NEW c \in Call, NEW v \in View, Shown(v, orders), Show(c, v),
         blind \cup Behind(v) \subseteq blind', UNCHANGED minted,
         \A d \in Call : calls'[d] = calls[d] \/ calls'[d] = Idle,
         LegKeyGoes
  PROVE  LegInv'
  <1>1. /\ Grows /\ panel' = v /\ DOMAIN orders' = DOMAIN orders
        /\ \A p \in DOMAIN orders :
             /\ orders'[p].legs = orders[p].legs
             /\ orders'[p].told = IF p = v.order /\ orders[p].told < v.legs
                                    THEN v.legs ELSE orders[p].told
    BY ShowTyped
  <1>2. v.order \in DOMAIN orders /\ v.legs \in Nat /\ v.legs <= Len(orders[v.order].legs)
    BY DEF Shown, View
  <1>3. \A o \in DOMAIN orders : orders'[o].told \in Nat /\ orders'[o].told <= Len(orders[o].legs)
    BY <1>1, <1>2, LegTypes DEF LegInv, OneLegUntold
  <1>4. PanelIsCurrent'
    <2>1. v.order \notin blind' => ~(v.legs < orders[v.order].told)
      BY DEF Behind
    <2>2. orders[v.order].told \in Nat
      BY <1>2, LegTypes
    <2>3. v.order \notin blind' => v.legs = orders'[v.order].told
      BY <1>1, <1>2, <2>1, <2>2
    <2> QED BY <1>1, <2>3 DEF PanelIsCurrent
  <1>5. \A d \in Call : calls'[d] = calls[d] \/ calls'[d].pc # "leg"
    BY DEF Idle
  <1> QED BY <1>1, <1>3, <1>4, <1>5, LegsKept, LegTypes

\* A step that neither shows nor taps anything.
LEMMA LegsQuiet ==
  ASSUME Typed, LegInv, Grows, LegsStay, DOMAIN orders' = DOMAIN orders,
         panel' = panel \/ panel' = None,
         LegKeyGoes, blind \subseteq blind', minted' \in Nat, minted <= minted',
         \A c \in Call : calls'[c] = calls[c] \/ calls'[c].pc # "leg"
  PROVE  LegInv'
  <1>1. \A o \in DOMAIN orders : /\ orders'[o].legs = orders[o].legs
                                 /\ orders'[o].told = orders[o].told
                                 /\ orders[o].told \in Nat
                                 /\ orders[o].told <= Len(orders[o].legs)
    BY LegTypes DEF LegsStay, LegInv, OneLegUntold
  <1>2. PanelIsCurrent'
    BY <1>1, LegTypes DEF PanelIsCurrent, LegInv
  <1> QED BY <1>1, <1>2, LegsKept, LegTypes

\* A new order has no legs.
LEMMA LegsCreated ==
  ASSUME Typed, LegInv, NEW c \in Call, ServeCreate(c)
  PROVE  LegInv'
  <1>1. Grows /\ LegsStay /\ calls[c].pc \in OutPC
    BY CreateTyped
  <1>2. PICK o \in DOMAIN orders' :
          /\ \/ o \in DOMAIN orders /\ UNCHANGED orders
             \/ /\ DOMAIN orders' = DOMAIN orders \cup {o} /\ o \notin DOMAIN orders
                /\ orders'[o] = NewRow(calls[c])
          /\ Answer(c, [pc |-> IF calls[c].pc = "hold" THEN "held" ELSE "charged",
                        of |-> calls[c].of, view |-> Shot(o, orders'[o])])
    BY CreateTyped
  <1>3. \A d \in Call : calls'[d] = calls[d] \/ calls'[d].pc # "leg"
    BY <1>2, AfterAnswer DEF Idle
  <1>4. UNCHANGED <<panel, legKey, minted, blind>>
    BY <1>2, AfterAnswer DEF keys, page
  <1>5. \A p \in DOMAIN orders : /\ orders'[p].legs = orders[p].legs
                                 /\ orders'[p].told = orders[p].told
                                 /\ orders[p].told \in Nat
                                 /\ orders[p].told <= Len(orders[p].legs)
    BY <1>1, LegTypes DEF LegsStay, LegInv, OneLegUntold
  <1>6. \A p \in DOMAIN orders' \ DOMAIN orders : orders'[p].legs = <<>> /\ orders'[p].told = 0
    BY <1>2 DEF NewRow
  <1>7. PanelIsCurrent'
    BY <1>4, <1>5, LegTypes DEF PanelIsCurrent, LegInv
  <1>8. LegKeyGoes /\ minted \in Nat /\ minted <= minted' /\ minted' \in Nat
    BY <1>4, LegTypes DEF LegKeyGoes
  <1> QED BY <1>1, <1>3, <1>4, <1>5, <1>6, <1>7, <1>8, LegsKept

\* A leg that is recorded was tapped by a cashier who saw all that are.
LEMMA LegsServed ==
  ASSUME Typed, LegInv, NEW c \in Call, ServeLeg(c)
  PROVE  LegInv'
  <1>0. PICK o \in DOMAIN orders, k \in Key : o = calls[c].order /\ k = calls[c].key
    BY LegServed, LegTypes
  <1> DEFINE n == Len(orders[o].legs)
             g == [key |-> k, seen |-> calls[c].seen]
  <1>1. /\ Grows /\ calls[c].pc = "leg" /\ o \in DOMAIN orders
        /\ DOMAIN orders' = DOMAIN orders
        /\ \A p \in DOMAIN orders \ {o} : orders'[p] = orders[p]
        /\ orders'[o].told = orders[o].told
        /\ \A d \in Call : calls'[d] = calls[d] \/ calls'[d].pc # "leg"
        /\ calls'[c].pc # "leg"
        /\ UNCHANGED <<panel, legKey, minted, blind>>
    <2>1. /\ calls'[c] = RungView(calls[c]) \/ calls'[c] = Idle
          /\ \A d \in Call \ {c} : calls'[d] = calls[d]
          /\ UNCHANGED <<panel, legKey, minted, blind>>
      BY LegServed, AfterAnswer DEF keys, page
    <2>2. RungView(calls[c]).pc # "leg" /\ Idle.pc # "leg"
      BY DEF RungView, Idle
    <2> QED BY <1>0, <2>1, <2>2, LegServed
  <1>2. CASE UNCHANGED orders
    <2>1. LegsStay /\ LegKeyGoes /\ minted \in Nat /\ minted <= minted' /\ minted' \in Nat
      BY <1>1, <1>2, LegTypes DEF LegsStay, LegKeyGoes
    <2> QED BY <1>1, <1>2, <2>1, LegsQuiet
  <1>3. CASE ~Known(o, k) /\ orders'[o].legs = Append(orders[o].legs, g)
    <2>1. /\ k \in Key /\ calls[c].seen \in Nat /\ n \in Nat /\ orders[o].legs \in Seq(Leg)
          /\ orders[o].told \in Nat /\ g \in Leg
      BY <1>0, <1>1, LegTypes, Rows, Parts DEF OrdersTyped, Leg
    <2>2. /\ Len(orders'[o].legs) = n + 1
          /\ \A i \in 1 .. n : orders'[o].legs[i] = orders[o].legs[i]
          /\ orders'[o].legs[n + 1] = g
      BY <1>3, <2>1, AppendProperties
    <2>3. g.key = k /\ g.seen = calls[c].seen
      OBVIOUS
    <2>4. \A i \in 1 .. n : orders[o].legs[i].key # k
      BY <1>3 DEF Known
    <2>5. o \notin blind => /\ legKey # None /\ legKey.order = o /\ legKey.key = k
                            /\ calls[c].seen = n /\ orders[o].told = n
      BY <1>0, <1>1, <1>3 DEF LegInv, UnknownLegIsNext
    <2> HIDE DEF g, n
    <2>6. \A p \in DOMAIN orders, x \in Key :
            /\ Known(p, x) => Known(p, x)'
            /\ Known(p, x)' => Known(p, x) \/ (p = o /\ x = k)
            /\ Known(o, k)'
      <3>1. TAKE p \in DOMAIN orders, x \in Key
      <3>2. Known(p, x) => Known(p, x)'
        BY <1>1, <2>1, <2>2 DEF Known, n
      <3>3. Known(p, x)' => Known(p, x) \/ (p = o /\ x = k)
        <4>1. CASE p # o
          BY <1>1, <4>1 DEF Known
        <4>2. CASE p = o
          <5>1. \A i \in 1 .. Len(orders'[o].legs) :
                  i \in 1 .. n \/ i = n + 1
            BY <2>1, <2>2
          <5> QED BY <2>2, <2>3, <4>2, <5>1 DEF Known, n
        <4> QED BY <4>1, <4>2
      <3>4. Known(o, k)'
        <4>1. n + 1 \in 1 .. Len(orders'[o].legs) /\ orders'[o].legs[n + 1].key = k
          BY <2>1, <2>2, <2>3
        <4> QED BY <4>1 DEF Known
      <3> QED BY <3>2, <3>3, <3>4
    <2>7. \A p \in DOMAIN orders, x \in Key : Uses(p, x)' => Uses(p, x)
      BY <1>0, <1>1, <2>1, <2>6 DEF Uses
    <2>8. LegKeysNameOrders'
      BY <1>1, <2>7 DEF LegInv, LegKeysNameOrders
    <2>9. LegKeysDiffer'
      <3>1. SUFFICES ASSUME NEW p \in DOMAIN orders', NEW i \in 1 .. Len(orders'[p].legs),
                            NEW j \in 1 .. Len(orders'[p].legs),
                            orders'[p].legs[i].key = orders'[p].legs[j].key
            PROVE  i = j
        BY DEF LegKeysDiffer
      <3>2. CASE p # o
        BY <1>1, <3>1, <3>2 DEF LegInv, LegKeysDiffer
      <3>3. CASE p = o
        <4>1. /\ i \in 1 .. n \/ i = n + 1
              /\ j \in 1 .. n \/ j = n + 1
          BY <2>1, <2>2, <3>3
        <4>2. CASE i \in 1 .. n /\ j \in 1 .. n
          <5>1. orders'[o].legs[i] = orders[o].legs[i] /\ orders'[o].legs[j] = orders[o].legs[j]
            BY <2>2, <4>2
          <5>2. orders[o].legs[i].key = orders[o].legs[j].key
            BY <3>1, <3>3, <5>1
          <5> QED BY <4>2, <5>2 DEF LegInv, LegKeysDiffer, n
        <4>3. CASE i = n + 1 /\ j \in 1 .. n
          BY <2>2, <2>3, <2>4, <3>1, <3>3, <4>3
        <4>4. CASE i \in 1 .. n /\ j = n + 1
          BY <2>2, <2>3, <2>4, <3>1, <3>3, <4>4
        <4> QED BY <4>1, <4>2, <4>3, <4>4
      <3> QED BY <3>2, <3>3
    <2>10. PanelIsCurrent'
      BY <1>1, LegTypes DEF PanelIsCurrent, LegInv
    <2>11. OneLegUntold'
      <3>1. SUFFICES ASSUME NEW p \in DOMAIN orders'
            PROVE  /\ orders'[p].told <= Len(orders'[p].legs)
                   /\ p \notin blind' =>
                        \/ orders'[p].told = Len(orders'[p].legs)
                        \/ /\ orders'[p].told + 1 = Len(orders'[p].legs)
                           /\ legKey' # None /\ legKey'.order = p
                           /\ legKey'.key = orders'[p].legs[Len(orders'[p].legs)].key
        BY DEF OneLegUntold
      <3>2. CASE p # o
        BY <1>1, <3>2 DEF LegInv, OneLegUntold
      <3>3. CASE p = o
        <4>1. orders[o].told <= n
          BY <1>1 DEF LegInv, OneLegUntold, n
        <4> QED BY <1>1, <2>1, <2>2, <2>3, <2>5, <3>3, <4>1
      <3> QED BY <3>2, <3>3
    <2>12. UnknownLegIsNext'
      <3>1. SUFFICES ASSUME NEW d \in Call, calls'[d].pc = "leg", calls'[d].order \notin blind',
                            ~Known(calls[d].order, calls[d].key)'
            PROVE  /\ legKey' # None /\ legKey'.order = calls'[d].order
                   /\ legKey'.key = calls'[d].key
                   /\ calls'[d].seen = Len(orders'[calls'[d].order].legs)
                   /\ orders'[calls'[d].order].told = Len(orders'[calls'[d].order].legs)
        BY DEF UnknownLegIsNext
      <3>2. calls'[d] = calls[d] /\ d # c
        BY <1>1, <3>1
      <3>3. calls[d].order \in DOMAIN orders /\ calls[d].key \in Key /\ calls[d].pc = "leg"
        BY <3>1, <3>2, LegTypes
      <3> DEFINE p == calls[d].order
                 x == calls[d].key
      <3>4. \A q \in DOMAIN orders, y \in Key :
              q = calls'[d].order /\ y = calls'[d].key => ~Known(q, y)'
        BY <3>1 DEF Known
      <3>5. ~Known(p, x) /\ ~(p = o /\ x = k) /\ p \notin blind
        BY <1>1, <2>6, <3>1, <3>2, <3>3, <3>4
      <3>6. /\ legKey # None /\ legKey.order = p /\ legKey.key = x
            /\ calls[d].seen = Len(orders[p].legs) /\ orders[p].told = Len(orders[p].legs)
        BY <3>3, <3>5 DEF LegInv, UnknownLegIsNext
      <3>7. p # o
        BY <2>5, <3>5, <3>6
      <3> QED BY <1>1, <3>2, <3>3, <3>6, <3>7
    <2>13. LegsRingOnce'
      <3>1. SUFFICES ASSUME NEW p \in DOMAIN orders', p \notin blind',
                            NEW i \in 1 .. Len(orders'[p].legs)
            PROVE  orders'[p].legs[i].seen = i - 1
        BY DEF LegsRingOnce
      <3>2. CASE p # o
        BY <1>1, <3>1, <3>2 DEF LegInv, LegsRingOnce
      <3>3. CASE p = o /\ i \in 1 .. n
        <4>1. orders'[o].legs[i] = orders[o].legs[i] /\ o \notin blind
          BY <1>1, <2>2, <3>1, <3>3
        <4>2. orders[o].legs[i].seen = i - 1
          BY <3>3, <4>1 DEF LegInv, LegsRingOnce, n
        <4> QED BY <3>3, <4>1, <4>2
      <3>4. CASE p = o /\ i = n + 1
        BY <1>1, <2>1, <2>2, <2>3, <2>5, <3>1, <3>4
      <3>5. p = o => i \in 1 .. n \/ i = n + 1
        BY <2>1, <2>2
      <3> QED BY <3>2, <3>3, <3>4, <3>5
    <2> QED BY <2>8, <2>9, <2>10, <2>11, <2>12, <2>13 DEF LegInv
  <1> QED BY <1>0, <1>2, <1>3, LegServed

\* A leg that is tapped is retried under its key, or gets a key no other leg
\* has, and the order of the key that is given up is blind.
LEMMA LegsRecorded ==
  ASSUME Typed, LegInv, NEW c \in Call, panel # None,
         NEW a \in 1 .. Remaining(panel), RecordLeg(c, a)
  PROVE  LegInv'
  <1>0. PICK o \in DOMAIN orders, k \in Key : o = panel.order /\ k = LegKey(o)
    BY RecordTyped
  <1>1. /\ legKey' # None /\ legKey'.order = o /\ legKey'.key = k
        /\ minted' = IF k > minted THEN k ELSE minted
        /\ blind' = blind \cup (GivenUp(k) \ {o})
        /\ calls'[c].pc = "leg" /\ calls'[c].order = o /\ calls'[c].key = k
        /\ calls'[c].seen = panel.legs
        /\ \A d \in Call \ {c} : calls'[d] = calls[d]
        /\ UNCHANGED <<orders, panel>>
    <2>1. calls \in [Call -> CallState]
      BY Parts DEF CallsTyped
    <2>2. legKey' = [order |-> o, key |-> k] /\ o \in Nat /\ k \in Nat
      BY <1>0, RecordTyped, Rows, LegTypes, Parts DEF OrdersTyped, Id
    <2>3. legKey' # None
      BY <2>2, TillAssumption
    <2> QED BY <1>0, <2>1, <2>2, <2>3, RecordTyped
  <1>2. \A p \in DOMAIN orders, x \in Key : Known(p, x)' <=> Known(p, x)
    BY <1>1 DEF Known
  <1>3. \A p \in DOMAIN orders, x \in Key : Uses(p, x)' => Uses(p, x) \/ (p = o /\ x = k)
    BY <1>1, <1>2 DEF Uses
  <1>4. /\ minted \in Nat /\ k \in Nat /\ minted <= minted' /\ k <= minted' /\ minted' \in Nat
    BY <1>1, LegTypes
  <1>5. \/ /\ legKey # None /\ legKey.order = o /\ legKey.key = k
           /\ Uses(o, k) /\ blind' = blind
        \/ /\ legKey # None => legKey.order # o /\ legKey.order \in blind'
           /\ \A p \in DOMAIN orders : ~Uses(p, k)
    <2>1. CASE legKey # None /\ legKey.order = o
      <3>1. k = legKey.key
        BY <1>0, <2>1 DEF LegKey
      <3>2. GivenUp(k) = {}
        BY <3>1 DEF GivenUp
      <3> QED BY <1>1, <2>1, <3>1, <3>2 DEF Uses
    <2>2. CASE ~(legKey # None /\ legKey.order = o)
      <3>1. k = minted + 1
        BY <1>0, <2>2 DEF LegKey
      <3>2. \A p \in DOMAIN orders : ~Uses(p, k)
        BY <1>4, <3>1 DEF LegInv, LegKeysNameOrders
      <3>3. ASSUME legKey # None
            PROVE  legKey.order # o /\ legKey.order \in blind'
        <4>1. legKey.key # k
          BY <3>2, <3>3, LegTypes DEF Uses
        <4> QED BY <1>1, <2>2, <3>3, <4>1 DEF GivenUp
      <3> QED BY <3>2, <3>3
    <2> QED BY <2>1, <2>2
  <1>6. LegKeysNameOrders'
    <2>1. SUFFICES ASSUME NEW x \in Key, NEW p \in DOMAIN orders, NEW q \in DOMAIN orders,
                          Uses(p, x)'
          PROVE  x <= minted' /\ (Uses(q, x)' => p = q)
      BY <1>1 DEF LegKeysNameOrders
    <2>2. x \in Nat /\ (Uses(p, x) => x <= minted)
      BY LegTypes DEF LegInv, LegKeysNameOrders
    <2>3. x <= minted'
      BY <1>3, <1>4, <2>1, <2>2
    <2>4. Uses(p, x) /\ Uses(q, x) => p = q
      BY DEF LegInv, LegKeysNameOrders
    <2>5. \A r \in DOMAIN orders : Uses(r, k) => r = o
      BY <1>5 DEF LegInv, LegKeysNameOrders
    <2> QED BY <1>3, <2>1, <2>3, <2>4, <2>5
  <1>7. LegKeysDiffer' /\ LegsRingOnce'
    BY <1>1 DEF LegInv, LegKeysDiffer, LegsRingOnce
  <1>8. PanelIsCurrent'
    BY <1>1 DEF LegInv, PanelIsCurrent
  <1>9. OneLegUntold'
    <2>1. SUFFICES ASSUME NEW p \in DOMAIN orders
          PROVE  /\ orders[p].told <= Len(orders[p].legs)
                 /\ p \notin blind' =>
                      \/ orders[p].told = Len(orders[p].legs)
                      \/ /\ orders[p].told + 1 = Len(orders[p].legs)
                         /\ legKey' # None /\ legKey'.order = p
                         /\ legKey'.key = orders[p].legs[Len(orders[p].legs)].key
      BY <1>1 DEF OneLegUntold
    <2>2. /\ orders[p].told <= Len(orders[p].legs)
          /\ p \notin blind' =>
               \/ orders[p].told = Len(orders[p].legs)
               \/ /\ orders[p].told + 1 = Len(orders[p].legs)
                  /\ legKey # None /\ legKey.order = p
                  /\ legKey.key = orders[p].legs[Len(orders[p].legs)].key
      BY <1>1 DEF LegInv, OneLegUntold
    <2> QED BY <1>1, <1>5, <2>2
  <1>10. UnknownLegIsNext'
    <2>1. SUFFICES ASSUME NEW d \in Call, calls'[d].pc = "leg", calls'[d].order \notin blind',
                          ~Known(calls[d].order, calls[d].key)'
          PROVE  /\ legKey' # None /\ legKey'.order = calls'[d].order
                 /\ legKey'.key = calls'[d].key
                 /\ calls'[d].seen = Len(orders[calls'[d].order].legs)
                 /\ orders[calls'[d].order].told = Len(orders[calls'[d].order].legs)
      BY <1>1 DEF UnknownLegIsNext
    <2>2. \A q \in DOMAIN orders, y \in Key :
            q = calls'[d].order /\ y = calls'[d].key => ~Known(q, y)
      <3>1. \A q \in DOMAIN orders, y \in Key :
              q = calls'[d].order /\ y = calls'[d].key => ~Known(q, y)'
        BY <2>1 DEF Known
      <3> QED BY <1>2, <3>1
    <2>3. CASE d # c
      <3>1. calls'[d] = calls[d] /\ calls[d].order \in DOMAIN orders /\ calls[d].key \in Key
        BY <1>1, <2>1, <2>3, LegTypes
      <3>2. /\ legKey # None /\ legKey.order = calls[d].order /\ legKey.key = calls[d].key
            /\ calls[d].seen = Len(orders[calls[d].order].legs)
            /\ orders[calls[d].order].told = Len(orders[calls[d].order].legs)
        BY <1>1, <2>1, <2>2, <3>1 DEF LegInv, UnknownLegIsNext
      <3> QED BY <1>1, <1>5, <2>1, <3>1, <3>2
    <2>4. CASE d = c
      <3>1. ~Known(o, k) /\ o \notin blind
        BY <1>1, <2>1, <2>2, <2>4
      <3>2. panel.legs = orders[o].told
        BY <1>0, <3>1 DEF LegInv, PanelIsCurrent
      <3>3. orders[o].told = Len(orders[o].legs)
        <4>1. SUFFICES ASSUME orders[o].told # Len(orders[o].legs)
              PROVE  FALSE
          OBVIOUS
        <4>2. /\ orders[o].told + 1 = Len(orders[o].legs)
              /\ legKey # None /\ legKey.order = o
              /\ legKey.key = orders[o].legs[Len(orders[o].legs)].key
          BY <3>1, <4>1 DEF LegInv, OneLegUntold
        <4>3. Len(orders[o].legs) \in 1 .. Len(orders[o].legs)
          BY <4>2, LegTypes
        <4>4. legKey.key = k
          BY <1>5, <4>2
        <4> QED BY <3>1, <4>2, <4>3, <4>4 DEF Known
      <3> QED BY <1>1, <2>4, <3>2, <3>3
    <2> QED BY <2>3, <2>4
  <1> QED BY <1>6, <1>7, <1>8, <1>9, <1>10 DEF LegInv

\* A leg's answer drops the leg's own key, which has been told of then, or the
\* key of an order that is blind from then on.
LEMMA LegsRung ==
  ASSUME Typed, LegInv, NEW c \in Call, TakeRung(c)
  PROVE  LegInv'
  <1>0. /\ calls[c].pc = "rung" /\ calls[c].view \in View /\ calls[c].key \in Key
        /\ Shown(calls[c].view, orders)
        /\ \E i \in 1 .. calls[c].view.legs :
             orders[calls[c].view.order].legs[i].key = calls[c].key
    BY Viewed, CallShapes, Parts DEF TakeRung, ViewPC, CallsTyped, CallsRefer, Refers
  <1>1. PICK v \in View, k \in Key : v = calls[c].view /\ k = calls[c].key
    BY <1>0
  <1>2. /\ Answered(c) /\ Show(c, v) /\ legKey' = None
        /\ blind' = blind \cup GivenUp(k) \cup Behind(v)
    BY <1>1 DEF TakeRung
  <1>3. PICK o \in DOMAIN orders : o = v.order
    BY <1>0, <1>1 DEF Shown
  <1>4. PICK i \in 1 .. v.legs : orders[o].legs[i].key = k
    BY <1>0, <1>1, <1>3
  <1>5. v.legs \in Nat /\ v.legs <= Len(orders[o].legs) /\ Len(orders[o].legs) \in Nat
    BY <1>0, <1>1, <1>3, LegTypes DEF Shown, View
  <1>6. Grows /\ orders'[o].told = IF orders[o].told < v.legs THEN v.legs ELSE orders[o].told
    BY <1>0, <1>1, <1>2, <1>3, ShowTyped
  <1>7. UNCHANGED minted /\ \A d \in Call : calls'[d] = calls[d] \/ calls'[d] = Idle
    BY <1>2, <1>6, AnsweredCalls
  <1>8. LegKeyGoes
    <2>1. SUFFICES ASSUME legKey # None, legKey.order \notin blind'
          PROVE  /\ Known(legKey.order, legKey.key)
                 /\ orders'[legKey.order].told = Len(orders[legKey.order].legs)
      BY <1>2 DEF LegKeyGoes
    <2>2. legKey.key = k /\ legKey.order \in DOMAIN orders
      BY <1>2, <2>1, LegTypes DEF GivenUp
    <2>3. i \in 1 .. Len(orders[o].legs) /\ Known(o, k)
      BY <1>4, <1>5 DEF Known
    <2>4. legKey.order = o
      BY <2>1, <2>2, <2>3 DEF LegInv, LegKeysNameOrders, Uses
    <2>5. o \notin blind
      BY <1>2, <2>1, <2>4
    <2>6. orders[o].told \in Nat /\ orders[o].told <= Len(orders[o].legs)
      BY LegTypes DEF LegInv, OneLegUntold
    <2>7. orders'[o].told = Len(orders[o].legs)
      <3>1. CASE orders[o].told = Len(orders[o].legs)
        BY <1>5, <1>6, <2>6, <3>1
      <3>2. CASE orders[o].told # Len(orders[o].legs)
        <4>1. orders[o].told + 1 = Len(orders[o].legs)
              /\ legKey.key = orders[o].legs[Len(orders[o].legs)].key
          BY <2>5, <3>2 DEF LegInv, OneLegUntold
        <4>2. i = Len(orders[o].legs)
          BY <1>4, <1>5, <2>2, <2>3, <4>1 DEF LegInv, LegKeysDiffer
        <4> QED BY <1>5, <1>6, <2>6, <4>1, <4>2
      <3> QED BY <3>1, <3>2
    <2> QED BY <2>2, <2>3, <2>4, <2>7
  <1> QED BY <1>0, <1>1, <1>2, <1>7, <1>8, LegsShown

\* The answer to a charge, or to a held order that is fetched, is shown.
LEMMA LegsTold ==
  ASSUME Typed, LegInv, NEW c \in Call, TakeCharged(c) \/ TakeFetched(c)
  PROVE  LegInv'
  <1>1. calls[c].view \in View /\ Shown(calls[c].view, orders)
    BY Viewed DEF TakeCharged, TakeFetched, ViewPC
  <1>2. PICK v \in View : v = calls[c].view
    BY <1>1
  <1>3. /\ Answered(c) /\ Show(c, v) /\ legKey' = legKey
        /\ blind' = blind \cup Behind(v)
    BY <1>2 DEF TakeCharged, TakeFetched
  <1>4. Grows
    BY <1>1, <1>2, <1>3, ShowTyped
  <1>5. UNCHANGED minted /\ \A d \in Call : calls'[d] = calls[d] \/ calls'[d] = Idle
    BY <1>3, <1>4, AnsweredCalls
  <1> QED BY <1>1, <1>2, <1>3, <1>5, LegsShown DEF LegKeyGoes

\* A request of a held order is answered.
LEMMA LegsAfterAnswer ==
  ASSUME Typed, LegInv, Grows, LegsStay, DOMAIN orders' = DOMAIN orders,
         NEW c \in Call, NEW r \in CallState, Answer(c, r), r.pc # "leg"
  PROVE  LegInv'
  <1>1. \A d \in Call : calls'[d] = calls[d] \/ calls'[d].pc # "leg"
    BY AfterAnswer DEF Idle
  <1>2. UNCHANGED <<panel, legKey, minted, blind>>
    BY AfterAnswer DEF keys, page
  <1> QED BY <1>1, <1>2, LegTypes, LegsQuiet DEF LegKeyGoes

\* A step that leaves the orders, the panel and the leg key alone.
LEMMA LegsIdle ==
  ASSUME Typed, LegInv, UNCHANGED <<orders, legKey, blind>>,
         panel' = panel \/ panel' = None, minted' \in Nat, minted <= minted',
         \A c \in Call : calls'[c] = calls[c] \/ calls'[c].pc # "leg"
  PROVE  LegInv'
  <1>1. Grows /\ LegsStay
    BY SameOrders, Parts DEF OrdersTyped
  <1> QED BY <1>1, LegsQuiet DEF LegKeyGoes

\* At the start there is no leg.
LEMMA LegsInit ==
  ASSUME Init
  PROVE  LegInv
  <1>1. DOMAIN orders = {} /\ panel = None /\ \A c \in Call : calls[c].pc # "leg"
    BY DEF Init, Idle
  <1> QED BY <1>1 DEF LegInv, LegKeysNameOrders, LegKeysDiffer, PanelIsCurrent,
                      OneLegUntold, UnknownLegIsNext, LegsRingOnce

\* Whatever the API answers keeps a leg tied to its key.
LEMMA LegsStepApi ==
  ASSUME Typed, LegInv, ApiStep
  PROVE  LegInv'
  <1>1. ASSUME NEW c \in Call, ServeCreate(c) \/ ServeLeg(c)
        PROVE  LegInv'
    BY <1>1, LegsCreated, LegsServed
  <1>2. ASSUME NEW c \in Call, ServeResume(c)
        PROVE  LegInv'
    <2>1. PICK r \in CallState : r.pc = "fetch" /\ Answer(c, r)
      BY <1>2, ResumeServed
    <2> QED BY <1>2, <2>1, ResumeServed, LegsAfterAnswer
  <1>3. ASSUME NEW c \in Call, ServeFetch(c)
        PROVE  LegInv'
    <2>1. PICK r \in CallState : r.pc = "fetched" /\ Answer(c, r)
      BY <1>3, FetchServed
    <2> QED BY <1>3, <2>1, FetchServed, LegsAfterAnswer
  <1>4. ASSUME NEW o \in DOMAIN orders,
               PlaceElsewhere(o) \/ \E a \in 1 .. Outstanding(o) : PayElsewhere(o, a)
        PROVE  LegInv'
    <2>1. /\ Grows /\ LegsStay /\ DOMAIN orders' = DOMAIN orders
          /\ UNCHANGED <<panel, legKey, blind, minted, calls>>
      BY <1>4, ElsewhereTyped DEF keys, page
    <2> QED BY <2>1, LegTypes, LegsQuiet DEF LegKeyGoes
  <1> QED BY <1>1, <1>2, <1>3, <1>4 DEF ApiStep

\* So does whatever happens at the cart.
LEMMA LegsStepCart ==
  ASSUME Typed, LegInv, CartStep
  PROVE  LegInv'
  <1>1. minted \in Nat /\ \A n \in Nat : n <= n
    BY LegTypes
  <1>2. ASSUME NEW x \in Content \cup {None}, Edit(x)
        PROVE  LegInv'
    BY <1>1, <1>2, LegsIdle DEF Edit, keys, page
  <1>3. ASSUME NEW c \in Call, NEW pc \in OutPC, NEW split \in BOOLEAN,
               Send(c, pc, split), parked' \in BOOLEAN
        PROVE  LegInv'
    <2>1. OrderKey \in Nat /\ minted' = IF OrderKey > minted THEN OrderKey ELSE minted
      BY <1>3, SendTyped, LegTypes
    <2>2. \A d \in Call : calls'[d] = calls[d] \/ calls'[d].pc # "leg"
      BY <1>3, SendTyped, Parts DEF CallsTyped, OutPC
    <2> QED BY <1>1, <1>3, <2>1, <2>2, LegsIdle DEF Send, page
  <1>4. ASSUME NEW c \in Call, TakeHeld(c)
        PROVE  LegInv'
    <2>1. Grows
      BY <1>4, SameOrders, Parts DEF TakeHeld, OrdersTyped
    <2>2. UNCHANGED minted /\ \A d \in Call : calls'[d] = calls[d] \/ calls'[d].pc # "leg"
      BY <1>4, <2>1, AnsweredCalls DEF TakeHeld, Idle
    <2> QED BY <1>1, <1>4, <2>2, LegsIdle DEF TakeHeld, page
  <1>5. ASSUME ClearTap
        PROVE  LegInv'
    BY <1>1, <1>5, LegsIdle DEF ClearTap, page
  <1>6. ASSUME NEW c \in Call, Hold(c)
        PROVE  LegInv'
    BY <1>3, <1>6 DEF Hold, OutPC
  <1>7. ASSUME NEW c \in Call, NEW split \in BOOLEAN, Charge(c, split)
        PROVE  LegInv'
    <2>1. Send(c, "charge", split) /\ parked' \in BOOLEAN /\ "charge" \in OutPC
      BY <1>7, Parts DEF Charge, OutPC, CartTyped
    <2> QED BY <1>3, <2>1
  <1> QED BY <1>2, <1>4, <1>5, <1>6, <1>7, LegsTold DEF CartStep

\* So does whatever happens at the payment panel.
LEMMA LegsStepPanel ==
  ASSUME Typed, LegInv, PanelStep
  PROVE  LegInv'
  <1>1. ASSUME NEW c \in Call, NEW o \in DOMAIN orders, Resume(c, o)
        PROVE  LegInv'
    <2>1. \A d \in Call : calls'[d] = calls[d] \/ calls'[d].pc # "leg"
      BY <1>1, Parts DEF Resume, CallsTyped
    <2> QED BY <1>1, <2>1, LegTypes, LegsIdle DEF Resume, keys, page
  <1>2. ASSUME NewOrder
        PROVE  LegInv'
    BY <1>2, LegTypes, LegsIdle DEF NewOrder, keys
  <1> QED BY <1>1, <1>2, LegsTold, LegsRung, LegsRecorded DEF PanelStep

\* So does every step, calls that fail among them.
LEMMA LegsPreserved ==
  ASSUME Typed, LegInv, [Next]_vars
  PROVE  LegInv'
  <1>1. ASSUME NEW c \in Call, FailCall(c)
        PROVE  LegInv'
    <2>1. \A d \in Call : calls'[d] = calls[d] \/ calls'[d].pc # "leg"
      BY <1>1, FailTyped DEF Idle
    <2> QED BY <1>1, <2>1, LegTypes, LegsIdle DEF FailCall, keys
  <1>2. ASSUME Leave
        PROVE  LegInv'
    <2>1. Grows /\ LegsStay
      BY <1>2, SameOrders, Parts DEF Leave, OrdersTyped
    <2>2. \A d \in Call : calls'[d] = calls[d] \/ calls'[d].pc # "leg"
      BY <1>2, LeaveTyped DEF Idle
    <2>3. LegKeyGoes
      <3>1. legKey # None => legKey.order \in blind'
        BY <1>2, TillAssumption, LegTypes DEF Leave, GivenUp
      <3> QED BY <1>2, <3>1 DEF Leave, LegKeyGoes
    <2> QED BY <1>2, <2>1, <2>2, <2>3, LegTypes, LegsQuiet DEF Leave
  <1>3. ASSUME UNCHANGED vars
        PROVE  LegInv'
    BY <1>3, LegTypes, LegsIdle DEF vars
  <1> QED BY <1>1, <1>2, <1>3, LegsStepApi, LegsStepCart, LegsStepPanel DEF Next

\* No retry of a split's leg rings it up twice: each was tapped by a cashier
\* who saw all legs before it, but for the orders whose leg key was lost or
\* whose panel was put back.
THEOREM LegsOnce == Spec => []LegsRingOnce
  <1>1. Init => Typed /\ LegInv
    BY InitTyped, LegsInit
  <1>2. Typed /\ LegInv /\ [Next]_vars => Typed' /\ LegInv'
    BY TypedStep, LegsPreserved
  <1>3. LegInv => LegsRingOnce
    BY DEF LegInv
  <1> QED BY <1>1, <1>2, <1>3, PTL DEF Spec
=============================================================================
