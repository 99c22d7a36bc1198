---------------------------- MODULE OrdersProofs ----------------------------
(***************************************************************************)
(* Theorems about Orders, for every set of orders, workers, keys, drafts   *)
(* and tenders, and every bound.                                           *)
(***************************************************************************)
EXTENDS Orders, TLAPS

\* Each pc belongs to one shape of request, which says what the fields hold.
LEMMA RequestShapes ==
  ASSUME NEW r \in Request
  PROVE  /\ r.pc \in {"number", "insert", "lookup"} => r \in CreateRequest
         /\ r.pc = "update" => r \in StatusRequest
         /\ r.pc \in {"paySum", "payInsert", "refundSum", "refundInsert"}
              => r \in TenderRequest
         /\ r.pc \in {"earnRead", "earnWrite", "reverse", "restore"}
              => r \in PointsRequest
  BY DEF Request, Idle, CreateRequest, StatusRequest, TenderRequest,
         PointsRequest

\* A row with another status is a row.
LEMMA StatusChange ==
  ASSUME NEW r \in Row, NEW s \in Status
  PROVE  [r EXCEPT !.status = s] \in Row
  BY DEF Row

\* Every value a variable takes is one its table or worker can hold.
THEOREM Typing == Spec => []TypeOK
  <1>1. Init => TypeOK
    BY OrdersAssumption
    DEF Init, TypeOK, NoRow, Row, Basket, MaybeKey, Request, Timeline
  <1>2. ASSUME TypeOK, [Next]_vars
        PROVE  TypeOK'
    <2> USE OrdersAssumption, TypeOK
    <2>1. ASSUME NEW o \in Order, NEW k \in Key, CreateReplay(o, k)
          PROVE  TypeOK'
      BY <2>1 DEF TypeOK, CreateReplay, Answer, money, stock
    <2>2. ASSUME NEW o \in Order, ReverseArrive(o)
          PROVE  TypeOK'
      BY <2>2 DEF TypeOK, ReverseArrive, Reversal, EntryType, money, stock
    <2>3. ASSUME NEW w \in Worker, NEW d \in Draft, CreateArrive(w, d)
          PROVE  TypeOK'
      <3>1. [pc |-> "number", draft |-> d, number |-> 0, attempt |-> 0]
              \in Request
        BY DEF Request, CreateRequest
      <3>2. QED
        BY <2>3, <3>1 DEF TypeOK, CreateArrive, Take, money, stock
    <2>4. ASSUME NEW w \in Worker, CreateNumber(w)
          PROVE  TypeOK'
      <3>1. req[w] \in CreateRequest
        BY <2>4, RequestShapes DEF TypeOK, CreateNumber, At
      <3>2. PICK last \in {0} \cup {orders[o].number : o \in Order} :
              req' = [req EXCEPT ![w] =
                 [req[w] EXCEPT !.pc = "insert", !.number = last + 1]]
        BY <2>4 DEF CreateNumber, GoTo
      <3>3. last + 1 \in Nat
        BY DEF TypeOK, Row
      <3>4. \A n \in Nat : [req[w] EXCEPT !.pc = "insert", !.number = n] \in Request
        BY <3>1 DEF Request, CreateRequest
      <3>5. QED
        BY <2>4, <3>2, <3>3, <3>4 DEF TypeOK, CreateNumber, GoTo, money, stock
    <2>5. ASSUME NEW w \in Worker, CreateInsert(w)
          PROVE  TypeOK'
      <3>1. req[w] \in CreateRequest
        BY <2>5, RequestShapes DEF TypeOK, CreateInsert, At
      <3> DEFINE d == req[w].draft
                 status == Opening(d)
      <3>2. d \in DraftType /\ req[w].number \in Nat
        BY <3>1 DEF CreateRequest
      <3>3. PICK o \in Order :
             /\ orders' = [orders EXCEPT ![o] =
                  [status |-> status, total |-> d.total, key |-> d.key,
                   basket |-> d.basket, number |-> req[w].number,
                   member |-> d.member]]
             /\ captured' = [captured EXCEPT ![o] =
                                IF d.paid THEN d.total ELSE 0]
             /\ payKey' = IF d.paid /\ d.key # NoKey
                            THEN [payKey EXCEPT ![d.key] = o] ELSE payKey
             /\ used' = [used EXCEPT ![o] =
                            Depletion(d)]
             /\ points' = [points EXCEPT ![o] =
                              IF d.redeem THEN {"REDEEM"} ELSE {}]
             /\ trail' = [trail EXCEPT ![o] =
                             <<[from |-> "ABSENT", to |-> status]>>]
             /\ Answer(d.key, {o})
             /\ GoTo(w, IF d.member /\ d.paid
                          THEN [pc |-> "earnRead", order |-> o] ELSE Idle)
        BY <2>5 DEF CreateInsert
      <3>4. orders' \in [Order -> Row] /\ captured' \in [Order -> Nat]
        BY <3>2, <3>3 DEF TypeOK, Row, DraftType, Status, Opening
      <3>5. payKey' \in [Key -> Order \cup {NoOrder}]
        BY <3>2, <3>3 DEF TypeOK, DraftType, MaybeKey
      <3>6. used' \in [Order -> Nat]
        BY <3>2, <3>3 DEF TypeOK, DraftType, Basket, Units, Depletion
      <3>7. points' \in [Order -> SUBSET EntryType]
        BY <3>3 DEF TypeOK, EntryType
      <3>8. trail' \in [Order -> Timeline]
        BY <3>3 DEF TypeOK, Status, Event, Timeline, Opening
      <3>9. req' \in [Worker -> Request] /\ sent' \in 0 .. MaxRequests
        BY <3>3 DEF TypeOK, GoTo, Request, PointsRequest
      <3>10. answered' \in [Key -> SUBSET Order]
        BY <3>2, <3>3 DEF TypeOK, Answer, DraftType, MaybeKey
      <3>11. QED
        BY <2>5, <3>4, <3>5, <3>6, <3>7, <3>8, <3>9, <3>10
        DEF TypeOK, CreateInsert
    <2>6. ASSUME NEW w \in Worker, CreateRetry(w) \/ CreateKeyLost(w)
          PROVE  TypeOK'
      <3>1. req[w] \in CreateRequest
        BY <2>6, RequestShapes DEF TypeOK, CreateRetry, CreateKeyLost, At
      <3>2. /\ [req[w] EXCEPT !.pc = "lookup"] \in Request
            /\ \A n \in 0 .. MaxAttempts :
                [req[w] EXCEPT !.pc = "number", !.attempt = n] \in Request
        BY <3>1 DEF Request, CreateRequest
      <3>3. req[w].attempt + 1 < MaxAttempts =>
              req[w].attempt + 1 \in 0 .. MaxAttempts
        BY <3>1 DEF CreateRequest
      <3>4. Idle \in Request
        BY DEF Request
      <3>5. \E r \in Request : GoTo(w, r)
        <4>1. CASE CreateRetry(w) /\ req[w].attempt + 1 < MaxAttempts
          BY <4>1, <3>2, <3>3 DEF CreateRetry
        <4>2. CASE CreateRetry(w) /\ ~(req[w].attempt + 1 < MaxAttempts)
          BY <4>2, <3>4 DEF CreateRetry
        <4>3. CASE CreateKeyLost(w)
          BY <4>3, <3>2 DEF CreateKeyLost
        <4>4. QED
          BY <2>6, <4>1, <4>2, <4>3
      <3>6. QED
        BY <2>6, <3>5 DEF TypeOK, CreateRetry, CreateKeyLost, GoTo, money, stock
    <2>7. ASSUME NEW w \in Worker, CreateLookup(w)
          PROVE  TypeOK'
      <3>1. req[w] \in CreateRequest /\ Idle \in Request
        BY <2>7, RequestShapes DEF TypeOK, CreateLookup, At, Request
      <3>2. req[w].draft.key \in MaybeKey
        BY <3>1 DEF CreateRequest, DraftType
      <3>3. QED
        BY <2>7, <3>1, <3>2
        DEF TypeOK, CreateLookup, Answer, MaybeKey, GoTo, money, stock
    <2>8. ASSUME NEW w \in Worker, NEW o \in Order, NEW to \in Status,
                 StatusRead(w, o, to)
          PROVE  TypeOK'
      <3>1. [pc |-> "update", order |-> o, from |-> orders[o].status,
             to |-> to] \in Request
        BY <2>8 DEF TypeOK, StatusRead, Exists, Row, Request, StatusRequest
      <3>2. QED
        BY <2>8, <3>1 DEF TypeOK, StatusRead, Take, money, stock
    <2>9. ASSUME NEW w \in Worker, StatusWrite(w)
          PROVE  TypeOK'
      <3>1. req[w] \in StatusRequest /\ Idle \in Request
        BY <2>9, RequestShapes DEF TypeOK, StatusWrite, At, Request
      <3> DEFINE o == req[w].order
      <3>2. /\ o \in Order
            /\ req[w].to \in Status
            /\ orders[o].basket.products \in Nat
        BY <3>1 DEF TypeOK, StatusRequest, Row, Basket
      <3>3. /\ orders' \in [Order -> Row]
            /\ used' \in [Order -> Nat] /\ returned' \in [Order -> Nat]
        <4>1. [orders[o] EXCEPT !.status = req[w].to] \in Row
          <5>1. orders[o] \in Row
            BY <3>2 DEF TypeOK
          <5>2. QED
            BY <3>2, <5>1, StatusChange
        <4>2. /\ used[o] + orders[o].basket.products \in Nat
              /\ returned[o] + Restock(o, req[w].to) \in Nat
          BY <3>2 DEF TypeOK, Restock
        <4>3. QED
          <5>1. orders' = [orders EXCEPT ![o].status = req[w].to]
            BY <2>9 DEF StatusWrite, Moved
          <5>2. orders' \in [Order -> Row]
            BY <3>2, <4>1, <5>1 DEF TypeOK
          <5>3. used' = used \/ used' = [used EXCEPT ![o] =
                                          used[o] + orders[o].basket.products]
            BY <2>9 DEF StatusWrite
          <5>4. returned' = [returned EXCEPT ![o] =
                              returned[o] + Restock(o, req[w].to)]
            BY <2>9 DEF StatusWrite
          <5>5. QED
            BY <3>2, <4>2, <5>2, <5>3, <5>4 DEF TypeOK
      <3>4. trail' \in [Order -> Timeline]
        <4>1. [from |-> req[w].from, to |-> req[w].to] \in Event
          BY <3>1 DEF StatusRequest, Event
        <4>2. Append(trail[o], [from |-> req[w].from, to |-> req[w].to])
                \in Timeline
          BY <3>1, <4>1 DEF TypeOK, StatusRequest, Timeline
        <4>3. QED
          BY <2>9, <4>2 DEF TypeOK, StatusWrite
      <3>5. QED
        BY <2>9, <3>1, <3>2, <3>3, <3>4 DEF TypeOK, StatusWrite, GoTo, money
    <2>10. ASSUME NEW w \in Worker, NEW o \in Order, NEW k \in MaybeKey,
                  NEW a \in Tender, PayRead(w, o, k, a) \/ RefundRead(w, o, k, a)
           PROVE  TypeOK'
      <3>1. \A pc \in {"paySum", "refundSum"} :
              [pc |-> pc, order |-> o, key |-> k, amount |-> a, left |-> 0]
                \in Request
        BY DEF Request, TenderRequest
      <3>2. QED
        BY <2>10, <3>1 DEF TypeOK, PayRead, RefundRead, Take, money, stock
    <2>11. ASSUME NEW w \in Worker, PaySum(w) \/ RefundSum(w)
           PROVE  TypeOK'
      <3>1. req[w] \in TenderRequest /\ Idle \in Request
        BY <2>11, RequestShapes DEF TypeOK, PaySum, RefundSum, At, Request
      <3>2. \A left \in Int :
              /\ [req[w] EXCEPT !.pc = "payInsert", !.left = left] \in Request
              /\ [req[w] EXCEPT !.pc = "refundInsert", !.left = left] \in Request
        BY <3>1 DEF Request, TenderRequest
      <3>3. /\ orders[req[w].order].total - captured[req[w].order] \in Int
            /\ captured[req[w].order] - refunded[req[w].order] \in Int
        BY <3>1 DEF TypeOK, Row, TenderRequest
      <3>4. \E r \in Request : GoTo(w, r)
        <4>1. CASE PaySum(w)
          BY <4>1, <3>1, <3>2, <3>3 DEF PaySum, Outstanding
        <4>2. CASE RefundSum(w)
          BY <4>2, <3>1, <3>2, <3>3 DEF RefundSum, Refundable
        <4>3. QED
          BY <2>11, <4>1, <4>2
      <3>5. QED
        BY <2>11, <3>4 DEF TypeOK, PaySum, RefundSum, GoTo, money, stock
    <2>12. ASSUME NEW w \in Worker, PayInsert(w) \/ RefundInsert(w)
           PROVE  TypeOK'
      <3>1. req[w] \in TenderRequest /\ Idle \in Request
        BY <2>12, RequestShapes DEF TypeOK, PayInsert, RefundInsert, At, Request
      <3>2. \A pc \in {"earnRead", "reverse"} :
              [pc |-> pc, order |-> req[w].order] \in Request
        BY <3>1 DEF Request, PointsRequest, TenderRequest
      <3>3. req[w].order \in Order /\ req[w].key \in MaybeKey
              /\ req[w].amount \in Nat
        BY <3>1 DEF TenderRequest
      <3>4. QED
        BY <2>12, <3>1, <3>2, <3>3
        DEF TypeOK, PayInsert, RefundInsert, MaybeKey, GoTo, stock
    <2>13. ASSUME NEW w \in Worker, NEW o \in Order, EarnArrive(w, o)
           PROVE  TypeOK'
      BY <2>13 DEF TypeOK, EarnArrive, Take, Request, PointsRequest, money, stock
    <2>14. ASSUME NEW w \in Worker,
                  EarnRead(w) \/ EarnWrite(w) \/ Reverse(w) \/ Restore(w)
           PROVE  TypeOK'
      <3>1. req[w] \in PointsRequest /\ Idle \in Request
        BY <2>14, RequestShapes
        DEF TypeOK, EarnRead, EarnWrite, Reverse, Restore, At, Request
      <3>2. \A pc \in {"earnWrite", "restore"} :
              [pc |-> pc, order |-> req[w].order] \in Request
        BY <3>1 DEF Request, PointsRequest
      <3>3. req[w].order \in Order
        BY <3>1 DEF PointsRequest
      <3>4. QED
        BY <2>14, <3>1, <3>2, <3>3
        DEF TypeOK, EarnRead, EarnWrite, Reverse, Restore, Reversal,
            Restoration, EntryType, GoTo, money, stock
    <2>15. ASSUME NEW w \in Worker, TenderKeyLost(w) \/ Abort(w)
           PROVE  TypeOK'
      BY <2>15 DEF TypeOK, TenderKeyLost, Abort, Request, GoTo, money, stock
    <2>16. CASE UNCHANGED vars
      BY <2>16 DEF TypeOK, vars
    <2>17. QED
      BY <1>2, <2>1, <2>2, <2>3, <2>4, <2>5, <2>6, <2>7, <2>8, <2>9, <2>10,
         <2>11, <2>12, <2>13, <2>14, <2>15, <2>16
      DEF Next, Create, UpdateStatus, RecordPayment, RecordRefund, Loyalty
  <1>3. QED
    BY <1>1, <1>2, PTL DEF Spec

-----------------------------------------------------------------------------
(* What the steps that write the orders table do, as the proofs use it.    *)

\* The new order is the only row an insertion changes.
LEMMA InsertEffect ==
  ASSUME TypeOK, NEW w \in Worker, CreateInsert(w)
  PROVE  LET d == req[w].draft IN
         /\ ~NumberTaken(req[w].number) /\ ~KeyTaken(d)
         /\ \E o \in Order :
              /\ ~Exists(o) /\ Exists(o)'
              /\ orders'[o].status = Opening(d)
              /\ orders'[o].key = d.key
              /\ orders'[o].number = req[w].number
              /\ orders'[o].total = d.total /\ orders'[o].member = d.member
              /\ orders'[o].basket = d.basket
              /\ \A x \in Order \ {o} : orders'[x] = orders[x]
              /\ captured' = [captured EXCEPT ![o] =
                                 IF d.paid THEN d.total ELSE 0]
              /\ used' = [used EXCEPT ![o] =
                             Depletion(d)]
              /\ points' = [points EXCEPT ![o] =
                               IF d.redeem THEN {"REDEEM"} ELSE {}]
              /\ trail' = [trail EXCEPT ![o] =
                 <<[from |-> "ABSENT",
                    to |-> Opening(d)]>>]
              /\ Answer(d.key, {o})
              /\ req' = [req EXCEPT ![w] =
                   IF d.member /\ d.paid
                   THEN [pc |-> "earnRead", order |-> o] ELSE Idle]
  <1> DEFINE d == req[w].draft
             status == Opening(d)
             row == [status |-> status, total |-> d.total, key |-> d.key,
                     basket |-> d.basket, number |-> req[w].number,
                     member |-> d.member]
  <1>1. PICK o \in Order :
         /\ ~Exists(o)
         /\ orders' = [orders EXCEPT ![o] = row]
         /\ captured' = [captured EXCEPT ![o] = IF d.paid THEN d.total ELSE 0]
         /\ used' = [used EXCEPT ![o] = Depletion(d)]
         /\ points' = [points EXCEPT ![o] =
                          IF d.redeem THEN {"REDEEM"} ELSE {}]
         /\ trail' = [trail EXCEPT ![o] = <<[from |-> "ABSENT", to |-> status]>>]
         /\ Answer(d.key, {o})
         /\ GoTo(w, IF d.member /\ d.paid
                    THEN [pc |-> "earnRead", order |-> o] ELSE Idle)
    BY DEF CreateInsert
  <1>2. ~NumberTaken(req[w].number) /\ ~KeyTaken(d)
    BY DEF CreateInsert
  <1>3. orders'[o] = row /\ \A x \in Order \ {o} : orders'[x] = orders[x]
    BY <1>1 DEF TypeOK
  <1>4. Exists(o)'
    BY <1>3 DEF Exists, Opening
  <1>5. /\ orders'[o].status = status
        /\ orders'[o].key = d.key /\ orders'[o].number = req[w].number
        /\ orders'[o].total = d.total /\ orders'[o].member = d.member
        /\ orders'[o].basket = d.basket
    BY <1>3
  <1>6. req' = [req EXCEPT ![w] = IF d.member /\ d.paid
                 THEN [pc |-> "earnRead", order |-> o] ELSE Idle]
    BY <1>1 DEF GoTo
  <1>7. QED
    BY <1>1, <1>2, <1>3, <1>4, <1>5, <1>6, Zenon

\* A status change moves one status and leaves every other column alone.
LEMMA StatusEffect ==
  ASSUME TypeOK, NEW w \in Worker, StatusWrite(w)
  PROVE  /\ req[w] \in StatusRequest
         /\ orders'[req[w].order].status = req[w].to
         /\ \A x \in Order :
              /\ x = req[w].order => Exists(x)'
              /\ Exists(x) => Exists(x)'
              /\ x # req[w].order => orders'[x] = orders[x]
              /\ orders'[x].key = orders[x].key
              /\ orders'[x].number = orders[x].number
              /\ orders'[x].total = orders[x].total
              /\ orders'[x].member = orders[x].member
              /\ orders'[x].basket = orders[x].basket
  <1>1. req[w] \in StatusRequest
    BY RequestShapes DEF TypeOK, StatusWrite, At
  <1>2. req[w].order \in Order /\ req[w].to \in Status
    BY <1>1 DEF StatusRequest
  <1>3. orders' = [orders EXCEPT ![req[w].order].status = req[w].to]
    BY DEF StatusWrite, Moved
  <1>4. orders \in [Order -> Row]
    BY DEF TypeOK
  <1>5. orders'[req[w].order] = [orders[req[w].order] EXCEPT !.status = req[w].to]
    BY <1>2, <1>3, <1>4
  <1>6. \A x \in Order \ {req[w].order} : orders'[x] = orders[x]
    BY <1>2, <1>3, <1>4
  <1>7. orders[req[w].order] \in Row
    BY <1>2, <1>4
  <1> DEFINE o == req[w].order
  <1>8. /\ orders'[o].status = req[w].to
        /\ orders'[o].key = orders[o].key
        /\ orders'[o].number = orders[o].number
        /\ orders'[o].total = orders[o].total
        /\ orders'[o].member = orders[o].member
        /\ orders'[o].basket = orders[o].basket
    BY <1>5, <1>7 DEF Row
  <1>9. \A x \in Order : x = o => Exists(x)'
    BY <1>2, <1>8 DEF Exists, Status
  <1>10. ASSUME NEW x \in Order, x # o
         PROVE  orders'[x] = orders[x] /\ (Exists(x) => Exists(x)')
    BY <1>6, <1>10 DEF Exists
  <1>11. QED
    BY <1>1, <1>8, <1>9, <1>10

\* Only insertions and status changes write the orders table.
LEMMA OrdersWriters ==
  ASSUME Next
  PROVE  \/ UNCHANGED orders
         \/ \E w \in Worker : CreateInsert(w) \/ StatusWrite(w)
  BY DEF Next, Create, UpdateStatus, RecordPayment, RecordRefund, Loyalty,
         CreateReplay, ReverseArrive, CreateArrive, CreateNumber, CreateRetry,
         CreateKeyLost, CreateLookup, StatusRead, PayRead, PaySum, PayInsert,
         RefundRead, RefundSum, RefundInsert, TenderKeyLost, EarnArrive,
         EarnRead, EarnWrite, Reverse, Restore, Abort

\* An order, once inserted, stays, and what it was sold for stays with it.
LEMMA OrdersOnlyGrow ==
  ASSUME TypeOK, Next, NEW o \in Order, Exists(o)
  PROVE  /\ Exists(o)'
         /\ orders'[o].key = orders[o].key
         /\ orders'[o].number = orders[o].number
         /\ orders'[o].total = orders[o].total
         /\ orders'[o].member = orders[o].member
  <1>1. CASE UNCHANGED orders
    BY <1>1 DEF Exists
  <1>2. ASSUME NEW w \in Worker, CreateInsert(w)
        PROVE  orders'[o] = orders[o]
    BY <1>2, InsertEffect
  <1>3. ASSUME NEW w \in Worker, StatusWrite(w)
        PROVE  /\ Exists(o)'
               /\ orders'[o].key = orders[o].key
               /\ orders'[o].number = orders[o].number
               /\ orders'[o].total = orders[o].total
               /\ orders'[o].member = orders[o].member
    BY <1>3, StatusEffect DEF Exists
  <1>4. QED
    BY <1>1, <1>2, <1>3, OrdersWriters DEF Exists

\* Once its order is in, a paid sale of a named customer goes on to earn.
LEMMA InsertGoesOn ==
  ASSUME TypeOK, NEW w \in Worker, CreateInsert(w)
  PROVE  \E o \in Order :
           /\ Exists(o)'
           /\ \/ req' = [req EXCEPT ![w] = [pc |-> "earnRead", order |-> o]]
              \/ req' = [req EXCEPT ![w] = Idle]
  <1>1. PICK o \in Order :
          /\ Exists(o)'
          /\ req' = [req EXCEPT ![w] =
               IF req[w].draft.member /\ req[w].draft.paid
               THEN [pc |-> "earnRead", order |-> o] ELSE Idle]
    BY InsertEffect, Zenon
  <1>2. QED
    BY <1>1

\* A worker comes to an order by finding it in the table or by inserting it,
\* and stays on that order until its request is over.
LEMMA WorkersStayOnOrders ==
  ASSUME TypeOK, Next, NEW v \in Worker, req'[v].pc \in OrderPCs
  PROVE  \/ req[v].pc \in OrderPCs /\ req'[v].order = req[v].order
         \/ req'[v].order \in Order /\ Exists(req'[v].order)
         \/ \E o \in Order : req'[v].order = o /\ Exists(o)'
  <1> USE DEF TypeOK, OrderPCs, At, Take, GoTo, Idle
  <1>1. ASSUME NEW o \in Order,
               (\E k \in Key : CreateReplay(o, k)) \/ ReverseArrive(o)
        PROVE  req' = req
    BY <1>1 DEF CreateReplay, ReverseArrive
  <1>2. ASSUME NEW w \in Worker, Create(w)
        PROVE  \/ v # w /\ req'[v] = req[v]
               \/ req'[v].pc \notin OrderPCs
               \/ \E o \in Order : req'[v].order = o /\ Exists(o)'
    <2>1. ASSUME NEW d \in Draft, CreateArrive(w, d)
          PROVE  (v # w /\ req'[v] = req[v]) \/ req'[v].pc \notin OrderPCs
      BY <2>1 DEF CreateArrive
    <2>2. ASSUME CreateNumber(w) \/ CreateRetry(w) \/ CreateKeyLost(w)
                   \/ CreateLookup(w)
          PROVE  (v # w /\ req'[v] = req[v]) \/ req'[v].pc \notin OrderPCs
      <3>1. req[w] \in CreateRequest
        BY <2>2, RequestShapes
        DEF CreateNumber, CreateRetry, CreateKeyLost, CreateLookup
      <3>2. /\ [req[w] EXCEPT !.pc = "lookup"].pc = "lookup"
            /\ \A n : [req[w] EXCEPT !.pc = "insert", !.number = n].pc = "insert"
            /\ \A n : [req[w] EXCEPT !.pc = "number", !.attempt = n].pc = "number"
        BY <3>1 DEF CreateRequest
      <3>3. CASE CreateNumber(w)
        BY <3>2, <3>3 DEF CreateNumber
      <3>4. CASE CreateRetry(w) /\ req[w].attempt + 1 < MaxAttempts
        BY <3>2, <3>4 DEF CreateRetry
      <3>5. CASE CreateRetry(w) /\ ~(req[w].attempt + 1 < MaxAttempts)
        BY <3>5 DEF CreateRetry
      <3>6. CASE CreateKeyLost(w)
        BY <3>2, <3>6 DEF CreateKeyLost
      <3>7. CASE CreateLookup(w)
        BY <3>7 DEF CreateLookup
      <3>8. QED
        BY <2>2, <3>3, <3>4, <3>5, <3>6, <3>7
    <2>3. ASSUME CreateInsert(w)
          PROVE  \/ v # w /\ req'[v] = req[v]
                 \/ req'[v].pc \notin OrderPCs
                 \/ \E o \in Order : req'[v].order = o /\ Exists(o)'
      BY <2>3, InsertGoesOn
    <2>4. QED
      BY <1>2, <2>1, <2>2, <2>3 DEF Create
  <1>3. ASSUME NEW w \in Worker, UpdateStatus(w)
        PROVE  \/ v # w /\ req'[v] = req[v]
               \/ req'[v].pc \notin OrderPCs
               \/ req'[v].order \in Order /\ Exists(req'[v].order)
    BY <1>3 DEF UpdateStatus, StatusRead, StatusWrite
  <1>4. ASSUME NEW w \in Worker, RecordPayment(w) \/ RecordRefund(w)
        PROVE  \/ v # w /\ req'[v] = req[v]
               \/ req'[v].pc \notin OrderPCs
               \/ req[v].pc \in OrderPCs /\ req'[v].order = req[v].order
               \/ req'[v].order \in Order /\ Exists(req'[v].order)
    <2>1. ASSUME NEW o \in Order, NEW k \in MaybeKey, NEW a \in Tender,
                 PayRead(w, o, k, a) \/ RefundRead(w, o, k, a)
          PROVE  \/ v # w /\ req'[v] = req[v]
                 \/ req'[v].order \in Order /\ Exists(req'[v].order)
      BY <2>1 DEF PayRead, RefundRead
    <2>2. ASSUME PaySum(w) \/ RefundSum(w) \/ PayInsert(w) \/ RefundInsert(w)
          PROVE  \/ v # w /\ req'[v] = req[v]
                 \/ req'[v].pc \notin OrderPCs
                 \/ req[v].pc \in OrderPCs /\ req'[v].order = req[v].order
      <3>1. req[w] \in TenderRequest
        BY <2>2, RequestShapes DEF PaySum, RefundSum, PayInsert, RefundInsert
      <3>2. req[w].pc \in OrderPCs
        BY <3>1 DEF TenderRequest
      <3>3. \A n : /\ [req[w] EXCEPT !.pc = "payInsert", !.left = n].order
                        = req[w].order
                   /\ [req[w] EXCEPT !.pc = "refundInsert", !.left = n].order
                        = req[w].order
        BY <3>1 DEF TenderRequest
      <3>4. CASE PaySum(w)
        <4> DEFINE left == orders[req[w].order].total - captured[req[w].order]
        <4>1. CASE req[w].amount <= left
          <5>1. req' = [req EXCEPT ![w] =
                          [req[w] EXCEPT !.pc = "payInsert", !.left = left]]
            BY <3>4, <4>1 DEF PaySum, Outstanding
          <5>2. QED
            BY <3>2, <3>3, <5>1
        <4>2. CASE ~(req[w].amount <= left)
          BY <3>4, <4>2 DEF PaySum, Outstanding
        <4>3. QED
          BY <4>1, <4>2
      <3>5. CASE RefundSum(w)
        <4> DEFINE left == captured[req[w].order] - refunded[req[w].order]
        <4>1. CASE req[w].amount <= left
          <5>1. req' = [req EXCEPT ![w] =
                          [req[w] EXCEPT !.pc = "refundInsert", !.left = left]]
            BY <3>5, <4>1 DEF RefundSum, Refundable
          <5>2. QED
            BY <3>2, <3>3, <5>1
        <4>2. CASE ~(req[w].amount <= left)
          BY <3>5, <4>2 DEF RefundSum, Refundable
        <4>3. QED
          BY <4>1, <4>2
      <3>6. CASE PayInsert(w) \/ RefundInsert(w)
        BY <3>2, <3>6 DEF PayInsert, RefundInsert
      <3>7. QED
        BY <2>2, <3>4, <3>5, <3>6
    <2>3. QED
      BY <1>4, <2>1, <2>2 DEF RecordPayment, RecordRefund
  <1>5. ASSUME NEW w \in Worker, Loyalty(w)
        PROVE  \/ v # w /\ req'[v] = req[v]
               \/ req'[v].pc \notin OrderPCs
               \/ req[v].pc \in OrderPCs /\ req'[v].order = req[v].order
               \/ req'[v].order \in Order /\ Exists(req'[v].order)
    BY <1>5 DEF Loyalty, EarnArrive, EarnRead, EarnWrite, Reverse, Restore
  <1>6. ASSUME NEW w \in Worker, TenderKeyLost(w) \/ Abort(w)
        PROVE  (v # w /\ req'[v] = req[v]) \/ req'[v].pc \notin OrderPCs
    BY <1>6 DEF TenderKeyLost, Abort
  <1>7. QED
    BY <1>1, <1>2, <1>3, <1>4, <1>5, <1>6 DEF Next

-----------------------------------------------------------------------------
(* No request is about an order that is not in the table.                  *)

\* A status change is about an order in the table.
LEMMA StatusWriteExists ==
  ASSUME TypeOK, RequestsHaveOrders, NEW w \in Worker, StatusWrite(w)
  PROVE  req[w].order \in Order /\ Exists(req[w].order)
  <1>1. req[w].order \in Order
    BY StatusEffect DEF StatusRequest
  <1>2. QED
    BY <1>1 DEF RequestsHaveOrders, OrderPCs, StatusWrite, At

\* Whoever works on an order found it in the table or put it there.
THEOREM RequestsStandOnRows == Spec => []RequestsHaveOrders
  <1>1. Init => RequestsHaveOrders
    BY DEF Init, RequestsHaveOrders, OrderPCs, Idle
  <1>2. ASSUME TypeOK, TypeOK', RequestsHaveOrders, [Next]_vars
        PROVE  RequestsHaveOrders'
    <2>1. CASE UNCHANGED vars
      BY <1>2, <2>1 DEF RequestsHaveOrders, Exists, vars
    <2>2. ASSUME Next, NEW v \in Worker, req'[v].pc \in OrderPCs
          PROVE  Exists(req[v].order)'
      <3>1. \A o \in Order : Exists(o) => Exists(o)'
        BY <1>2, <2>2, OrdersOnlyGrow
      <3>2. \E o \in Order : req'[v].order = o /\ Exists(o)'
        <4>1. CASE req[v].pc \in OrderPCs /\ req'[v].order = req[v].order
          <5>1. req'[v] \in StatusRequest \/ req'[v] \in TenderRequest
                  \/ req'[v] \in PointsRequest
            BY <1>2, <2>2, RequestShapes DEF TypeOK, OrderPCs
          <5>2. req'[v].order \in Order
            BY <5>1 DEF StatusRequest, TenderRequest, PointsRequest
          <5>3. Exists(req[v].order)
            BY <1>2, <4>1 DEF RequestsHaveOrders
          <5>4. QED
            BY <3>1, <4>1, <5>2, <5>3
        <4>2. CASE req'[v].order \in Order /\ Exists(req'[v].order)
          BY <3>1, <4>2
        <4>3. QED
          BY <1>2, <2>2, <4>1, <4>2, WorkersStayOnOrders
      <3>3. QED
        BY <3>2 DEF Exists
    <2>3. QED
      BY <1>2, <2>1, <2>2 DEF RequestsHaveOrders
  <1>3. QED
    BY <1>1, <1>2, Typing, PTL DEF Spec

-----------------------------------------------------------------------------
(* One idempotency key is one order.                                       *)

\* A key is on an order since before the step, or the step inserted that order
\* when no order had the key.
LEMMA KeysComeFromInserts ==
  ASSUME TypeOK, RequestsHaveOrders, Next, NEW o \in Order, NEW k \in Key,
         HasKey(o, k)'
  PROVE  \/ HasKey(o, k)
         \/ \A x \in Order : ~HasKey(x, k) /\ (HasKey(x, k)' => x = o)
  <1>1. CASE UNCHANGED orders
    BY <1>1 DEF HasKey, Exists
  <1>2. ASSUME NEW w \in Worker, CreateInsert(w)
        PROVE  \/ HasKey(o, k)
               \/ \A x \in Order : ~HasKey(x, k) /\ (HasKey(x, k)' => x = o)
    <2>1. PICK n \in Order :
            /\ ~Exists(n)
            /\ orders'[n].key = req[w].draft.key
            /\ \A x \in Order \ {n} : orders'[x] = orders[x]
      BY <1>2, InsertEffect, Zenon
    <2>2. ~KeyTaken(req[w].draft)
      BY <1>2, InsertEffect, Zenon
    <2>3. CASE o = n
      <3>1. req[w].draft.key = k
        BY <2>1, <2>3 DEF HasKey
      <3>2. \A x \in Order : ~HasKey(x, k)
        BY <2>2, <3>1 DEF KeyTaken
      <3>3. \A x \in Order \ {n} : HasKey(x, k)' => HasKey(x, k)
        BY <2>1 DEF HasKey, Exists
      <3>4. QED
        BY <2>3, <3>2, <3>3
    <2>4. CASE o # n
      BY <2>1, <2>4 DEF HasKey, Exists
    <2>5. QED
      BY <2>3, <2>4
  <1>3. ASSUME NEW w \in Worker, StatusWrite(w)
        PROVE  HasKey(o, k)
    <2>1. orders'[o].key = orders[o].key
      BY <1>3, StatusEffect
    <2>2. CASE o = req[w].order
      BY <1>3, <2>1, <2>2, StatusWriteExists DEF HasKey
    <2>3. CASE o # req[w].order
      <3>1. orders'[o] = orders[o]
        BY <1>3, <2>3, StatusEffect
      <3>2. QED
        BY <3>1 DEF HasKey, Exists
    <2>4. QED
      BY <2>2, <2>3
  <1>4. QED
    BY <1>1, <1>2, <1>3, OrdersWriters

\* What create() answers with, beyond what it had answered, has the key.
LEMMA AnswersHaveTheKey ==
  ASSUME TypeOK, Next, NEW k \in Key, NEW o \in answered'[k]
  PROVE  o \in answered[k] \/ HasKey(o, k) \/ HasKey(o, k)'
  <1>1. ASSUME NEW x \in Order, NEW j \in Key, CreateReplay(x, j)
        PROVE  o \in answered[k] \/ HasKey(o, k)
    BY <1>1 DEF CreateReplay, Answer, TypeOK
  <1>2. ASSUME NEW w \in Worker, CreateInsert(w)
        PROVE  o \in answered[k] \/ HasKey(o, k)'
    <2>1. PICK n \in Order :
            /\ Exists(n)'
            /\ orders'[n].key = req[w].draft.key
            /\ Answer(req[w].draft.key, {n})
      BY <1>2, InsertEffect, Zenon
    <2>2. CASE req[w].draft.key = k /\ k # NoKey
      BY <2>1, <2>2 DEF Answer, TypeOK, HasKey, Exists
    <2>3. CASE ~(req[w].draft.key = k /\ k # NoKey)
      BY <2>1, <2>3, OrdersAssumption DEF Answer, TypeOK
    <2>4. QED
      BY <2>2, <2>3
  <1>3. ASSUME NEW w \in Worker, CreateLookup(w)
        PROVE  o \in answered[k] \/ HasKey(o, k)
    BY <1>3 DEF CreateLookup, Answer, TypeOK
  <1>4. ASSUME NEW w \in Worker, Create(w), ~CreateInsert(w), ~CreateLookup(w)
        PROVE  UNCHANGED answered
    BY <1>4 DEF Create, CreateArrive, CreateNumber, CreateRetry, CreateKeyLost
  <1>5. ASSUME NEW w \in Worker,
               UpdateStatus(w) \/ RecordPayment(w) \/ RecordRefund(w)
                 \/ TenderKeyLost(w) \/ Loyalty(w) \/ Abort(w)
        PROVE  UNCHANGED answered
    BY <1>5
    DEF UpdateStatus, RecordPayment, RecordRefund, Loyalty, StatusRead,
        StatusWrite, PayRead, PaySum, PayInsert, RefundRead, RefundSum,
        RefundInsert, TenderKeyLost, EarnArrive, EarnRead, EarnWrite,
        Reverse, Restore, Abort
  <1>6. ASSUME NEW x \in Order, ReverseArrive(x)
        PROVE  UNCHANGED answered
    BY <1>6 DEF ReverseArrive
  <1>7. QED
    BY <1>1, <1>2, <1>3, <1>4, <1>5, <1>6 DEF Next

\* However many requests carry a key, and however they interleave, one order
\* has it and every answer was that order.
THEOREM OneOrderPerKey == Spec => []KeyNamesOneOrder
  <1>1. Init => KeyNamesOneOrder
    BY DEF Init, KeyNamesOneOrder, HasKey, Exists, NoRow
  <1>2. ASSUME TypeOK, TypeOK', RequestsHaveOrders, KeyNamesOneOrder,
               [Next]_vars
        PROVE  KeyNamesOneOrder'
    <2>1. CASE UNCHANGED vars
      BY <1>2, <2>1 DEF KeyNamesOneOrder, HasKey, Exists, vars
    <2>2. ASSUME Next, NEW k \in Key, NEW o1 \in Order, NEW o2 \in Order,
                 HasKey(o1, k)', HasKey(o2, k)'
          PROVE  o1 = o2
      <3>1. CASE HasKey(o1, k) /\ HasKey(o2, k)
        BY <1>2, <3>1 DEF KeyNamesOneOrder
      <3>2. CASE ~HasKey(o1, k)
        BY <1>2, <2>2, <3>2, KeysComeFromInserts
      <3>3. CASE ~HasKey(o2, k)
        BY <1>2, <2>2, <3>3, KeysComeFromInserts
      <3>4. QED
        BY <3>1, <3>2, <3>3
    <2>3. ASSUME Next, NEW k \in Key, NEW o \in answered'[k]
          PROVE  HasKey(o, k)'
      <3>1. CASE HasKey(o, k)'
        BY <3>1
      <3>2. CASE HasKey(o, k)
        <4>1. o \in Order
          BY <1>2 DEF TypeOK
        <4>2. QED
          BY <1>2, <2>3, <3>2, <4>1, OrdersOnlyGrow DEF HasKey
      <3>3. CASE o \in answered[k]
        BY <1>2, <3>2, <3>3 DEF KeyNamesOneOrder
      <3>4. QED
        BY <1>2, <2>3, <3>1, <3>2, <3>3, AnswersHaveTheKey
    <2>4. QED
      BY <1>2, <2>1, <2>2, <2>3 DEF KeyNamesOneOrder
  <1>3. QED
    BY <1>1, <1>2, Typing, RequestsStandOnRows, PTL DEF Spec

-----------------------------------------------------------------------------
(* An order that is not in the table has no rows in any other.             *)

\* Blank orders, spelt out for one of them.
LEMMA BlankOne ==
  ASSUME AbsentIsBlank, NEW o \in Order, ~Exists(o)
  PROVE  /\ orders[o].number = 0 /\ trail[o] = <<>> /\ points[o] = {}
         /\ captured[o] = 0 /\ refunded[o] = 0 /\ used[o] = 0 /\ returned[o] = 0
  BY DEF AbsentIsBlank

\* Payments, refunds and loyalty rows are written for orders in the table.
LEMMA TendersOnRows ==
  ASSUME TypeOK, RequestsHaveOrders, Next, NEW o \in Order, ~Exists(o),
         \A w \in Worker : ~CreateInsert(w) /\ ~StatusWrite(w),
         points[o] = {}
  PROVE  /\ UNCHANGED <<orders, used, returned, trail>>
         /\ captured'[o] = captured[o] /\ refunded'[o] = refunded[o]
         /\ points'[o] = points[o]
  <1>1. ASSUME NEW x \in Order,
               (\E k \in Key : CreateReplay(x, k)) \/ ReverseArrive(x)
        PROVE  /\ UNCHANGED <<orders, captured, refunded, used, returned, trail>>
               /\ points'[o] = points[o]
    BY <1>1 DEF CreateReplay, ReverseArrive, money, stock, TypeOK
  <1>2. ASSUME NEW w \in Worker, Create(w)
        PROVE  UNCHANGED <<orders, captured, refunded, used, returned, points,
                           trail>>
    BY <1>2 DEF Create, CreateArrive, CreateNumber, CreateRetry, CreateKeyLost,
                CreateLookup, money, stock
  <1>3. ASSUME NEW w \in Worker, UpdateStatus(w) \/ TenderKeyLost(w) \/ Abort(w)
        PROVE  UNCHANGED <<orders, captured, refunded, used, returned, points,
                           trail>>
    BY <1>3 DEF UpdateStatus, StatusRead, TenderKeyLost, Abort, money, stock
  <1>4. ASSUME NEW w \in Worker, RecordPayment(w) \/ RecordRefund(w)
        PROVE  /\ UNCHANGED <<orders, used, returned, points, trail>>
               /\ captured'[o] = captured[o] /\ refunded'[o] = refunded[o]
    <2>1. CASE PayInsert(w)
      <3>1. req[w].order # o
        BY <2>1 DEF RequestsHaveOrders, OrderPCs, PayInsert, At
      <3>2. QED
        BY <2>1, <3>1 DEF PayInsert, stock, TypeOK
    <2>2. CASE RefundInsert(w)
      <3>1. req[w].order # o
        BY <2>2 DEF RequestsHaveOrders, OrderPCs, RefundInsert, At
      <3>2. QED
        BY <2>2, <3>1 DEF RefundInsert, stock, TypeOK
    <2>3. QED
      BY <1>4, <2>1, <2>2
      DEF RecordPayment, RecordRefund, PayRead, PaySum, RefundRead, RefundSum,
          money, stock
  <1>5. ASSUME NEW w \in Worker, Loyalty(w)
        PROVE  /\ UNCHANGED <<orders, captured, refunded, used, returned, trail>>
               /\ points'[o] = points[o]
    <2>1. CASE EarnWrite(w) \/ Reverse(w) \/ Restore(w)
      <3>1. req[w].order # o
        BY <2>1 DEF RequestsHaveOrders, OrderPCs, EarnWrite, Reverse, Restore, At
      <3>2. QED
        BY <2>1, <3>1 DEF EarnWrite, Reverse, Restore, money, stock, TypeOK
    <2>2. QED
      BY <1>5, <2>1 DEF Loyalty, EarnArrive, EarnRead, money, stock
  <1>6. QED
    BY <1>1, <1>2, <1>3, <1>4, <1>5 DEF Next

\* An order that was never inserted has no payment, no movement and no points.
THEOREM BlankUntilInserted == Spec => []AbsentIsBlank
  <1>1. Init => AbsentIsBlank
    BY DEF Init, AbsentIsBlank, NoRow
  <1>2. ASSUME TypeOK, RequestsHaveOrders, AbsentIsBlank, [Next]_vars
        PROVE  AbsentIsBlank'
    <2>1. CASE UNCHANGED vars
      BY <1>2, <2>1 DEF AbsentIsBlank, Exists, vars
    <2>2. ASSUME Next, NEW o \in Order, ~Exists(o)'
          PROVE  /\ orders'[o].number = 0 /\ trail'[o] = <<>> /\ points'[o] = {}
                 /\ captured'[o] = 0 /\ refunded'[o] = 0
                 /\ used'[o] = 0 /\ returned'[o] = 0
      <3>1. ~Exists(o)
        BY <1>2, <2>2, OrdersOnlyGrow
      <3>2. /\ orders[o].number = 0 /\ trail[o] = <<>> /\ points[o] = {}
            /\ captured[o] = 0 /\ refunded[o] = 0
            /\ used[o] = 0 /\ returned[o] = 0
        BY <1>2, <3>1, BlankOne
      <3>3. ASSUME NEW w \in Worker, CreateInsert(w)
            PROVE  /\ orders'[o] = orders[o]
                   /\ trail'[o] = trail[o] /\ points'[o] = points[o]
                   /\ captured'[o] = captured[o] /\ refunded'[o] = refunded[o]
                   /\ used'[o] = used[o] /\ returned'[o] = returned[o]
        <4>1. PICK n \in Order :
                /\ Exists(n)'
                /\ \A x \in Order \ {n} : orders'[x] = orders[x]
                /\ captured' = [captured EXCEPT ![n] =
                      IF req[w].draft.paid THEN req[w].draft.total ELSE 0]
                /\ used' = [used EXCEPT ![n] =
                      Depletion(req[w].draft)]
                /\ points' = [points EXCEPT ![n] =
                      IF req[w].draft.redeem THEN {"REDEEM"} ELSE {}]
                /\ trail' = [trail EXCEPT ![n] =
                      <<[from |-> "ABSENT",
                         to |-> Opening(req[w].draft)]>>]
          BY <1>2, <3>3, InsertEffect, Zenon
        <4>2. o # n
          BY <2>2, <4>1
        <4>3. UNCHANGED <<refunded, returned>>
          BY <3>3 DEF CreateInsert
        <4>4. QED
          BY <1>2, <4>1, <4>2, <4>3 DEF TypeOK
      <3>4. ASSUME NEW w \in Worker, StatusWrite(w)
            PROVE  /\ orders'[o] = orders[o]
                   /\ trail'[o] = trail[o] /\ points'[o] = points[o]
                   /\ captured'[o] = captured[o] /\ refunded'[o] = refunded[o]
                   /\ used'[o] = used[o] /\ returned'[o] = returned[o]
        <4>1. o # req[w].order
          BY <1>2, <3>1, <3>4, StatusWriteExists
        <4>2. orders'[o] = orders[o]
          BY <1>2, <3>4, <4>1, StatusEffect
        <4>3. QED
          BY <1>2, <3>4, <4>1, <4>2 DEF StatusWrite, TypeOK, money
      <3>5. CASE \A w \in Worker : ~CreateInsert(w) /\ ~StatusWrite(w)
        BY <1>2, <2>2, <3>1, <3>2, <3>5, TendersOnRows
      <3>6. QED
        BY <3>2, <3>3, <3>4, <3>5
    <2>3. QED
      BY <1>2, <2>1, <2>2 DEF AbsentIsBlank
  <1>3. QED
    BY <1>1, <1>2, Typing, RequestsStandOnRows, PTL DEF Spec

-----------------------------------------------------------------------------
(* Order numbers.                                                          *)

\* A number that is taken stays taken.
LEMMA TakenStaysTaken ==
  ASSUME TypeOK, Next, NEW n, NumberTaken(n)
  PROVE  NumberTaken(n)'
  <1>1. PICK o \in Order : Exists(o) /\ orders[o].number = n
    BY DEF NumberTaken
  <1>2. Exists(o)' /\ orders'[o].number = n
    BY <1>1, OrdersOnlyGrow
  <1>3. QED
    BY <1>2 DEF NumberTaken

\* A worker comes to insert with the number CreateNumber picked for it.
LEMMA PickersRead ==
  ASSUME TypeOK, Next, NEW v \in Worker, At(v, "insert")'
  PROVE  \/ At(v, "insert") /\ req'[v].number = req[v].number
         \/ CreateNumber(v)
  <1> USE DEF At, Idle
  <1> req \in [Worker -> Request]
    BY DEF TypeOK
  <1>1. ASSUME NEW w \in Worker, CreateRetry(w)
        PROVE  v # w /\ req'[v] = req[v]
    <2>1. req[w] \in CreateRequest
      BY <1>1, RequestShapes DEF CreateRetry
    <2>2. \A n : [req[w] EXCEPT !.pc = "number", !.attempt = n].pc = "number"
      BY <2>1 DEF CreateRequest
    <2>3. CASE req[w].attempt + 1 < MaxAttempts
      BY <1>1, <2>2, <2>3 DEF CreateRetry, GoTo
    <2>4. CASE ~(req[w].attempt + 1 < MaxAttempts)
      BY <1>1, <2>4 DEF CreateRetry, GoTo
    <2>5. QED
      BY <2>3, <2>4
  <1>2. ASSUME NEW w \in Worker, CreateKeyLost(w)
        PROVE  v # w /\ req'[v] = req[v]
    <2>1. req[w] \in CreateRequest
      BY <1>2, RequestShapes DEF CreateKeyLost
    <2>2. [req[w] EXCEPT !.pc = "lookup"].pc = "lookup"
      BY <2>1 DEF CreateRequest
    <2>3. QED
      BY <1>2, <2>2 DEF CreateKeyLost, GoTo
  <1>3. ASSUME NEW w \in Worker, CreateInsert(w)
        PROVE  v # w /\ req'[v] = req[v]
    <2>1. PICK o \in Order :
            \/ req' = [req EXCEPT ![w] = [pc |-> "earnRead", order |-> o]]
            \/ req' = [req EXCEPT ![w] = Idle]
      BY <1>3, InsertGoesOn, Zenon
    <2>2. QED
      BY <2>1
  <1>4. ASSUME NEW w \in Worker, CreateNumber(w)
        PROVE  v = w \/ req'[v] = req[v]
    BY <1>4 DEF CreateNumber, GoTo
  <1>5. ASSUME NEW w \in Worker, CreateLookup(w) \/ TenderKeyLost(w) \/ Abort(w)
                 \/ StatusWrite(w)
        PROVE  v # w /\ req'[v] = req[v]
    BY <1>5 DEF CreateLookup, TenderKeyLost, Abort, StatusWrite, GoTo
  <1>6. ASSUME NEW w \in Worker, NEW d \in Draft, CreateArrive(w, d)
        PROVE  v # w /\ req'[v] = req[v]
    BY <1>6 DEF CreateArrive, Take
  <1>7. ASSUME NEW w \in Worker, UpdateStatus(w) \/ RecordPayment(w)
                 \/ RecordRefund(w) \/ Loyalty(w)
        PROVE  v # w /\ req'[v] = req[v]
    <2>1. ASSUME PaySum(w) \/ RefundSum(w)
          PROVE  v # w /\ req'[v] = req[v]
      <3>1. req[w] \in TenderRequest
        BY <2>1, RequestShapes DEF PaySum, RefundSum
      <3>2. \A n : /\ [req[w] EXCEPT !.pc = "payInsert", !.left = n].pc
                        = "payInsert"
                   /\ [req[w] EXCEPT !.pc = "refundInsert", !.left = n].pc
                        = "refundInsert"
        BY <3>1 DEF TenderRequest
      <3> DEFINE due == orders[req[w].order].total - captured[req[w].order]
                 kept == captured[req[w].order] - refunded[req[w].order]
      <3>3. CASE PaySum(w) /\ req[w].amount <= due
        BY <3>2, <3>3 DEF PaySum, Outstanding, GoTo
      <3>4. CASE PaySum(w) /\ ~(req[w].amount <= due)
        BY <3>4 DEF PaySum, Outstanding, GoTo
      <3>5. CASE RefundSum(w) /\ req[w].amount <= kept
        BY <3>2, <3>5 DEF RefundSum, Refundable, GoTo
      <3>6. CASE RefundSum(w) /\ ~(req[w].amount <= kept)
        BY <3>6 DEF RefundSum, Refundable, GoTo
      <3>7. QED
        BY <2>1, <3>3, <3>4, <3>5, <3>6
    <2>2. QED
      BY <1>7, <1>5, <2>1
      DEF UpdateStatus, RecordPayment, RecordRefund, Loyalty, StatusRead,
          PayRead, PayInsert, RefundRead, RefundInsert, EarnArrive, EarnRead,
          EarnWrite, Reverse, Restore, Take, GoTo
  <1>8. ASSUME NEW o \in Order,
               (\E k \in Key : CreateReplay(o, k)) \/ ReverseArrive(o)
        PROVE  req' = req
    BY <1>8 DEF CreateReplay, ReverseArrive
  <1>9. QED
    BY <1>1, <1>2, <1>3, <1>4, <1>5, <1>6, <1>7, <1>8 DEF Next, Create

\* The number picked is one more than that of an order in the table, or 1.
LEMMA PickFollowsATaken ==
  ASSUME TypeOK, AbsentIsBlank, NEW w \in Worker, CreateNumber(w)
  PROVE  /\ req'[w].number > 0
         /\ req'[w].number > 1 => NumberTaken(req'[w].number - 1)
  <1>1. req[w] \in CreateRequest
    BY RequestShapes DEF TypeOK, CreateNumber, At
  <1>2. PICK last \in {0} \cup {orders[o].number : o \in Order} :
          req' = [req EXCEPT ![w] =
                    [req[w] EXCEPT !.pc = "insert", !.number = last + 1]]
    BY DEF CreateNumber, GoTo
  <1>3. last \in Nat
    BY DEF TypeOK, Row
  <1>4. \A n : [req[w] EXCEPT !.pc = "insert", !.number = n].number = n
    BY <1>1 DEF CreateRequest
  <1>5. req'[w].number = last + 1
    BY <1>2, <1>4 DEF TypeOK
  <1>6. last > 0 => NumberTaken(last)
    <2>1. ASSUME NEW o \in Order, orders[o].number = last, last > 0
          PROVE  NumberTaken(last)
      BY <2>1 DEF NumberTaken, AbsentIsBlank
    <2>2. QED
      BY <1>3, <2>1
  <1>7. last + 1 > 0 /\ (last + 1 > 1 => last > 0) /\ (last + 1) - 1 = last
    BY <1>3
  <1>8. QED
    BY <1>5, <1>6, <1>7

\* A row is numbered before the step, or the step inserted it with a number
\* that its worker had picked and no row had.
LEMMA NumbersComeFromPicks ==
  ASSUME TypeOK, RequestsHaveOrders, Next, NEW o \in Order, Exists(o)'
  PROVE  \/ Exists(o) /\ orders'[o].number = orders[o].number
         \/ \E w \in Worker :
              /\ At(w, "insert") /\ orders'[o].number = req[w].number
              /\ ~NumberTaken(req[w].number)
              /\ \A x \in Order \ {o} : orders'[x] = orders[x]
  <1>1. CASE UNCHANGED orders
    BY <1>1 DEF Exists
  <1>2. ASSUME NEW w \in Worker, CreateInsert(w)
        PROVE  \/ Exists(o) /\ orders'[o].number = orders[o].number
               \/ /\ At(w, "insert") /\ orders'[o].number = req[w].number
                  /\ ~NumberTaken(req[w].number)
                  /\ \A x \in Order \ {o} : orders'[x] = orders[x]
    <2>1. PICK n \in Order :
            /\ orders'[n].number = req[w].number
            /\ \A x \in Order \ {n} : orders'[x] = orders[x]
      BY <1>2, InsertEffect, Zenon
    <2>2. At(w, "insert") /\ ~NumberTaken(req[w].number)
      BY <1>2 DEF CreateInsert
    <2>3. CASE o = n
      BY <2>1, <2>2, <2>3
    <2>4. CASE o # n
      BY <2>1, <2>4 DEF Exists
    <2>5. QED
      BY <2>3, <2>4
  <1>3. ASSUME NEW w \in Worker, StatusWrite(w)
        PROVE  Exists(o) /\ orders'[o].number = orders[o].number
    <2>1. CASE o = req[w].order
      BY <1>3, <2>1, StatusWriteExists, StatusEffect
    <2>2. CASE o # req[w].order
      BY <1>3, <2>2, StatusEffect DEF Exists
    <2>3. QED
      BY <2>1, <2>2
  <1>4. QED
    BY <1>1, <1>2, <1>3, OrdersWriters

\* Numbers neither repeat nor skip, for every number of tills: a worker's pick
\* follows a taken number, taken numbers stay, and insertions of a taken
\* number are refused.
THEOREM NumbersHaveNoGaps == Spec => []NumbersRunOn
  <1> DEFINE Inv == NumbersRunOn /\ PickedNumbersRunOn
  <1>1. Init => Inv
    BY DEF Init, NumbersRunOn, PickedNumbersRunOn, Exists, NoRow, At, Idle
  <1>2. ASSUME TypeOK, TypeOK', RequestsHaveOrders, AbsentIsBlank, Inv,
               [Next]_vars
        PROVE  Inv'
    <2>1. CASE UNCHANGED vars
      BY <1>2, <2>1
      DEF NumbersRunOn, PickedNumbersRunOn, NumberTaken, Exists, At, vars
    <2>2. ASSUME Next, NEW v \in Worker, At(v, "insert")'
          PROVE  /\ req'[v].number > 0
                 /\ req'[v].number > 1 => NumberTaken(req'[v].number - 1)
      <3>1. CASE At(v, "insert") /\ req'[v].number = req[v].number
        BY <1>2, <3>1 DEF PickedNumbersRunOn
      <3>2. CASE CreateNumber(v)
        BY <1>2, <3>2, PickFollowsATaken
      <3>3. QED
        BY <1>2, <2>2, <3>1, <3>2, PickersRead
    <2>3. Next => PickedNumbersRunOn'
      <3>1. ASSUME Next, NEW v \in Worker, At(v, "insert")'
            PROVE  \A n : req'[v].number - 1 = n /\ req'[v].number > 1
                            => NumberTaken(n)'
        BY <1>2, <2>2, <3>1, TakenStaysTaken
      <3>2. QED
        BY <2>2, <3>1 DEF PickedNumbersRunOn, NumberTaken, Exists
    <2>4. ASSUME Next, NEW o1 \in Order, NEW o2 \in Order,
                 Exists(o1)', Exists(o2)', orders'[o1].number = orders'[o2].number,
                 o1 # o2
          PROVE  FALSE
      <3>1. CASE /\ Exists(o1) /\ orders'[o1].number = orders[o1].number
                 /\ Exists(o2) /\ orders'[o2].number = orders[o2].number
        BY <1>2, <2>4, <3>1 DEF NumbersRunOn
      <3>2. ASSUME NEW w \in Worker,
                   orders'[o1].number = req[w].number,
                   ~NumberTaken(req[w].number),
                   orders'[o2] = orders[o2]
            PROVE  FALSE
        BY <2>4, <3>2 DEF NumberTaken, Exists
      <3>3. ASSUME NEW w \in Worker,
                   orders'[o2].number = req[w].number,
                   ~NumberTaken(req[w].number),
                   orders'[o1] = orders[o1]
            PROVE  FALSE
        BY <2>4, <3>3 DEF NumberTaken, Exists
      <3>4. QED
        BY <1>2, <2>4, <3>1, <3>2, <3>3, NumbersComeFromPicks
    <2>5. ASSUME Next, NEW o \in Order, Exists(o)'
          PROVE  /\ orders'[o].number > 0
                 /\ \A n : orders'[o].number > 1 /\ n = orders'[o].number - 1
                             => NumberTaken(n)'
      <3>1. /\ orders'[o].number > 0
            /\ orders'[o].number > 1 => NumberTaken(orders'[o].number - 1)
        <4>1. CASE Exists(o) /\ orders'[o].number = orders[o].number
          BY <1>2, <4>1 DEF NumbersRunOn
        <4>2. ASSUME NEW w \in Worker, At(w, "insert"),
                     orders'[o].number = req[w].number
              PROVE  /\ orders'[o].number > 0
                     /\ orders'[o].number > 1
                          => NumberTaken(orders'[o].number - 1)
          BY <1>2, <4>2 DEF PickedNumbersRunOn
        <4>3. QED
          BY <1>2, <2>5, <4>1, <4>2, NumbersComeFromPicks
      <3>2. QED
        BY <1>2, <2>5, <3>1, TakenStaysTaken
    <2>6. Next => NumbersRunOn'
      BY <2>4, <2>5 DEF NumbersRunOn, NumberTaken, Exists
    <2>7. QED
      BY <1>2, <2>1, <2>3, <2>6
  <1>3. Inv => NumbersRunOn
    OBVIOUS
  <1>4. QED
    BY <1>1, <1>2, <1>3, Typing, RequestsStandOnRows, BlankUntilInserted, PTL
    DEF Spec

-----------------------------------------------------------------------------
(* What a request comes from.                                              *)

\* The steps a worker can take.
Acts(w) ==
  \/ Create(w) \/ UpdateStatus(w) \/ RecordPayment(w) \/ RecordRefund(w)
  \/ TenderKeyLost(w) \/ Loyalty(w) \/ Abort(w)

\* A request moves by a step of its own worker.
LEMMA OwnSteps ==
  ASSUME TypeOK, Next, NEW v \in Worker, req'[v] # req[v]
  PROVE  Acts(v)
  <1> req \in [Worker -> Request]
    BY DEF TypeOK
  <1>1. ASSUME NEW o \in Order,
               (\E k \in Key : CreateReplay(o, k)) \/ ReverseArrive(o)
        PROVE  req' = req
    BY <1>1 DEF CreateReplay, ReverseArrive
  <1>2. ASSUME NEW w \in Worker, CreateInsert(w)
        PROVE  v = w
    BY <1>2, InsertGoesOn
  <1>3. ASSUME NEW w \in Worker, Acts(w), ~CreateInsert(w)
        PROVE  v = w
    <2>1. CASE Create(w)
      BY <1>3, <2>1 DEF Create, CreateArrive, CreateNumber, CreateRetry,
         CreateKeyLost, CreateLookup, Take, GoTo
    <2>2. CASE UpdateStatus(w) \/ RecordPayment(w) \/ RecordRefund(w)
      BY <2>2 DEF UpdateStatus, StatusRead, StatusWrite, RecordPayment, PayRead, PaySum,
         PayInsert, RecordRefund, RefundRead, RefundSum, RefundInsert, Take, GoTo
    <2>3. CASE TenderKeyLost(w) \/ Loyalty(w) \/ Abort(w)
      BY <2>3 DEF TenderKeyLost, Loyalty, EarnArrive, EarnRead, EarnWrite, Reverse,
         Restore, Abort, Take, GoTo
    <2> QED BY <1>3, <2>1, <2>2, <2>3 DEF Acts
  <1>4. PICK w \in Worker : Acts(w)
    BY <1>1 DEF Next, Acts
  <1>5. v = w
    BY <1>2, <1>3, <1>4
  <1> QED BY <1>4, <1>5

TenderPC == {"paySum", "payInsert", "refundSum", "refundInsert"}
PointsPC == {"earnRead", "earnWrite", "reverse", "restore"}

\* No step of create() but the commit leads to a payment, a refund or points;
\* the commit leads to points that are earned.
LEMMA CreateLeads ==
  ASSUME TypeOK, NEW w \in Worker, Create(w), req'[w].pc \in TenderPC \cup PointsPC
  PROVE  CreateInsert(w) /\ req'[w].pc = "earnRead"
  <1> USE DEF TenderPC, PointsPC
  <1> req \in [Worker -> Request]
    BY DEF TypeOK
  <1>1. ASSUME NEW d \in Draft, CreateArrive(w, d)
        PROVE  req'[w].pc = "number"
    BY <1>1 DEF CreateArrive, Take
  <1>2. CASE CreateNumber(w) \/ CreateRetry(w) \/ CreateKeyLost(w) \/ CreateLookup(w)
    <2>1. req[w] \in CreateRequest
      BY <1>2, RequestShapes DEF CreateNumber, CreateRetry, CreateKeyLost, CreateLookup, At
    <2>2. /\ [req[w] EXCEPT !.pc = "lookup"].pc = "lookup"
          /\ \A n : [req[w] EXCEPT !.pc = "insert", !.number = n].pc = "insert"
          /\ \A n : [req[w] EXCEPT !.pc = "number", !.attempt = n].pc = "number"
      BY <2>1 DEF CreateRequest
    <2>3. CASE CreateNumber(w)
      BY <2>2, <2>3 DEF CreateNumber, GoTo
    <2>4. CASE CreateRetry(w) /\ req[w].attempt + 1 < MaxAttempts
      BY <2>2, <2>4 DEF CreateRetry, GoTo
    <2>5. CASE CreateRetry(w) /\ ~(req[w].attempt + 1 < MaxAttempts)
      BY <2>5 DEF CreateRetry, GoTo, Idle
    <2>6. CASE CreateKeyLost(w)
      BY <2>2, <2>6 DEF CreateKeyLost, GoTo
    <2>7. CASE CreateLookup(w)
      BY <2>7 DEF CreateLookup, GoTo, Idle
    <2> QED BY <1>2, <2>3, <2>4, <2>5, <2>6, <2>7
  <1>3. CASE CreateInsert(w)
    <2>1. PICK o \in Order :
            \/ req' = [req EXCEPT ![w] = [pc |-> "earnRead", order |-> o]]
            \/ req' = [req EXCEPT ![w] = Idle]
      BY <1>3, InsertGoesOn, Zenon
    <2> QED BY <1>3, <2>1 DEF Idle
  <1> QED BY <1>1, <1>2, <1>3 DEF Create

\* A sum that was read is kept with the request, which goes on or ends.
LEMMA SumsAreKept ==
  ASSUME TypeOK, NEW w \in Worker, PaySum(w) \/ RefundSum(w), req'[w].pc # "idle"
  PROVE  /\ req[w] \in TenderRequest
         /\ req'[w].order = req[w].order
         /\ PaySum(w) => req'[w].pc = "payInsert" /\ req'[w].left = Outstanding(req[w].order)
         /\ RefundSum(w) => req'[w].pc = "refundInsert"
  <1> req \in [Worker -> Request]
    BY DEF TypeOK
  <1>1. req[w] \in TenderRequest
    BY RequestShapes DEF PaySum, RefundSum, At
  <1>2. \A n : LET r == [req[w] EXCEPT !.pc = "payInsert", !.left = n] IN
                 r.pc = "payInsert" /\ r.left = n /\ r.order = req[w].order
    BY <1>1 DEF TenderRequest
  <1>3. \A n : LET r == [req[w] EXCEPT !.pc = "refundInsert", !.left = n] IN
                 r.pc = "refundInsert" /\ r.order = req[w].order
    BY <1>1 DEF TenderRequest
  <1> DEFINE due == Outstanding(req[w].order)
             kept == Refundable(req[w].order)
  <1>4. CASE PaySum(w)
    <2>1. req' = [req EXCEPT ![w] = IF req[w].amount <= due
                    THEN [req[w] EXCEPT !.pc = "payInsert", !.left = due] ELSE Idle]
      BY <1>4 DEF PaySum, GoTo
    <2>2. req'[w] = [req[w] EXCEPT !.pc = "payInsert", !.left = due]
      BY <2>1 DEF Idle
    <2>3. ~RefundSum(w)
      BY <1>4 DEF PaySum, RefundSum, At
    <2> QED BY <1>1, <1>2, <2>2, <2>3
  <1>5. CASE RefundSum(w)
    <2>1. req' = [req EXCEPT ![w] = IF req[w].amount <= kept
                    THEN [req[w] EXCEPT !.pc = "refundInsert", !.left = kept] ELSE Idle]
      BY <1>5 DEF RefundSum, GoTo
    <2>2. req'[w] = [req[w] EXCEPT !.pc = "refundInsert", !.left = kept]
      BY <2>1 DEF Idle
    <2>3. ~PaySum(w)
      BY <1>5 DEF PaySum, RefundSum, At
    <2> QED BY <1>1, <1>3, <2>2, <2>3
  <1> QED BY <1>4, <1>5

\* How a request comes to where a payment, a refund or points are next.
LEMMA Origins ==
  ASSUME TypeOK, Next, NEW v \in Worker, req'[v] # req[v]
  PROVE  /\ req'[v].pc \in {"refundSum", "refundInsert"} =>
              \/ RefundSum(v) /\ req'[v].order = req[v].order
              \/ \E o \in Order, k \in MaybeKey, a \in Tender :
                   RefundRead(v, o, k, a) /\ req'[v].order = o
         /\ req'[v].pc = "payInsert" =>
              /\ PaySum(v) /\ req'[v].order = req[v].order
              /\ req'[v].left = Outstanding(req[v].order)
         /\ req'[v].pc = "earnRead" =>
              \/ CreateInsert(v)
              \/ PayInsert(v) /\ Settles(req[v]) /\ req'[v].order = req[v].order
              \/ \E o \in Order : EarnArrive(v, o)
         /\ req'[v].pc = "earnWrite" =>
              EarnRead(v) /\ req'[v].order = req[v].order /\ orders[req[v].order].member
         /\ req'[v].pc = "reverse" => RefundInsert(v) /\ req'[v].order = req[v].order
         /\ req'[v].pc = "restore" => Reverse(v) /\ req'[v].order = req[v].order
  <1> req \in [Worker -> Request]
    BY DEF TypeOK
  <1>1. CASE Create(v)
    BY <1>1, CreateLeads DEF TenderPC, PointsPC
  <1>2. CASE UpdateStatus(v)
    BY <1>2 DEF UpdateStatus, StatusRead, StatusWrite, Take, GoTo, Idle
  <1>3. CASE PaySum(v) \/ RefundSum(v)
    BY <1>3, SumsAreKept
  <1>4. CASE RecordPayment(v) /\ ~PaySum(v)
    BY <1>4 DEF RecordPayment, PayRead, PayInsert, Take, GoTo, Idle
  <1>5. CASE RecordRefund(v) /\ ~RefundSum(v)
    BY <1>5 DEF RecordRefund, RefundRead, RefundInsert, Take, GoTo, Idle
  <1>6. CASE Loyalty(v)
    BY <1>6 DEF Loyalty, EarnArrive, EarnRead, EarnWrite, Reverse, Restore, Take, GoTo, Idle
  <1>7. CASE TenderKeyLost(v) \/ Abort(v)
    BY <1>7 DEF TenderKeyLost, Abort, GoTo, Idle
  <1> QED BY <1>1, <1>2, <1>3, <1>4, <1>5, <1>6, <1>7, OwnSteps
          DEF Acts, RecordPayment, RecordRefund

-----------------------------------------------------------------------------
(* The timeline.                                                           *)

\* Only the commits of create() and updateStatus() write the timeline.
LEMMA TrailWriters ==
  ASSUME Next
  PROVE  \/ UNCHANGED trail
         \/ \E w \in Worker : CreateInsert(w) \/ StatusWrite(w)
  BY DEF Next, Create, UpdateStatus, RecordPayment, RecordRefund, Loyalty,
         CreateReplay, ReverseArrive, CreateArrive, CreateNumber, CreateRetry,
         CreateKeyLost, CreateLookup, StatusRead, PayRead, PaySum, PayInsert,
         RefundRead, RefundSum, RefundInsert, TenderKeyLost, EarnArrive,
         EarnRead, EarnWrite, Reverse, Restore, Abort

\* An order begins its timeline with the status it is inserted with.
LEMMA TrailBegins ==
  ASSUME TypeOK, NEW w \in Worker, CreateInsert(w)
  PROVE  \E n \in Order :
           /\ ~Exists(n)
           /\ Len(trail'[n]) = 1 /\ trail'[n][1].to = orders'[n].status
           /\ \A x \in Order \ {n} : trail'[x] = trail[x] /\ orders'[x] = orders[x]
  <1>1. PICK n \in Order :
          /\ ~Exists(n)
          /\ orders'[n].status = Opening(req[w].draft)
          /\ \A x \in Order \ {n} : orders'[x] = orders[x]
          /\ trail' = [trail EXCEPT ![n] =
                <<[from |-> "ABSENT", to |-> Opening(req[w].draft)]>>]
    BY InsertEffect, Zenon
  <1>2. trail'[n] = <<[from |-> "ABSENT", to |-> Opening(req[w].draft)]>>
    BY <1>1 DEF TypeOK
  <1>3. Len(trail'[n]) = 1 /\ trail'[n][1].to = orders'[n].status
    BY <1>1, <1>2
  <1>4. \A x \in Order \ {n} : trail'[x] = trail[x]
    BY <1>1 DEF TypeOK
  <1> QED BY <1>1, <1>3, <1>4

\* ... and goes on with the status it is moved to.
LEMMA TrailGoesOn ==
  ASSUME TypeOK, NEW w \in Worker, StatusWrite(w)
  PROVE  LET o == req[w].order IN
         /\ o \in Order
         /\ Len(trail'[o]) = Len(trail[o]) + 1
         /\ trail'[o][Len(trail'[o])].to = orders'[o].status
         /\ \A i \in 1 .. Len(trail[o]) : trail'[o][i] = trail[o][i]
         /\ \A x \in Order \ {o} : trail'[x] = trail[x] /\ orders'[x] = orders[x]
  <1> DEFINE o == req[w].order
             e == [from |-> req[w].from, to |-> req[w].to]
  <1>1. req[w] \in StatusRequest /\ orders'[o].status = req[w].to
        /\ \A x \in Order \ {o} : orders'[x] = orders[x]
    BY StatusEffect
  <1>2. o \in Order /\ e \in Event
    BY <1>1 DEF StatusRequest, Event
  <1>3. trail[o] \in Seq(Event)
    BY <1>2 DEF TypeOK, Timeline
  <1>4. trail' = [trail EXCEPT ![o] = Append(@, e)]
    BY DEF StatusWrite
  <1>5. trail'[o] = Append(trail[o], e) /\ \A x \in Order \ {o} : trail'[x] = trail[x]
    BY <1>2, <1>4 DEF TypeOK
  <1> HIDE DEF o
  <1>6. /\ Len(Append(trail[o], e)) = Len(trail[o]) + 1
        /\ Append(trail[o], e)[Len(trail[o]) + 1] = e
        /\ \A i \in 1 .. Len(trail[o]) : Append(trail[o], e)[i] = trail[o][i]
    BY <1>2, <1>3
  <1>7. e.to = req[w].to
    OBVIOUS
  <1> QED BY <1>1, <1>2, <1>5, <1>6, <1>7 DEF o

\* The timeline of an order and its row agree, whatever overlaps: both are
\* written in one transaction under the row lock.
THEOREM TimelineTells == Spec => []TrailTellsStatus
  <1>1. Init => TrailTellsStatus
    BY DEF Init, TrailTellsStatus, Exists, NoRow
  <1>2. ASSUME TypeOK, TypeOK', TrailTellsStatus, RequestsHaveOrders, [Next]_vars
        PROVE  TrailTellsStatus'
    <2>1. CASE UNCHANGED vars
      BY <1>2, <2>1 DEF TrailTellsStatus, Exists, vars
    <2> SUFFICES ASSUME Next, NEW o \in Order, Exists(o)'
                 PROVE  trail'[o] # <<>> /\ trail'[o][Len(trail'[o])].to = orders'[o].status
      BY <1>2, <2>1 DEF TrailTellsStatus, Exists
    <2>2. trail'[o] \in Seq(Event)
      BY <1>2 DEF TypeOK, Timeline
    <2>3. ASSUME orders'[o] = orders[o], trail'[o] = trail[o]
          PROVE  trail'[o] # <<>> /\ trail'[o][Len(trail'[o])].to = orders'[o].status
      BY <1>2, <2>3 DEF TrailTellsStatus, Exists
    <2>4. ASSUME NEW w \in Worker, CreateInsert(w)
          PROVE  trail'[o] # <<>> /\ trail'[o][Len(trail'[o])].to = orders'[o].status
      <3>1. PICK n \in Order :
              /\ Len(trail'[n]) = 1 /\ trail'[n][1].to = orders'[n].status
              /\ \A x \in Order \ {n} : trail'[x] = trail[x] /\ orders'[x] = orders[x]
        BY <1>2, <2>4, TrailBegins
      <3>2. CASE o = n
        BY <3>1, <3>2, <2>2
      <3> QED BY <2>3, <3>1, <3>2
    <2>5. ASSUME NEW w \in Worker, StatusWrite(w)
          PROVE  trail'[o] # <<>> /\ trail'[o][Len(trail'[o])].to = orders'[o].status
      <3>1. CASE o = req[w].order
        <4>1. Len(trail'[o]) = Len(trail[o]) + 1 /\ Len(trail[o]) \in Nat
          BY <1>2, <2>5, <3>1, TrailGoesOn DEF TypeOK, Timeline
        <4> QED BY <1>2, <2>5, <3>1, <4>1, <2>2, TrailGoesOn
      <3>2. CASE o # req[w].order
        BY <1>2, <2>5, <3>2, <2>3, TrailGoesOn
      <3> QED BY <3>1, <3>2
    <2>6. CASE UNCHANGED orders /\ UNCHANGED trail
      BY <2>3, <2>6
    <2>7. UNCHANGED trail => UNCHANGED orders \/ \E w \in Worker : CreateInsert(w) \/ StatusWrite(w)
      BY OrdersWriters
    <2>8. UNCHANGED orders => UNCHANGED trail \/ \E w \in Worker : CreateInsert(w) \/ StatusWrite(w)
      BY TrailWriters
    <2> QED BY <2>4, <2>5, <2>6, <2>7, <2>8, TrailWriters
  <1> QED BY <1>1, <1>2, Typing, RequestsStandOnRows, PTL DEF Spec

\* What an order has been through, it has been through.
LEMMA EndingsStay ==
  ASSUME TypeOK, TypeOK', AbsentIsBlank, Next, NEW o \in Order, Ended(o)
  PROVE  Ended(o)'
  <1>1. PICK i \in 1 .. Len(trail[o]) : trail[o][i].to \in Finished
    BY DEF Ended
  <1>2. trail[o] \in Seq(Event)
    BY DEF TypeOK, Timeline
  <1>3. CASE trail'[o] = trail[o]
    BY <1>3 DEF Ended
  <1>4. Exists(o)
    BY <1>1, <1>2, BlankOne
  <1>5. ASSUME NEW w \in Worker, CreateInsert(w)
        PROVE  trail'[o] = trail[o]
    BY <1>4, <1>5, TrailBegins
  <1>6. ASSUME NEW w \in Worker, StatusWrite(w), req[w].order = o
        PROVE  Ended(o)'
    <2>1. i \in 1 .. Len(trail'[o]) /\ trail'[o][i] = trail[o][i]
      BY <1>1, <1>2, <1>6, TrailGoesOn
    <2> QED BY <1>1, <2>1 DEF Ended
  <1>7. ASSUME NEW w \in Worker, StatusWrite(w), req[w].order # o
        PROVE  trail'[o] = trail[o]
    BY <1>7, TrailGoesOn
  <1> QED BY <1>3, <1>5, <1>6, <1>7, TrailWriters

\* An order that is finished has an ending on its timeline.
LEMMA FinishedHasEnded ==
  ASSUME TypeOK, TrailTellsStatus, NEW o \in Order, Exists(o), orders[o].status \in Finished
  PROVE  Ended(o)
  <1>1. trail[o] \in Seq(Event) /\ trail[o] # <<>>
    BY DEF TypeOK, Timeline, TrailTellsStatus
  <1>2. Len(trail[o]) \in 1 .. Len(trail[o])
    BY <1>1
  <1> QED BY <1>2 DEF TrailTellsStatus, Ended

\* Refunds change by the commit of a refund.
LEMMA RefundWriters ==
  ASSUME TypeOK, Next, NEW o \in Order
  PROVE  \/ refunded'[o] = refunded[o]
         \/ \E w \in Worker :
              /\ RefundInsert(w) /\ req[w] \in TenderRequest /\ req[w].order = o
              /\ refunded'[o] = refunded[o] + req[w].amount
  <1>1. ASSUME NEW w \in Worker, RefundInsert(w)
        PROVE  \/ refunded'[o] = refunded[o]
               \/ /\ req[w] \in TenderRequest /\ req[w].order = o
                  /\ refunded'[o] = refunded[o] + req[w].amount
    <2>1. req[w] \in TenderRequest
      BY <1>1, RequestShapes DEF RefundInsert, At, TypeOK
    <2>2. refunded' = [refunded EXCEPT ![req[w].order] = @ + req[w].amount]
      BY <1>1 DEF RefundInsert
    <2> QED BY <2>1, <2>2 DEF TypeOK, TenderRequest
  <1>2. (\A w \in Worker : ~RefundInsert(w)) => UNCHANGED refunded
    BY DEF Next, Create, UpdateStatus, RecordPayment, RecordRefund, Loyalty,
         CreateReplay, ReverseArrive, CreateArrive, CreateNumber, CreateInsert, CreateRetry,
         CreateKeyLost, CreateLookup, StatusRead, StatusWrite, PayRead, PaySum, PayInsert,
         RefundRead, RefundSum, TenderKeyLost, EarnArrive,
         EarnRead, EarnWrite, Reverse, Restore, Abort, money
  <1> QED BY <1>1, <1>2

RefundInv == RefundsFollowAnEnding /\ RefundersSawAnEnding

\* Money goes back only on a sale that had ended: a refund in progress has
\* seen the ending, and the timeline keeps it though the status may change.
THEOREM RefundsAfterEndings == Spec => []RefundsFollowAnEnding
  <1>1. Init => RefundInv
    BY DEF Init, RefundInv, RefundsFollowAnEnding, RefundersSawAnEnding, Idle
  <1>2. ASSUME TypeOK, TypeOK', TrailTellsStatus, AbsentIsBlank, RefundInv, [Next]_vars
        PROVE  RefundInv'
    <2>1. CASE UNCHANGED vars
      BY <1>2, <2>1 DEF RefundInv, RefundsFollowAnEnding, RefundersSawAnEnding, Ended, vars
    <2> SUFFICES ASSUME Next PROVE RefundInv'
      BY <1>2, <2>1
    <2>2. ASSUME NEW o \in Order, refunded'[o] > 0
          PROVE  Ended(o)'
      <3>1. CASE refunded'[o] = refunded[o]
        BY <1>2, <2>2, <3>1, EndingsStay DEF RefundInv, RefundsFollowAnEnding, Ended
      <3>2. ASSUME NEW w \in Worker, RefundInsert(w), req[w].order = o
            PROVE  Ended(o)'
        BY <1>2, <3>2, EndingsStay DEF RefundInv, RefundersSawAnEnding, RefundInsert, At
      <3> QED BY <1>2, <3>1, <3>2, RefundWriters
    <2>3. ASSUME NEW v \in Worker, req'[v].pc \in {"refundSum", "refundInsert"}
          PROVE  Ended(req[v].order)'
      <3>1. req'[v] \in TenderRequest /\ req'[v].order \in Order
        BY <1>2, <2>3, RequestShapes DEF TypeOK, TenderRequest
      <3>2. CASE req'[v] = req[v]
        <4>1. Ended(req[v].order)
          BY <1>2, <2>3, <3>2 DEF RefundInv, RefundersSawAnEnding
        <4> QED BY <1>2, <3>1, <3>2, <4>1, EndingsStay
      <3>3. CASE RefundSum(v) /\ req'[v].order = req[v].order
        <4>1. Ended(req[v].order)
          BY <1>2, <3>3 DEF RefundInv, RefundersSawAnEnding, RefundSum, At
        <4> QED BY <1>2, <3>1, <3>3, <4>1, EndingsStay
      <3>4. ASSUME NEW o \in Order, NEW k \in MaybeKey, NEW a \in Tender,
                   RefundRead(v, o, k, a), req'[v].order = o
            PROVE  Ended(req[v].order)'
        <4>1. Ended(o)
          BY <1>2, <3>4, FinishedHasEnded DEF RefundRead
        <4>2. Ended(o)'
          BY <1>2, <4>1, EndingsStay
        <4> QED BY <3>4, <4>2
      <3> QED BY <1>2, <2>3, <3>2, <3>3, <3>4, Origins
    <2>4. RefundersSawAnEnding'
      BY <2>3 DEF RefundersSawAnEnding, Ended
    <2>5. RefundsFollowAnEnding'
      BY <2>2 DEF RefundsFollowAnEnding, Ended
    <2> QED BY <2>4, <2>5 DEF RefundInv
  <1>3. RefundInv => RefundsFollowAnEnding
    BY DEF RefundInv
  <1> QED BY <1>1, <1>2, <1>3, Typing, TimelineTells, BlankUntilInserted, PTL DEF Spec

-----------------------------------------------------------------------------
(* Points.                                                                 *)

\* What is taken in for an order in the table only grows.
LEMMA CapturesGrow ==
  ASSUME TypeOK, RequestsHaveOrders, Next, NEW o \in Order, Exists(o)
  PROVE  captured'[o] \in Nat /\ captured[o] \in Nat /\ captured[o] <= captured'[o]
  <1>0. captured[o] \in Nat
    BY DEF TypeOK
  <1>1. ASSUME NEW w \in Worker, CreateInsert(w)
        PROVE  captured'[o] = captured[o]
    <2>1. PICK n \in Order :
            /\ ~Exists(n)
            /\ captured' = [captured EXCEPT ![n] =
                 IF req[w].draft.paid THEN req[w].draft.total ELSE 0]
      BY <1>1, InsertEffect, Zenon
    <2> QED BY <2>1 DEF TypeOK
  <1>2. ASSUME NEW w \in Worker, PayInsert(w)
        PROVE  captured'[o] \in Nat /\ captured[o] <= captured'[o]
    <2>1. req[w] \in TenderRequest
      BY <1>2, RequestShapes DEF PayInsert, At, TypeOK
    <2>2. captured' = [captured EXCEPT ![req[w].order] = @ + req[w].amount]
      BY <1>2 DEF PayInsert
    <2>3. req[w].amount \in Nat
      BY <2>1, OrdersAssumption DEF TenderRequest
    <2>4. captured'[o] = captured[o] \/ captured'[o] = captured[o] + req[w].amount
      BY <2>2 DEF TypeOK
    <2> QED BY <1>0, <2>3, <2>4
  <1>3. (\A w \in Worker : ~CreateInsert(w) /\ ~PayInsert(w)) => UNCHANGED captured
    BY DEF Next, Create, UpdateStatus, RecordPayment, RecordRefund, Loyalty,
         CreateReplay, ReverseArrive, CreateArrive, CreateNumber, CreateRetry,
         CreateKeyLost, CreateLookup, StatusRead, StatusWrite, PayRead, PaySum,
         RefundRead, RefundSum, RefundInsert, TenderKeyLost, EarnArrive,
         EarnRead, EarnWrite, Reverse, Restore, Abort, money
  <1> QED BY <1>0, <1>1, <1>2, <1>3

\* Who writes the points of an order, and what they may add.
LEMMA PointsWriters ==
  ASSUME TypeOK, Next, NEW o \in Order
  PROVE  \/ points'[o] = points[o]
         \/ ~Exists(o) /\ points'[o] \subseteq {"REDEEM"}
         \/ \E w \in Worker : /\ EarnWrite(w) /\ req[w].order = o
                              /\ points'[o] = points[o] \cup {"EARN"}
         \/ points'[o] = points[o] \cup Reversal(o)
         \/ \E w \in Worker : /\ Restore(w) /\ req[w].order = o
                              /\ points'[o] = points[o] \cup Restoration(o)
  <1> points \in [Order -> SUBSET EntryType]
    BY DEF TypeOK
  <1>1. ASSUME NEW w \in Worker, CreateInsert(w)
        PROVE  points'[o] = points[o] \/ (~Exists(o) /\ points'[o] \subseteq {"REDEEM"})
    <2>1. PICK n \in Order :
            /\ ~Exists(n)
            /\ points' = [points EXCEPT ![n] =
                 IF req[w].draft.redeem THEN {"REDEEM"} ELSE {}]
      BY <1>1, InsertEffect, Zenon
    <2>2. CASE o = n
      <3>1. points'[o] \in {{"REDEEM"}, {}}
        BY <2>1, <2>2
      <3> QED BY <2>1, <2>2, <3>1
    <2>3. CASE o # n
      BY <2>1, <2>3
    <2> QED BY <2>2, <2>3
  <1>2. ASSUME NEW w \in Worker, EarnWrite(w) \/ Reverse(w) \/ Restore(w)
        PROVE  \/ points'[o] = points[o]
               \/ EarnWrite(w) /\ req[w].order = o /\ points'[o] = points[o] \cup {"EARN"}
               \/ points'[o] = points[o] \cup Reversal(o)
               \/ Restore(w) /\ req[w].order = o /\ points'[o] = points[o] \cup Restoration(o)
    <2>1. CASE EarnWrite(w)
      BY <2>1 DEF EarnWrite
    <2>2. CASE Reverse(w)
      BY <2>2 DEF Reverse
    <2>3. CASE Restore(w)
      BY <2>3 DEF Restore
    <2> QED BY <1>2, <2>1, <2>2, <2>3
  <1>3. ASSUME NEW x \in Order, ReverseArrive(x)
        PROVE  points'[o] = points[o] \/ points'[o] = points[o] \cup Reversal(o)
    BY <1>3 DEF ReverseArrive
  <1>4. \/ UNCHANGED points
        \/ \E w \in Worker : CreateInsert(w) \/ EarnWrite(w) \/ Reverse(w) \/ Restore(w)
        \/ \E x \in Order : ReverseArrive(x)
    BY DEF Next, Create, UpdateStatus, RecordPayment, RecordRefund, Loyalty,
         CreateReplay, CreateArrive, CreateNumber, CreateRetry,
         CreateKeyLost, CreateLookup, StatusRead, StatusWrite, PayRead, PaySum, PayInsert,
         RefundRead, RefundSum, RefundInsert, TenderKeyLost, EarnArrive,
         EarnRead, Abort
  <1> QED BY <1>1, <1>2, <1>3, <1>4

Settled(o) == captured[o] >= orders[o].total

\* What is paid in full stays so.
LEMMA SettledStays ==
  ASSUME TypeOK, RequestsHaveOrders, Next, NEW o \in Order, Exists(o), Settled(o)
  PROVE  Settled(o)'
  <1>1. orders'[o].total = orders[o].total /\ orders[o].total \in Nat
    BY OrdersOnlyGrow DEF TypeOK, Row
  <1> QED BY <1>1, CapturesGrow DEF Settled

\* Who goes on to earn has settled the order.
LEMMA EarnersHaveSettled ==
  ASSUME TypeOK, TypeOK', RequestsHaveOrders, CreditorsArePaid, "earn" \notin Load, Next,
         NEW v \in Worker, req'[v] # req[v], req'[v].pc = "earnRead"
  PROVE  Settled(req[v].order)'
  <1>1. CASE CreateInsert(v)
    <2>1. PICK n \in Order :
            /\ orders'[n].total = req[v].draft.total
            /\ captured' = [captured EXCEPT ![n] =
                 IF req[v].draft.paid THEN req[v].draft.total ELSE 0]
            /\ req' = [req EXCEPT ![v] = IF req[v].draft.member /\ req[v].draft.paid
                 THEN [pc |-> "earnRead", order |-> n] ELSE Idle]
      BY <1>1, InsertEffect, Zenon
    <2>2. req[v].draft.paid /\ req'[v].order = n
      BY <2>1 DEF TypeOK, Idle
    <2>3. captured'[n] = orders'[n].total
      BY <2>1, <2>2 DEF TypeOK
    <2>4. orders'[n].total \in Nat
      BY DEF TypeOK, Row
    <2> QED BY <2>2, <2>3, <2>4 DEF Settled
  <1>2. CASE PayInsert(v) /\ Settles(req[v]) /\ req'[v].order = req[v].order
    <2> DEFINE o == req[v].order
    <2>1. req[v] \in TenderRequest
      BY <1>2, RequestShapes DEF PayInsert, At, TypeOK
    <2>2. o \in Order /\ Exists(o)
      BY <1>2, <2>1 DEF TenderRequest, RequestsHaveOrders, OrderPCs, PayInsert, At
    <2>3. captured'[o] = captured[o] + req[v].left
      BY <1>2, <2>2 DEF PayInsert, TypeOK, Settles
    <2>4. captured[o] + req[v].left >= orders[o].total
      BY <1>2 DEF CreditorsArePaid, PayInsert, At
    <2>5. orders'[o].total = orders[o].total
      BY <2>2, OrdersOnlyGrow
    <2> QED BY <1>2, <2>3, <2>4, <2>5 DEF Settled
  <1>3. ASSUME NEW o \in Order, EarnArrive(v, o)
        PROVE  FALSE
    BY <1>3 DEF EarnArrive, Take
  <1> QED BY <1>1, <1>2, <1>3, Origins

PaidInv == PointsAreForPaidSales /\ CreditorsArePaid

\* Points are earned by sales that are paid in full, however late they are
\* credited: who credits them has seen the sum, and the sum only grows.
THEOREM PointsFollowMoney == Spec => []PointsAreForPaidSales
  <1>1. Init => PaidInv
    BY DEF Init, PaidInv, PointsAreForPaidSales, CreditorsArePaid, At, Idle
  <1>2. ASSUME TypeOK, TypeOK', RequestsHaveOrders, AbsentIsBlank, PaidInv, [Next]_vars
        PROVE  PaidInv'
    <2>1. CASE UNCHANGED vars
      BY <1>2, <2>1 DEF PaidInv, PointsAreForPaidSales, CreditorsArePaid, At, vars
    <2> SUFFICES ASSUME Next, "earn" \notin Load PROVE PaidInv'
      BY <1>2, <2>1 DEF PaidInv, PointsAreForPaidSales, CreditorsArePaid
    <2>2. ASSUME NEW o \in Order, "EARN" \in points'[o]
          PROVE  orders'[o].member /\ Settled(o)'
      <3>1. CASE "EARN" \in points[o]
        <4>1. Exists(o)
          BY <1>2, <3>1, BlankOne
        <4>2. orders[o].member /\ Settled(o)
          BY <1>2, <2>2, <3>1 DEF PaidInv, PointsAreForPaidSales, Settled
        <4> QED BY <1>2, <4>1, <4>2, OrdersOnlyGrow, SettledStays
      <3>2. ASSUME NEW w \in Worker, EarnWrite(w), req[w].order = o
            PROVE  orders'[o].member /\ Settled(o)'
        <4>1. Exists(o) /\ orders[o].member /\ Settled(o)
          BY <1>2, <3>2 DEF PaidInv, CreditorsArePaid, Settled, RequestsHaveOrders, OrderPCs,
             EarnWrite, At
        <4> QED BY <1>2, <4>1, OrdersOnlyGrow, SettledStays
      <3> QED BY <1>2, <2>2, <3>1, <3>2, PointsWriters DEF Reversal, Restoration
    <2>3. ASSUME NEW v \in Worker, req'[v].pc \in {"payInsert", "earnRead", "earnWrite"}
          PROVE  /\ req'[v].pc = "payInsert" =>
                      captured'[req'[v].order] + req'[v].left >= orders'[req'[v].order].total
                 /\ req'[v].pc \in {"earnRead", "earnWrite"} => Settled(req[v].order)'
                 /\ req'[v].pc = "earnWrite" => orders'[req'[v].order].member
      <3> DEFINE o == req'[v].order
      <3>1. o \in Order
        BY <1>2, <2>3, RequestShapes DEF TypeOK, TenderRequest, PointsRequest
      <3>2. CASE req'[v] = req[v]
        <4>1. Exists(o)
          BY <1>2, <2>3, <3>2 DEF RequestsHaveOrders, OrderPCs
        <4>2. orders'[o].total = orders[o].total /\ orders'[o].member = orders[o].member
          BY <1>2, <3>1, <4>1, OrdersOnlyGrow
        <4>3. CASE req'[v].pc = "payInsert"
          <5>1. captured[o] + req[v].left >= orders[o].total
            BY <1>2, <3>2, <4>3 DEF PaidInv, CreditorsArePaid, At
          <5>2. req[v].left \in Int
            BY <1>2, <3>2, <4>3, RequestShapes DEF TypeOK, TenderRequest
          <5>3. orders[o].total \in Nat
            BY <1>2, <3>1 DEF TypeOK, Row
          <5>4. captured'[o] \in Nat /\ captured[o] \in Nat /\ captured[o] <= captured'[o]
            BY <1>2, <3>1, <4>1, CapturesGrow
          <5>5. captured'[o] + req[v].left >= orders'[o].total
            BY <5>1, <5>2, <5>3, <5>4, <4>2
          <5> QED BY <3>2, <4>3, <5>5
        <4>4. CASE req'[v].pc \in {"earnRead", "earnWrite"}
          <5>1. Settled(o) /\ (req'[v].pc = "earnWrite" => orders[o].member)
            BY <1>2, <3>2, <4>4 DEF PaidInv, CreditorsArePaid, At, Settled
          <5>2. Settled(req[v].order)'
            BY <1>2, <3>1, <3>2, <4>1, <5>1, SettledStays
          <5> QED BY <4>2, <4>4, <5>1, <5>2
        <4> QED BY <2>3, <4>3, <4>4
      <3>3. CASE req'[v] # req[v] /\ req'[v].pc = "payInsert"
        <4>1. PaySum(v) /\ o = req[v].order /\ req'[v].left = Outstanding(o)
          BY <1>2, <3>3, Origins
        <4>2. UNCHANGED <<orders, captured>>
          BY <4>1 DEF PaySum, money
        <4>3. orders[o].total \in Nat /\ captured[o] \in Nat
          BY <1>2, <3>1 DEF TypeOK, Row
        <4>4. captured'[o] + req'[v].left >= orders'[o].total
          BY <4>1, <4>2, <4>3 DEF Outstanding
        <4> QED BY <3>3, <4>4
      <3>4. CASE req'[v] # req[v] /\ req'[v].pc = "earnRead"
        BY <1>2, <3>4, EarnersHaveSettled DEF PaidInv
      <3>5. CASE req'[v] # req[v] /\ req'[v].pc = "earnWrite"
        <4>1. EarnRead(v) /\ o = req[v].order /\ orders[o].member
          BY <1>2, <3>5, Origins
        <4>2. UNCHANGED <<orders, captured>>
          BY <4>1 DEF EarnRead, money
        <4>3. Settled(o)
          BY <1>2, <4>1 DEF PaidInv, CreditorsArePaid, Settled, EarnRead, At
        <4>4. captured'[o] >= orders'[o].total
          BY <4>2, <4>3 DEF Settled
        <4> QED BY <3>5, <4>1, <4>2, <4>4 DEF Settled
      <3> QED BY <2>3, <3>2, <3>3, <3>4, <3>5
    <2>4. CreditorsArePaid'
      BY <2>3 DEF CreditorsArePaid, At, Settled
    <2>5. PointsAreForPaidSales'
      BY <2>2 DEF PointsAreForPaidSales, Settled
    <2> QED BY <2>4, <2>5 DEF PaidInv
  <1>3. PaidInv => PointsAreForPaidSales
    BY DEF PaidInv
  <1> QED BY <1>1, <1>2, <1>3, Typing, RequestsStandOnRows, BlankUntilInserted, PTL DEF Spec

\* What is refunded of an order only grows.
LEMMA RefundsGrow ==
  ASSUME TypeOK, Next, NEW o \in Order, refunded[o] > 0
  PROVE  refunded'[o] > 0
  <1>1. refunded[o] \in Nat
    BY DEF TypeOK
  <1>2. ASSUME NEW w \in Worker, req[w] \in TenderRequest
        PROVE  req[w].amount \in Nat
    BY <1>2, OrdersAssumption DEF TenderRequest
  <1> QED BY <1>1, <1>2, RefundWriters

\* A refund that commits leaves something refunded.
LEMMA RefundCounts ==
  ASSUME TypeOK, NEW w \in Worker, RefundInsert(w)
  PROVE  req[w].order \in Order /\ refunded'[req[w].order] > 0
  <1>1. req[w] \in TenderRequest
    BY RequestShapes DEF RefundInsert, At, TypeOK
  <1>2. req[w].order \in Order /\ req[w].amount \in Nat \ {0}
    BY <1>1, OrdersAssumption DEF TenderRequest
  <1>3. refunded'[req[w].order] = refunded[req[w].order] + req[w].amount
    BY <1>2 DEF RefundInsert, TypeOK
  <1>4. refunded[req[w].order] \in Nat
    BY <1>2 DEF TypeOK
  <1> QED BY <1>2, <1>3, <1>4

CauseInv == ReversalsHaveACause /\ ReversersRefunded

\* Points are reversed only where they were earned and given back only where
\* they were spent and money went back: who gives them back has committed a
\* refund, and neither points nor refunds are ever taken away.
THEOREM ReversalsAreCaused == Spec => []ReversalsHaveACause
  <1>1. Init => CauseInv
    BY DEF Init, CauseInv, ReversalsHaveACause, ReversersRefunded, Idle
  <1>2. ASSUME TypeOK, TypeOK', AbsentIsBlank, CauseInv, [Next]_vars
        PROVE  CauseInv'
    <2>1. CASE UNCHANGED vars
      BY <1>2, <2>1 DEF CauseInv, ReversalsHaveACause, ReversersRefunded, vars
    <2> SUFFICES ASSUME Next PROVE CauseInv'
      BY <1>2, <2>1
    <2>2. ASSUME NEW o \in Order
          PROVE  /\ "REFUND_REVERSAL" \in points'[o] => "EARN" \in points'[o]
                 /\ "REDEEM_REVERSAL" \in points'[o] =>
                      "REDEEM" \in points'[o] /\ refunded'[o] > 0
      <3>1. /\ "REFUND_REVERSAL" \in points[o] => "EARN" \in points[o]
            /\ "REDEEM_REVERSAL" \in points[o] => "REDEEM" \in points[o] /\ refunded'[o] > 0
        BY <1>2, RefundsGrow DEF CauseInv, ReversalsHaveACause
      <3>2. ASSUME NEW w \in Worker, Restore(w), req[w].order = o
            PROVE  refunded'[o] > 0
        <4>1. refunded[o] > 0
          BY <1>2, <3>2 DEF CauseInv, ReversersRefunded, Restore, At
        <4> QED BY <1>2, <4>1, RefundsGrow
      <3>3. CASE points'[o] = points[o]
        BY <3>1, <3>3
      <3>4. CASE points'[o] \subseteq {"REDEEM"}
        BY <3>4
      <3>5. CASE points'[o] = points[o] \cup {"EARN"}
        BY <3>1, <3>5
      <3>6. CASE points'[o] = points[o] \cup Reversal(o)
        BY <3>1, <3>6 DEF Reversal
      <3>7. CASE points'[o] = points[o] \cup Restoration(o) /\ refunded'[o] > 0
        BY <3>1, <3>7 DEF Restoration
      <3> QED BY <1>2, <3>2, <3>3, <3>4, <3>5, <3>6, <3>7, PointsWriters
    <2>3. ASSUME NEW v \in Worker, req'[v].pc \in {"reverse", "restore"}
          PROVE  refunded'[req'[v].order] > 0
      <3>1. req'[v].order \in Order
        BY <1>2, <2>3, RequestShapes DEF TypeOK, PointsRequest
      <3>2. CASE req'[v] = req[v]
        BY <1>2, <2>3, <3>1, <3>2, RefundsGrow DEF CauseInv, ReversersRefunded
      <3>3. CASE RefundInsert(v) /\ req'[v].order = req[v].order
        BY <1>2, <3>3, RefundCounts
      <3>4. CASE Reverse(v) /\ req'[v].order = req[v].order
        <4>1. refunded[req[v].order] > 0
          BY <1>2, <3>4 DEF CauseInv, ReversersRefunded, Reverse, At
        <4> QED BY <1>2, <3>1, <3>4, <4>1, RefundsGrow
      <3> QED BY <1>2, <2>3, <3>2, <3>3, <3>4, Origins
    <2>4. ReversersRefunded'
      BY <2>3 DEF ReversersRefunded
    <2>5. ReversalsHaveACause'
      BY <2>2 DEF ReversalsHaveACause
    <2> QED BY <2>4, <2>5 DEF CauseInv
  <1>3. CauseInv => ReversalsHaveACause
    BY DEF CauseInv
  <1> QED BY <1>1, <1>2, <1>3, Typing, BlankUntilInserted, PTL DEF Spec

-----------------------------------------------------------------------------
(***************************************************************************)
(* Requests that do not overlap: one worker, and any number of orders,     *)
(* keys, drafts and tenders.  What a request has read is then what the     *)
(* tables still hold when it writes, an ending is final, the money has its *)
(* ceilings, and the order desk implements Sale.                           *)
(***************************************************************************)

\* One request at a time.
OneAtATime == \A v, w \in Worker : v = w

tables == <<orders, captured, refunded, used, returned, trail>>

\* Four commits write an order, its money, its stock and its timeline.
LEMMA TableWriters ==
  ASSUME Next
  PROVE  \/ UNCHANGED tables
         \/ \E w \in Worker : \/ CreateInsert(w) \/ StatusWrite(w)
                              \/ PayInsert(w) \/ RefundInsert(w)
  <1> USE DEF tables, money, stock
  <1>1. ASSUME NEW o \in Order, (\E k \in Key : CreateReplay(o, k)) \/ ReverseArrive(o)
        PROVE  UNCHANGED tables
    BY <1>1 DEF CreateReplay, ReverseArrive
  <1>2. ASSUME NEW w \in Worker, Create(w), ~CreateInsert(w)
        PROVE  UNCHANGED tables
    BY <1>2 DEF Create, CreateArrive, CreateNumber, CreateRetry, CreateKeyLost, CreateLookup
  <1>3. ASSUME NEW w \in Worker, UpdateStatus(w), ~StatusWrite(w)
        PROVE  UNCHANGED tables
    BY <1>3 DEF UpdateStatus, StatusRead
  <1>4. ASSUME NEW w \in Worker, RecordPayment(w), ~PayInsert(w)
        PROVE  UNCHANGED tables
    BY <1>4 DEF RecordPayment, PayRead, PaySum
  <1>5. ASSUME NEW w \in Worker, RecordRefund(w), ~RefundInsert(w)
        PROVE  UNCHANGED tables
    BY <1>5 DEF RecordRefund, RefundRead, RefundSum
  <1>6. ASSUME NEW w \in Worker, TenderKeyLost(w) \/ Loyalty(w) \/ Abort(w)
        PROVE  UNCHANGED tables
    BY <1>6 DEF TenderKeyLost, Loyalty, EarnArrive, EarnRead, EarnWrite, Reverse, Restore, Abort
  <1> QED BY <1>1, <1>2, <1>3, <1>4, <1>5, <1>6 DEF Next

\* Whoever has written relies no more on what it had read.
LEMMA WritersAreDone ==
  ASSUME TypeOK, NEW w \in Worker,
         CreateInsert(w) \/ StatusWrite(w) \/ PayInsert(w) \/ RefundInsert(w)
  PROVE  req'[w].pc \in {"idle", "earnRead", "reverse"}
  <1> req \in [Worker -> Request]
    BY DEF TypeOK
  <1>1. CASE CreateInsert(w)
    BY <1>1, InsertGoesOn DEF Idle
  <1>2. CASE StatusWrite(w)
    BY <1>2 DEF StatusWrite, GoTo, Idle
  <1>3. CASE PayInsert(w)
    BY <1>3 DEF PayInsert, GoTo, Idle
  <1>4. CASE RefundInsert(w)
    BY <1>4 DEF RefundInsert, GoTo, Idle
  <1> QED BY <1>1, <1>2, <1>3, <1>4

\* What a request that is about to write has read, in the step that read it.
LEMMA Reads ==
  ASSUME TypeOK, Next, NEW v \in Worker, req'[v] # req[v]
  PROVE  LET r == req'[v] IN
         /\ r.pc = "update" =>
              \E o \in Order, to \in Status :
                /\ StatusRead(v, o, to)
                /\ r.order = o /\ r.from = orders[o].status /\ r.to = to
         /\ r.pc = "paySum" =>
              \E o \in Order, k \in MaybeKey, a \in Tender :
                PayRead(v, o, k, a) /\ r.order = o
         /\ r.pc = "payInsert" =>
              /\ PaySum(v) /\ r.order = req[v].order
              /\ r.amount = req[v].amount /\ r.amount <= Outstanding(req[v].order)
         /\ r.pc = "refundSum" =>
              \E o \in Order, k \in MaybeKey, a \in Tender :
                RefundRead(v, o, k, a) /\ r.order = o
         /\ r.pc = "refundInsert" =>
              /\ RefundSum(v) /\ r.order = req[v].order
              /\ r.amount = req[v].amount /\ r.amount <= Refundable(req[v].order)
         /\ r.pc = "earnWrite" => EarnRead(v) /\ r.order = req[v].order
         /\ r.pc \in {"number", "insert"} =>
              \/ \E d \in Draft : CreateArrive(v, d) /\ r.draft = d
              \/ req[v].pc \in {"number", "insert"} /\ r.draft = req[v].draft
  <1> req \in [Worker -> Request]
    BY DEF TypeOK
  <1>1. ASSUME NEW d \in Draft, CreateArrive(v, d)
        PROVE  req'[v].pc = "number" /\ req'[v].draft = d
    BY <1>1 DEF CreateArrive, Take
  <1>2. CASE CreateNumber(v) \/ CreateRetry(v) \/ CreateKeyLost(v) \/ CreateLookup(v)
    <2>1. req[v] \in CreateRequest
      BY <1>2, RequestShapes DEF CreateNumber, CreateRetry, CreateKeyLost, CreateLookup, At
    <2>2. /\ [req[v] EXCEPT !.pc = "lookup"].pc = "lookup"
          /\ \A n : LET q == [req[v] EXCEPT !.pc = "insert", !.number = n]
                    IN q.pc = "insert" /\ q.draft = req[v].draft
          /\ \A n : LET q == [req[v] EXCEPT !.pc = "number", !.attempt = n]
                    IN q.pc = "number" /\ q.draft = req[v].draft
      BY <2>1 DEF CreateRequest
    <2>3. CASE CreateNumber(v)
      BY <2>2, <2>3 DEF CreateNumber, GoTo, At
    <2>4. CASE CreateRetry(v) /\ req[v].attempt + 1 < MaxAttempts
      BY <2>2, <2>4 DEF CreateRetry, GoTo, At
    <2>5. CASE CreateRetry(v) /\ ~(req[v].attempt + 1 < MaxAttempts)
      BY <2>5 DEF CreateRetry, GoTo, Idle
    <2>6. CASE CreateKeyLost(v)
      BY <2>2, <2>6 DEF CreateKeyLost, GoTo
    <2>7. CASE CreateLookup(v)
      BY <2>7 DEF CreateLookup, GoTo, Idle
    <2> QED BY <1>2, <2>3, <2>4, <2>5, <2>6, <2>7
  <1>3. CASE CreateInsert(v)
    BY <1>3, InsertGoesOn DEF Idle
  <1>4. ASSUME NEW o \in Order, NEW to \in Status, StatusRead(v, o, to)
        PROVE  /\ req'[v].pc = "update" /\ req'[v].order = o
               /\ req'[v].from = orders[o].status /\ req'[v].to = to
    BY <1>4 DEF StatusRead, Take
  <1>5. ASSUME NEW o \in Order, NEW k \in MaybeKey, NEW a \in Tender, PayRead(v, o, k, a)
        PROVE  req'[v].pc = "paySum" /\ req'[v].order = o
    BY <1>5 DEF PayRead, Take
  <1>6. ASSUME NEW o \in Order, NEW k \in MaybeKey, NEW a \in Tender, RefundRead(v, o, k, a)
        PROVE  req'[v].pc = "refundSum" /\ req'[v].order = o
    BY <1>6 DEF RefundRead, Take
  <1>7. ASSUME PaySum(v) \/ RefundSum(v), req'[v].pc # "idle"
        PROVE  /\ PaySum(v) => /\ req'[v].pc = "payInsert"
                               /\ req'[v].amount <= Outstanding(req[v].order)
               /\ RefundSum(v) => /\ req'[v].pc = "refundInsert"
                                  /\ req'[v].amount <= Refundable(req[v].order)
               /\ req'[v].order = req[v].order /\ req'[v].amount = req[v].amount
    <2>1. req[v] \in TenderRequest
      BY <1>7, RequestShapes DEF PaySum, RefundSum, At
    <2>2. \A n, pc : LET q == [req[v] EXCEPT !.pc = pc, !.left = n]
                     IN q.order = req[v].order /\ q.amount = req[v].amount
      BY <2>1 DEF TenderRequest
    <2>3. CASE PaySum(v)
      <3> DEFINE due == Outstanding(req[v].order)
      <3>1. req' = [req EXCEPT ![v] = IF req[v].amount <= due
                      THEN [req[v] EXCEPT !.pc = "payInsert", !.left = due] ELSE Idle]
        BY <2>3 DEF PaySum, GoTo
      <3> HIDE DEF due
      <3>2. /\ req[v].amount <= due
            /\ req'[v] = [req[v] EXCEPT !.pc = "payInsert", !.left = due]
        BY <1>7, <3>1 DEF Idle
      <3>3. ~RefundSum(v)
        BY <2>3 DEF PaySum, RefundSum, At
      <3> QED BY <1>7, <2>2, <2>3, <3>2, <3>3, SumsAreKept DEF due
    <2>4. CASE RefundSum(v)
      <3> DEFINE kept == Refundable(req[v].order)
      <3>1. req' = [req EXCEPT ![v] = IF req[v].amount <= kept
                      THEN [req[v] EXCEPT !.pc = "refundInsert", !.left = kept] ELSE Idle]
        BY <2>4 DEF RefundSum, GoTo
      <3> HIDE DEF kept
      <3>2. /\ req[v].amount <= kept
            /\ req'[v] = [req[v] EXCEPT !.pc = "refundInsert", !.left = kept]
        BY <1>7, <3>1 DEF Idle
      <3>3. ~PaySum(v)
        BY <2>4 DEF PaySum, RefundSum, At
      <3> QED BY <1>7, <2>2, <2>4, <3>2, <3>3, SumsAreKept DEF kept
    <2> QED BY <1>7, <2>3, <2>4
  <1>8. CASE StatusWrite(v) \/ PayInsert(v) \/ RefundInsert(v)
    BY <1>8, WritersAreDone
  <1>9. CASE Loyalty(v)
    BY <1>9, Origins
      DEF Loyalty, EarnArrive, EarnRead, EarnWrite, Reverse, Restore, Take, GoTo, Idle
  <1>10. CASE TenderKeyLost(v) \/ Abort(v)
    BY <1>10 DEF TenderKeyLost, Abort, GoTo, Idle
  <1>11. CASE PaySum(v) \/ RefundSum(v)
    <2>1. CASE req'[v].pc = "idle"
      BY <2>1
    <2>2. CASE req'[v].pc # "idle"
      BY <1>7, <1>11, <2>2
    <2> QED BY <2>1, <2>2
  <1>12. CASE Create(v)
    BY <1>1, <1>2, <1>3, <1>12 DEF Create
  <1>13. CASE UpdateStatus(v)
    BY <1>4, <1>8, <1>13 DEF UpdateStatus
  <1>14. CASE RecordPayment(v)
    BY <1>5, <1>8, <1>11, <1>14 DEF RecordPayment
  <1>15. CASE RecordRefund(v)
    BY <1>6, <1>8, <1>11, <1>15 DEF RecordRefund
  <1> QED BY <1>9, <1>10, <1>12, <1>13, <1>14, <1>15, OwnSteps DEF Acts

-----------------------------------------------------------------------------
(* One request at a time.                                                  *)

\* With one worker, whatever happens while a request stays where it is leaves
\* the tables alone.
LEMMA NobodyElse ==
  ASSUME OneAtATime, TypeOK, Next, NEW v \in Worker,
         req'[v].pc \notin {"idle", "earnRead", "reverse"}
  PROVE  UNCHANGED tables
  BY TableWriters, WritersAreDone DEF OneAtATime

\* What a request has read still holds.
LEMMA FreshInductive ==
  ASSUME OneAtATime, TypeOK, TypeOK', ReadsAreFresh, Next
  PROVE  ReadsAreFresh'
  <1> DEFINE Fresh(r, os, cs, rs) ==
        /\ r.pc = "update" => os[r.order].status = r.from /\ CanTransition(r.from, r.to)
        /\ r.pc \in {"paySum", "payInsert"} => os[r.order].status \notin Reversing
        /\ r.pc = "payInsert" => cs[r.order] + r.amount <= os[r.order].total
        /\ r.pc \in {"refundSum", "refundInsert"} => os[r.order].status \in Finished
        /\ r.pc = "refundInsert" => rs[r.order] + r.amount <= cs[r.order]
        /\ r.pc = "earnWrite" => os[r.order].status \notin Reversing
  <1>0. \A v \in Worker : Fresh(req[v], orders, captured, refunded)
    BY DEF ReadsAreFresh
  <1> SUFFICES ASSUME NEW v \in Worker
               PROVE  Fresh(req'[v], orders', captured', refunded')
    BY DEF ReadsAreFresh
  <1> DEFINE r == req'[v]
  <1>1. CASE r.pc \in {"idle", "earnRead", "reverse"}
    BY <1>1
  <1>2. CASE r.pc \notin {"idle", "earnRead", "reverse"}
    <2>1. UNCHANGED <<orders, captured, refunded>>
      BY <1>2, NobodyElse DEF tables
    <2> SUFFICES Fresh(r, orders, captured, refunded)
      <3> HIDE DEF Fresh
      <3> QED BY <2>1
    <2>2. CASE r = req[v]
      BY <1>0, <2>2
    <2>3. CASE r # req[v] /\ r.pc = "update"
      BY <2>3, Reads DEF StatusRead
    <2>4. CASE r # req[v] /\ r.pc = "paySum"
      BY <2>4, Reads DEF PayRead
    <2>5. CASE r # req[v] /\ r.pc = "payInsert"
      <3>1. PaySum(v) /\ r.order = req[v].order /\ r.amount = req[v].amount
            /\ r.amount <= Outstanding(req[v].order)
        BY <2>5, Reads
      <3>2. orders[r.order].status \notin Reversing
        BY <1>0, <3>1 DEF PaySum, At
      <3>3. r.order \in Order /\ r.amount \in Nat
        BY <3>1, RequestShapes, OrdersAssumption DEF TenderRequest, PaySum, At, TypeOK
      <3>4. orders[r.order].total \in Nat /\ captured[r.order] \in Nat
        BY <3>3 DEF TypeOK, Row
      <3>5. captured[r.order] + r.amount <= orders[r.order].total
        BY <3>1, <3>3, <3>4 DEF Outstanding
      <3> QED BY <2>5, <3>2, <3>5
    <2>6. CASE r # req[v] /\ r.pc = "refundSum"
      BY <2>6, Reads DEF RefundRead
    <2>7. CASE r # req[v] /\ r.pc = "refundInsert"
      <3>1. RefundSum(v) /\ r.order = req[v].order /\ r.amount = req[v].amount
            /\ r.amount <= Refundable(req[v].order)
        BY <2>7, Reads
      <3>2. orders[r.order].status \in Finished
        BY <1>0, <3>1 DEF RefundSum, At
      <3>3. r.order \in Order /\ r.amount \in Nat
        BY <3>1, RequestShapes, OrdersAssumption DEF TenderRequest, RefundSum, At, TypeOK
      <3>4. refunded[r.order] \in Nat /\ captured[r.order] \in Nat
        BY <3>3 DEF TypeOK
      <3>5. refunded[r.order] + r.amount <= captured[r.order]
        BY <3>1, <3>3, <3>4 DEF Refundable
      <3> QED BY <2>7, <3>2, <3>5
    <2>8. CASE r # req[v] /\ r.pc = "earnWrite"
      <3>1. EarnRead(v) /\ r.order = req[v].order
        BY <2>8, Reads
      <3>2. req' = [req EXCEPT ![v] =
              IF orders[req[v].order].member /\ orders[req[v].order].status \notin Reversing
              THEN [pc |-> "earnWrite", order |-> req[v].order] ELSE Idle]
        BY <3>1 DEF EarnRead, GoTo
      <3>3. orders[req[v].order].status \notin Reversing
        BY <2>8, <3>2 DEF Idle, TypeOK
      <3> QED BY <2>8, <3>1, <3>3
    <2>9. CASE r.pc \notin {"update", "paySum", "payInsert", "refundSum", "refundInsert",
                           "earnWrite"}
      BY <2>9
    <2> QED BY <2>2, <2>3, <2>4, <2>5, <2>6, <2>7, <2>8, <2>9
  <1> QED BY <1>1, <1>2

\* A draft that is asked for is not both held and paid.
LEMMA DraftsInductive ==
  ASSUME TypeOK, DraftsAreSound, Next
  PROVE  DraftsAreSound'
  <1> SUFFICES ASSUME NEW v \in Worker, req'[v].pc \in {"number", "insert"}
               PROVE  ~(req'[v].draft.hold /\ req'[v].draft.paid)
    BY DEF DraftsAreSound
  <1>1. CASE req'[v] = req[v]
    BY <1>1 DEF DraftsAreSound
  <1>2. CASE req'[v] # req[v]
    BY <1>2, Reads DEF DraftsAreSound, CreateArrive
  <1> QED BY <1>1, <1>2

\* What the commit of a status change does to its order, when its reading is
\* fresh.
LEMMA FreshMove ==
  ASSUME TypeOK, ReadsAreFresh, NEW w \in Worker, StatusWrite(w)
  PROVE  LET o == req[w].order
             from == orders[o].status
             to == orders'[o].status
         IN /\ o \in Order /\ from = req[w].from /\ to = req[w].to
            /\ from \in Status /\ to \in Status /\ CanTransition(from, to)
  BY StatusEffect DEF ReadsAreFresh, StatusWrite, At, StatusRequest

\* A held order has taken nothing, and an order that was not reversed has given
\* nothing back.
LEMMA StockInductive ==
  ASSUME TypeOK, TypeOK', ReadsAreFresh, AbsentIsBlank, StockFollowsStatus, Next
  PROVE  StockFollowsStatus'
  <1> SUFFICES ASSUME NEW o \in Order
               PROVE  /\ orders'[o].status = "DRAFT" => used'[o] = 0
                      /\ orders'[o].status \notin Reversing => returned'[o] = 0
    BY DEF StockFollowsStatus
  <1>1. CASE orders'[o] = orders[o] /\ used'[o] = used[o] /\ returned'[o] = returned[o]
    BY <1>1 DEF StockFollowsStatus
  <1>2. ASSUME NEW w \in Worker, CreateInsert(w)
        PROVE  /\ orders'[o].status = "DRAFT" => used'[o] = 0
               /\ orders'[o].status \notin Reversing => returned'[o] = 0
    <2>1. PICK n \in Order :
            /\ ~Exists(n)
            /\ orders'[n].status = Opening(req[w].draft)
            /\ \A x \in Order \ {n} : orders'[x] = orders[x]
            /\ used' = [used EXCEPT ![n] = Depletion(req[w].draft)]
      BY <1>2, InsertEffect, Zenon
    <2>2. returned' = returned
      BY <1>2 DEF CreateInsert
    <2>3. CASE o # n
      BY <1>1, <2>1, <2>2, <2>3
    <2>4. CASE o = n
      <3>1. returned[n] = 0
        BY <2>1 DEF AbsentIsBlank
      <3>2. used'[n] = Depletion(req[w].draft)
        BY <2>1 DEF TypeOK
      <3>3. orders'[n].status = "DRAFT" => req[w].draft.hold
        BY <2>1 DEF Opening
      <3> QED BY <2>2, <2>4, <3>1, <3>2, <3>3 DEF Depletion
    <2> QED BY <2>3, <2>4
  <1>3. ASSUME NEW w \in Worker, StatusWrite(w)
        PROVE  /\ orders'[o].status = "DRAFT" => used'[o] = 0
               /\ orders'[o].status \notin Reversing => returned'[o] = 0
    <2>p. PICK p \in Order : p = req[w].order
      BY <1>3, FreshMove
    <2>1. /\ orders[p].status \in Status
          /\ orders[p].status = req[w].from /\ orders'[p].status = req[w].to
          /\ CanTransition(orders[p].status, orders'[p].status)
      BY <1>3, <2>p, FreshMove
    <2>2. /\ returned' = [returned EXCEPT ![p] = returned[p] + Restock(p, req[w].to)]
          /\ \A x \in Order \ {p} : used'[x] = used[x] /\ orders'[x] = orders[x]
      <3>1. /\ returned' = [returned EXCEPT ![p] = returned[p] + Restock(p, req[w].to)]
            /\ \/ used' = [used EXCEPT ![p] = used[p] + orders[p].basket.products]
               \/ used' = used
        BY <1>3, <2>p DEF StatusWrite
      <3>2. \A x \in Order \ {p} : orders'[x] = orders[x]
        BY <1>3, <2>p, StatusEffect
      <3>3. used \in [Order -> Nat]
        BY DEF TypeOK
      <3> QED BY <3>1, <3>2, <3>3
    <2>3. CASE o # p
      BY <1>1, <2>1, <2>2, <2>3 DEF TypeOK
    <2>4. CASE o = p
      <3>1. orders'[p].status # "DRAFT"
        BY <2>1 DEF CanTransition, Transitions, Status
      <3>2. orders[p].status \notin Reversing
        BY <2>1 DEF CanTransition, Transitions, Status, Reversing
      <3>3. orders'[p].status \notin Reversing => returned'[p] = 0
        BY <2>1, <2>2, <3>2 DEF Restock, StockFollowsStatus, TypeOK
      <3> QED BY <2>4, <3>1, <3>3
    <2> QED BY <2>3, <2>4
  <1>4. CASE \E w \in Worker : PayInsert(w) \/ RefundInsert(w)
    BY <1>1, <1>4 DEF PayInsert, RefundInsert, stock
  <1>5. CASE UNCHANGED tables
    BY <1>1, <1>5 DEF tables
  <1> QED BY <1>2, <1>3, <1>4, <1>5, TableWriters

SerialInv == ReadsAreFresh /\ DraftsAreSound /\ StockFollowsStatus

\* All of it, in every state one worker reaches.
LEMMA Serially ==
  ASSUME OneAtATime
  PROVE  Spec => []SerialInv
  <1>1. Init => SerialInv
    BY DEF Init, SerialInv, ReadsAreFresh, DraftsAreSound, StockFollowsStatus, Idle, NoRow
  <1>2. ASSUME TypeOK, TypeOK', AbsentIsBlank, SerialInv, [Next]_vars
        PROVE  SerialInv'
    <2>1. CASE UNCHANGED vars
      BY <1>2, <2>1 DEF vars, SerialInv, ReadsAreFresh, DraftsAreSound, StockFollowsStatus
    <2>2. CASE Next
      BY <1>2, <2>2, FreshInductive, DraftsInductive, StockInductive DEF SerialInv
    <2> QED BY <1>2, <2>1, <2>2
  <1> QED BY <1>1, <1>2, Typing, BlankUntilInserted, PTL DEF Spec

\* "A reversed sale earns nothing": no step books points on an order that is
\* VOIDED or CANCELLED (earnForOrder).
THEOREM ReversedSalesEarnNothing ==
  ASSUME OneAtATime
  PROVE  Spec => ReversedSaleEarnsNothing
  <1>1. ASSUME TypeOK, ReadsAreFresh, [Next]_vars,
               NEW o \in Order, orders[o].status \in Reversing, "EARN" \in points'[o]
        PROVE  "EARN" \in points[o]
    <2>1. CASE UNCHANGED vars
      BY <1>1, <2>1 DEF vars
    <2>2. ASSUME NEW w \in Worker, EarnWrite(w), req[w].order = o
          PROVE  FALSE
      BY <1>1, <2>2 DEF EarnWrite, At, ReadsAreFresh
    <2>3. Exists(o)
      BY <1>1 DEF Exists, Reversing
    <2> QED BY <1>1, <2>1, <2>2, <2>3, PointsWriters DEF Reversal, Restoration
  <1>2. TypeOK /\ SerialInv /\ [Next]_vars
          => [\A o \in Order : orders[o].status \in Reversing /\ "EARN" \in points'[o]
                                 => "EARN" \in points[o]]_vars
    BY <1>1 DEF SerialInv
  <1> QED BY <1>2, Typing, Serially, PTL DEF Spec, ReversedSaleEarnsNothing

-----------------------------------------------------------------------------
(* The order desk implements Sale.                                         *)

\* Two tables that agree elsewhere differ at one order at most.
LEMMA OnlyThere ==
  ASSUME NEW f, NEW g, NEW n \in Order,
         f = [x \in Order |-> f[x]], g = [x \in Order |-> g[x]],
         \A x \in Order \ {n} : g[x] = f[x]
  PROVE  g = [f EXCEPT ![n] = g[n]]
  OBVIOUS

\* The commit of a new order opens a sale.
LEMMA InsertOpens ==
  ASSUME TypeOK, TypeOK', DraftsAreSound, AbsentIsBlank, NEW w \in Worker, CreateInsert(w)
  PROVE  \E o \in Order : S!Open(o)
  <1> DEFINE d == req[w].draft
             st == [o \in Order |-> orders[o].status]
             all == [o \in Order |-> orders[o].total]
             need == [o \in Order |-> orders[o].basket.products + orders[o].basket.combos]
  <1>1. PICK n \in Order :
          /\ ~Exists(n)
          /\ orders'[n].status = Opening(d)
          /\ orders'[n].total = d.total /\ orders'[n].basket = d.basket
          /\ \A x \in Order \ {n} : orders'[x] = orders[x]
          /\ captured' = [captured EXCEPT ![n] = IF d.paid THEN d.total ELSE 0]
          /\ used' = [used EXCEPT ![n] = Depletion(d)]
          /\ trail' = [trail EXCEPT ![n] = <<[from |-> "ABSENT", to |-> Opening(d)]>>]
    BY InsertEffect, Zenon
  <1>2. /\ st[n] = "ABSENT" /\ st'[n] = Opening(d) /\ st'[n] \in {"DRAFT", "PLACED"}
        /\ st' = [st EXCEPT ![n] = st'[n]]
    <2>1. st' = [o \in Order |-> orders'[o].status]
      OBVIOUS
    <2>2. \A x \in Order \ {n} : st'[x] = st[x]
      BY <1>1, <2>1
    <2>3. st' = [st EXCEPT ![n] = st'[n]]
      <3> HIDE DEF st
      <3>1. st = [x \in Order |-> st[x]] /\ st' = [x \in Order |-> st'[x]]
        BY DEF st
      <3> QED BY <2>2, <3>1, OnlyThere
    <2> QED BY <1>1, <2>1, <2>3 DEF Exists, Opening
  <1>3. all' = [all EXCEPT ![n] = all'[n]] /\ all'[n] = d.total
    <2>1. \A x \in Order \ {n} : all'[x] = all[x]
      BY <1>1
    <2>2. all' = [all EXCEPT ![n] = all'[n]]
      <3>1. all = [x \in Order |-> all[x]] /\ all' = [x \in Order |-> all'[x]]
        OBVIOUS
      <3> HIDE DEF all
      <3> QED BY <2>1, <3>1, OnlyThere
    <2> QED BY <1>1, <2>2
  <1>4. need' = [need EXCEPT ![n] = need'[n]] /\ need'[n] = Units(d.basket)
    <2>1. \A x \in Order \ {n} : need'[x] = need[x]
      BY <1>1
    <2>2. need' = [need EXCEPT ![n] = need'[n]]
      <3>1. need = [x \in Order |-> need[x]] /\ need' = [x \in Order |-> need'[x]]
        OBVIOUS
      <3> HIDE DEF need
      <3> QED BY <2>1, <3>1, OnlyThere
    <2> QED BY <1>1, <2>2 DEF Units
  <1>5. trail' = [trail EXCEPT ![n] = Append(@, [from |-> st[n], to |-> st'[n]])]
    <2>1. trail[n] = <<>>
      BY <1>1 DEF AbsentIsBlank
    <2>2. \A e : Append(<<>>, e) = <<e>>
      OBVIOUS
    <2> HIDE DEF st
    <2> QED BY <1>1, <1>2, <2>1, <2>2
  <1>6. /\ captured' = [captured EXCEPT ![n] = captured'[n]]
        /\ captured'[n] \in {0, all'[n]}
        /\ used' = [used EXCEPT ![n] = used'[n]] /\ used'[n] = Depletion(d)
    <2>1. captured \in [Order -> Nat] /\ used \in [Order -> Nat]
      BY DEF TypeOK
    <2> HIDE DEF all
    <2> QED BY <1>1, <1>3, <2>1
  <1>7. st'[n] = "PLACED" => used'[n] <= need'[n]
    <2>1. st'[n] = "PLACED" => ~d.hold
      BY <1>2 DEF Opening
    <2>2. need'[n] \in Nat
      BY DEF TypeOK, Row, Basket
    <2> HIDE DEF st, need
    <2> QED BY <1>4, <1>6, <2>1, <2>2 DEF Depletion
  <1>8. st'[n] # "PLACED" => UNCHANGED <<captured, used>>
    <2>1. st'[n] # "PLACED" => d.hold /\ ~d.paid
      BY <1>2 DEF Opening, CreateInsert, At, DraftsAreSound
    <2>2. captured[n] = 0 /\ used[n] = 0
      BY <1>1 DEF AbsentIsBlank
    <2> HIDE DEF st
    <2> QED BY <1>1, <2>1, <2>2 DEF Depletion, TypeOK
  <1>9. UNCHANGED <<refunded, returned>>
    BY DEF CreateInsert
  <1>10. S!Open(n)
    <2> HIDE DEF st, all, need
    <2> QED BY <1>2, <1>3, <1>4, <1>5, <1>6, <1>7, <1>8, <1>9, Zenon
         DEF S!Open, S!Step, S!OnlyAt, S!Take, st, all, need
  <1> QED BY <1>10

\* The commit of a status change moves a sale.
LEMMA WriteMoves ==
  ASSUME TypeOK, TypeOK', ReadsAreFresh, StockFollowsStatus, NEW w \in Worker, StatusWrite(w)
  PROVE  \E o \in Order : S!Move(o)
  <1>p. PICK p \in Order : p = req[w].order
    BY FreshMove
  <1> DEFINE st == [o \in Order |-> orders[o].status]
             all == [o \in Order |-> orders[o].total]
             need == [o \in Order |-> orders[o].basket.products + orders[o].basket.combos]
  <1>1. /\ st[p] = req[w].from /\ st'[p] = req[w].to
        /\ st[p] \in Status /\ st'[p] \in Status /\ CanTransition(st[p], st'[p])
    BY <1>p, FreshMove
  <1>2. st' = [st EXCEPT ![p] = st'[p]]
    <2>1. \A x \in Order \ {p} : st'[x] = st[x]
      BY <1>p, StatusEffect
    <2>2. st = [x \in Order |-> st[x]] /\ st' = [x \in Order |-> st'[x]]
      OBVIOUS
    <2> HIDE DEF st
    <2> QED BY <1>1, <2>1, <2>2, OnlyThere
  <1>3. all' = all /\ need' = need
    BY StatusEffect
  <1>4. UNCHANGED <<captured, refunded>>
    BY DEF StatusWrite, money
  <1>5. trail' = [trail EXCEPT ![p] = Append(@, [from |-> st[p], to |-> st'[p]])]
    <2>1. trail' = [trail EXCEPT ![p] = Append(@, [from |-> req[w].from, to |-> req[w].to])]
      BY <1>p DEF StatusWrite
    <2> HIDE DEF st
    <2> QED BY <1>1, <2>1
  <1>6. /\ st[p] \in S!SaleStatus /\ st'[p] \in S!SaleStatus
        /\ S!Rank[st[p]] < S!Rank[st'[p]]
    <2> HIDE DEF st
    <2> QED BY <1>1 DEF S!SaleStatus, S!Rank, Status, CanTransition, Transitions
  <1>7. /\ st[p] = "DRAFT" /\ st'[p] = "PLACED" =>
             used' = [used EXCEPT ![p] = used'[p]] /\ used'[p] <= need'[p]
        /\ ~(st[p] = "DRAFT" /\ st'[p] = "PLACED") => used' = used
    <2>1. used' = IF req[w].from = "DRAFT" /\ req[w].to = "PLACED"
                  THEN [used EXCEPT ![p] = used[p] + orders[p].basket.products] ELSE used
      BY <1>p DEF StatusWrite
    <2>2. st[p] = "DRAFT" => used[p] = 0
      BY <1>1 DEF StockFollowsStatus
    <2>3. /\ orders[p].basket.products \in Nat /\ orders[p].basket.combos \in Nat
          /\ need[p] = orders[p].basket.products + orders[p].basket.combos
          /\ used \in [Order -> Nat]
      BY <1>1 DEF TypeOK, Row, Basket
    <2> HIDE DEF st, need
    <2>4. CASE st[p] = "DRAFT" /\ st'[p] = "PLACED"
      <3>1. used' = [used EXCEPT ![p] = used[p] + orders[p].basket.products]
        BY <1>1, <2>1, <2>4
      <3>2. used'[p] = orders[p].basket.products
        BY <2>2, <2>3, <2>4, <3>1
      <3> QED BY <1>3, <2>3, <2>4, <3>1, <3>2
    <2>5. CASE ~(st[p] = "DRAFT" /\ st'[p] = "PLACED")
      BY <1>1, <2>1, <2>5
    <2> QED BY <2>4, <2>5
  <1>8. returned' = IF st'[p] \in S!Reversals
                    THEN [returned EXCEPT ![p] = used[p]] ELSE returned
    <2>1. returned' = [returned EXCEPT ![p] = returned[p] + Restock(p, req[w].to)]
      BY <1>p DEF StatusWrite
    <2>2. st[p] \notin Reversing
      <3> HIDE DEF st
      <3> QED BY <1>1 DEF Status, CanTransition, Transitions, Reversing
    <2>3. returned[p] = 0
      BY <1>1, <2>2 DEF StockFollowsStatus
    <2>4. returned \in [Order -> Nat] /\ used[p] \in Nat
      BY <1>1 DEF TypeOK
    <2> HIDE DEF st
    <2>5. CASE st'[p] \in Reversing
      <3>1. returned[p] + Restock(p, req[w].to) = used[p]
        BY <1>1, <2>3, <2>4, <2>5 DEF Restock
      <3>2. returned' = [returned EXCEPT ![p] = used[p]]
        BY <2>1, <3>1, Zenon
      <3> QED BY <2>5, <3>2 DEF Reversing, S!Reversals
    <2>6. CASE st'[p] \notin Reversing
      <3>1. Restock(p, req[w].to) = 0
        BY <1>1, <2>6 DEF Restock
      <3>2. returned' = returned
        BY <2>1, <2>3, <2>4, <3>1
      <3> QED BY <2>6, <3>2 DEF Reversing, S!Reversals
    <2> QED BY <2>5, <2>6
  <1>9. S!Move(p)
    <2> HIDE DEF st, all, need
    <2> QED BY <1>2, <1>3, <1>4, <1>5, <1>6, <1>7, <1>8, Zenon
         DEF S!Move, S!Step, S!OnlyAt, S!Take, S!money, st, all, need
  <1> QED BY <1>9

\* The commit of a payment receives money.
LEMMA PaymentReceives ==
  ASSUME TypeOK, ReadsAreFresh, RequestsHaveOrders, NEW w \in Worker, PayInsert(w)
  PROVE  \E o \in Order : S!Receive(o)
  <1> DEFINE o == req[w].order
             a == req[w].amount
  <1>1. o \in Order /\ a \in Nat \ {0}
    <2>1. req[w].pc = "payInsert"
      BY DEF PayInsert, At
    <2>2. req[w] \in TenderRequest
      BY <2>1, RequestShapes DEF TypeOK
    <2> QED BY <2>2, OrdersAssumption DEF TenderRequest
  <1>2. /\ orders[o].status \in Status \ Reversing
        /\ captured[o] + a <= orders[o].total
    BY <1>1 DEF PayInsert, At, ReadsAreFresh, RequestsHaveOrders, OrderPCs, Exists, TypeOK, Row
  <1>3. captured' = [captured EXCEPT ![o] = captured[o] + a]
    BY DEF PayInsert
  <1>4. captured \in [Order -> Nat]
    BY DEF TypeOK
  <1>5. UNCHANGED <<orders, trail, refunded, used, returned>>
    BY DEF PayInsert, stock
  <1>6. Status = S!SaleStatus /\ Reversing = S!Reversals
    BY DEF Status, Reversing, S!SaleStatus, S!Rank, S!Reversals
  <1> HIDE DEF o, a
  <1>7. /\ captured'[o] > captured[o] /\ captured'[o] <= orders[o].total
        /\ captured' = [captured EXCEPT ![o] = captured'[o]]
    BY <1>1, <1>2, <1>3, <1>4
  <1>8. S!Receive(o)
    BY <1>1, <1>2, <1>5, <1>6, <1>7 DEF S!Receive, S!OnlyAt, S!shelf
  <1> QED BY <1>1, <1>8

\* The commit of a refund hands money back.
LEMMA RefundHandsBack ==
  ASSUME TypeOK, ReadsAreFresh, NEW w \in Worker, RefundInsert(w)
  PROVE  \E o \in Order : S!HandBack(o)
  <1> DEFINE o == req[w].order
             a == req[w].amount
  <1>1. o \in Order /\ a \in Nat \ {0}
    <2>1. req[w].pc = "refundInsert"
      BY DEF RefundInsert, At
    <2>2. req[w] \in TenderRequest
      BY <2>1, RequestShapes DEF TypeOK
    <2> QED BY <2>2, OrdersAssumption DEF TenderRequest
  <1>2. orders[o].status \in Finished /\ refunded[o] + a <= captured[o]
    BY <1>1 DEF RefundInsert, At, ReadsAreFresh
  <1>3. refunded' = [refunded EXCEPT ![o] = refunded[o] + a]
    BY DEF RefundInsert
  <1>4. refunded \in [Order -> Nat] /\ captured \in [Order -> Nat]
    BY DEF TypeOK
  <1>5. UNCHANGED <<orders, trail, captured, used, returned>>
    BY DEF RefundInsert, stock
  <1>6. Finished \subseteq S!Endings
    BY DEF Finished, S!Endings, S!SaleStatus, S!Rank
  <1> HIDE DEF o, a
  <1>7. /\ refunded'[o] > refunded[o] /\ refunded'[o] <= captured[o]
        /\ refunded' = [refunded EXCEPT ![o] = refunded'[o]]
    BY <1>1, <1>2, <1>3, <1>4
  <1>8. S!HandBack(o)
    BY <1>1, <1>2, <1>5, <1>6, <1>7 DEF S!HandBack, S!OnlyAt, S!shelf
  <1> QED BY <1>1, <1>8

\* Sale is what the order desk does, request by request.
THEOREM OrderDeskIsASale ==
  ASSUME OneAtATime
  PROVE  Spec => ImplementsSale
  <1>1. Init => S!SaleInit
    <2> SUFFICES ASSUME Init PROVE S!SaleInit
      OBVIOUS
    <2>1. /\ [o \in Order |-> orders[o].status] = [o \in Order |-> "ABSENT"]
          /\ [o \in Order |-> orders[o].total] = [o \in Order |-> 0]
          /\ [o \in Order |-> orders[o].basket.products + orders[o].basket.combos]
               = [o \in Order |-> 0]
      BY DEF Init, NoRow
    <2> QED BY <2>1 DEF Init, S!SaleInit
  <1>2. ASSUME TypeOK, TypeOK', AbsentIsBlank, RequestsHaveOrders, SerialInv, [Next]_vars
        PROVE  [S!SaleNext]_(S!saleVars)
    <2>1. CASE UNCHANGED tables
      BY <2>1 DEF tables, S!saleVars, S!money, S!shelf
    <2>2. ASSUME NEW w \in Worker, \/ CreateInsert(w) \/ StatusWrite(w)
                                   \/ PayInsert(w) \/ RefundInsert(w)
          PROVE  S!SaleNext
      BY <1>2, <2>2, InsertOpens, WriteMoves, PaymentReceives, RefundHandsBack
         DEF S!SaleNext, SerialInv
    <2>3. CASE UNCHANGED vars
      BY <2>1, <2>3 DEF vars, tables, money, stock
    <2> QED BY <1>2, <2>1, <2>2, <2>3, TableWriters
  <1> QED BY <1>1, <1>2, Typing, BlankUntilInserted, RequestsStandOnRows, Serially, PTL
       DEF Spec, ImplementsSale, S!SaleSpec

\* With one worker the till never refunds more than it took: "capped at captured
\* minus already refunded" (recordRefund).
THEOREM RefundCeiling ==
  ASSUME OneAtATime
  PROVE  Spec => []RefundedWithinCaptured
  <1>1. Init => RefundedWithinCaptured
    <2> SUFFICES ASSUME Init, NEW o \in Order PROVE refunded[o] <= captured[o]
      BY DEF RefundedWithinCaptured
    <2>1. refunded[o] = 0 /\ captured[o] = 0
      BY DEF Init
    <2> QED BY <2>1
  <1>2. ASSUME TypeOK, TypeOK', AbsentIsBlank, RequestsHaveOrders, SerialInv,
               RefundedWithinCaptured, [Next]_vars
        PROVE  RefundedWithinCaptured'
    <2> SUFFICES ASSUME NEW o \in Order PROVE refunded'[o] <= captured'[o]
      BY DEF RefundedWithinCaptured
    <2>1. CASE refunded'[o] = refunded[o] /\ captured'[o] = captured[o]
      BY <1>2, <2>1 DEF RefundedWithinCaptured
    <2>2. ASSUME NEW w \in Worker, CreateInsert(w)
          PROVE  refunded'[o] <= captured'[o]
      <3>1. PICK n \in Order :
              /\ ~Exists(n)
              /\ captured' = [captured EXCEPT ![n] =
                                IF req[w].draft.paid THEN req[w].draft.total ELSE 0]
        BY <1>2, <2>2, InsertEffect, Zenon
      <3>2. refunded' = refunded /\ refunded[n] = 0
        BY <1>2, <2>2, <3>1 DEF CreateInsert, AbsentIsBlank
      <3> QED BY <1>2, <3>1, <3>2 DEF RefundedWithinCaptured, TypeOK
    <2>3. ASSUME NEW w \in Worker, PayInsert(w)
          PROVE  refunded'[o] <= captured'[o]
      <3>1. req[w].pc = "payInsert" /\ req[w] \in Request
        BY <1>2, <2>3 DEF PayInsert, At, TypeOK
      <3>2. req[w].order \in Order /\ req[w].amount \in Nat
        BY <3>1, RequestShapes, OrdersAssumption DEF TenderRequest
      <3>3. /\ captured' = [captured EXCEPT ![req[w].order] = captured[req[w].order] + req[w].amount]
            /\ refunded' = refunded
        BY <2>3 DEF PayInsert
      <3> QED BY <1>2, <3>2, <3>3 DEF RefundedWithinCaptured, TypeOK
    <2>4. ASSUME NEW w \in Worker, RefundInsert(w)
          PROVE  refunded'[o] <= captured'[o]
      <3>1. /\ refunded' = [refunded EXCEPT ![req[w].order] = refunded[req[w].order] + req[w].amount]
            /\ captured' = captured
            /\ refunded[req[w].order] + req[w].amount <= captured[req[w].order]
        BY <1>2, <2>4 DEF RefundInsert, At, SerialInv, ReadsAreFresh
      <3> QED BY <1>2, <3>1 DEF RefundedWithinCaptured, TypeOK
    <2>5. CASE UNCHANGED tables \/ UNCHANGED vars
      BY <2>1, <2>5 DEF tables, vars, money
    <2>6. ASSUME NEW w \in Worker, StatusWrite(w)
          PROVE  refunded'[o] <= captured'[o]
      BY <2>1, <2>6 DEF StatusWrite, money
    <2> QED BY <1>2, <2>2, <2>3, <2>4, <2>5, <2>6, TableWriters
  <1> QED BY <1>1, <1>2, Typing, BlankUntilInserted, RequestsStandOnRows, Serially, PTL DEF Spec

=============================================================================
