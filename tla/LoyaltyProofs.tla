--------------------------- MODULE LoyaltyProofs ---------------------------
(***************************************************************************)
(* Theorems about Loyalty, for every set of customers, orders, workers,    *)
(* keys, amounts and configurations, and every bound.                      *)
(***************************************************************************)
EXTENDS Loyalty, TLAPS

\* What a request that has begun may be.
LEMMA RequestShapes ==
  ASSUME NEW r \in Request
  PROVE  /\ r.pc \in {"number", "insert"} => r \in SaleRequest
         /\ r.pc \in {"lock", "balance"}
              => r \in CounterRequest \cup SaleRequest
         /\ r.pc = "read" =>
              r \in EntryRequest("EARN", Nat)
                      \cup EntryRequest("REFUND_REVERSAL", NonPositive)
                      \cup EntryRequest("REDEEM_REVERSAL", Nat)
         /\ r # Idle =>
              r \in CounterRequest \cup SaleRequest
                      \cup EntryRequest("EARN", Nat)
                      \cup EntryRequest("REFUND_REVERSAL", NonPositive)
                      \cup EntryRequest("REDEEM_REVERSAL", Nat)
         /\ r.pc = "idle" <=> r = Idle
  BY DEF Request, Idle, CounterRequest, SaleRequest, EntryRequest

\* The fields of a request that has begun.
LEMMA RequestFields ==
  ASSUME NEW r \in Request, r # Idle
  PROVE  /\ r.customer \in Customer
         /\ r.order \in Order \cup {NoOrder}
         /\ r.key \in MaybeKey
         /\ r.points \in Int
         /\ r.op \in Operation
         /\ r.op \notin {"redeem", "adjust"} => r.order \in Order
         /\ r.order # NoOrder => r.key = NoKey
         /\ r.op \in {"redeem", "adjust"} => r.order = NoOrder
         /\ r.op \in {"EARN", "REDEEM_REVERSAL"} => r.points \in Nat
         /\ r.op \in {"sale", "REFUND_REVERSAL"} => r.points \in NonPositive
  BY LoyaltyAssumption
  DEF Request, CounterRequest, SaleRequest, EntryRequest, Operation, MaybeKey,
      NonPositive

\* A request that goes on stays a request.
LEMMA RequestMoves ==
  ASSUME NEW r \in Request
  PROVE  /\ r.pc = "number" =>
              \A n \in Nat : [r EXCEPT !.pc = "insert", !.number = n] \in Request
         /\ r.pc = "insert" =>
              /\ [r EXCEPT !.pc = "foreign"] \in Request
              /\ \A n \in 0 .. MaxAttempts :
                   [r EXCEPT !.pc = "number", !.attempt = n] \in Request
         /\ r.pc = "foreign" =>
              /\ [r EXCEPT !.pc = "commit"] \in Request
              /\ r.op = "sale" => [r EXCEPT !.pc = "lock"] \in Request
         /\ r.pc = "lock" => [r EXCEPT !.pc = "balance"] \in Request
         /\ r.pc = "balance" => [r EXCEPT !.pc = "tie"] \in Request
         /\ r.pc = "tie" =>
              /\ [r EXCEPT !.pc = "commit"] \in Request
              /\ [r EXCEPT !.pc = "foreign"] \in Request
  <1>1. CASE r = Idle
    BY <1>1 DEF Idle
  <1>2. CASE r \in CounterRequest
    BY <1>2 DEF Request, CounterRequest
  <1>3. CASE r \in SaleRequest
    BY <1>3 DEF Request, SaleRequest
  <1>4. ASSUME NEW type \in {"EARN", "REFUND_REVERSAL", "REDEEM_REVERSAL"},
               NEW amounts, r \in EntryRequest(type, amounts),
               EntryRequest(type, amounts) \subseteq Request
        PROVE  /\ r.pc \in {"foreign", "tie"} =>
                    [r EXCEPT !.pc = "commit"] \in Request
               /\ r.pc = "tie" => [r EXCEPT !.pc = "foreign"] \in Request
               /\ r.pc \notin {"number", "insert", "lock", "balance"}
               /\ r.op # "sale"
    <2>1. /\ [r EXCEPT !.pc = "commit"] \in EntryRequest(type, amounts)
          /\ [r EXCEPT !.pc = "foreign"] \in EntryRequest(type, amounts)
      BY <1>4 DEF EntryRequest
    <2>2. QED
      BY <1>4, <2>1 DEF EntryRequest
  <1>5. /\ EntryRequest("EARN", Nat) \subseteq Request
        /\ EntryRequest("REFUND_REVERSAL", NonPositive) \subseteq Request
        /\ EntryRequest("REDEEM_REVERSAL", Nat) \subseteq Request
    BY DEF Request
  <1>6. QED
    BY <1>1, <1>2, <1>3, <1>4, <1>5, RequestShapes

\* What an insert puts into a unique index is an index entry.
LEMMA WantedEntries ==
  ASSUME TypeOK, NEW w \in Worker
  PROVE  Wanted(w) \subseteq IndexEntry
  <1>1. req[w] \in Request
    BY DEF TypeOK
  <1>2. CASE At(w, "insert")
    <2>1. req[w].number \in Nat
      BY <1>1, <1>2, RequestShapes DEF At, SaleRequest
    <2>2. QED
      BY <1>2, <2>1 DEF Wanted, At, NumberEntry, IndexEntry
  <1>3. CASE At(w, "tie") /\ req[w].order # NoOrder
    <2>1. req[w] # Idle /\ ~At(w, "insert")
      BY <1>3 DEF Idle, At
    <2>2. req[w].order \in Order /\ TypeOf(req[w].op) \in EntryType
      BY <1>1, <1>3, <2>1, RequestFields DEF TypeOf, EntryType, Operation
    <2>3. Wanted(w) = {TieEntry(req[w].order, TypeOf(req[w].op))}
      <3>1. req[w].key = NoKey
        BY <1>1, <1>3, <2>1, RequestFields
      <3>2. QED
        BY <1>3, <2>1, <3>1 DEF Wanted, At
    <2>4. QED
      BY <2>2, <2>3 DEF TieEntry, IndexEntry
  <1>4. CASE ~At(w, "insert") /\ ~(At(w, "tie") /\ req[w].order # NoOrder)
    <2>1. CASE At(w, "tie") /\ req[w].key # NoKey
      <3>1. req[w].key \in Key
        BY <1>1, <2>1, RequestFields DEF Idle, At, MaybeKey
      <3>2. Wanted(w) = {KeyEntry(req[w].key)}
        BY <1>4, <2>1 DEF Wanted, At
      <3>3. QED
        BY <3>1, <3>2 DEF KeyEntry, IndexEntry
    <2>2. CASE ~(At(w, "tie") /\ req[w].key # NoKey)
      BY <1>4, <2>2 DEF Wanted, At
    <2>3. QED
      BY <2>1, <2>2
  <1>5. QED
    BY <1>2, <1>3, <1>4

\* Ending a request keeps every type: nothing is left but fewer locks.
LEMMA EndKeepsTypes ==
  ASSUME TypeOK, NEW w \in Worker, Release(w)
  PROVE  /\ claim' \in [Worker -> SUBSET IndexEntry]
         /\ locker' \in [Customer -> Worker \cup {Nobody}]
         /\ sharers' \in [Customer -> SUBSET Worker]
  BY DEF TypeOK, Release

\* The inductive invariant behind the types.
Sound == TypeOK /\ SignsAreRight /\ RowsAreOwned

LockTypes ==
  /\ claim \in [Worker -> SUBSET IndexEntry]
  /\ locker \in [Customer -> Worker \cup {Nobody}]
  /\ sharers \in [Customer -> SUBSET Worker]

\* A statement that commits nothing turns one request into another.
LEMMA Proceeds ==
  ASSUME Sound, UNCHANGED <<tables, rate>>, LockTypes', sent' \in 0 .. MaxRequests,
         NEW w \in Worker, NEW r \in Request, req' = [req EXCEPT ![w] = r],
         \/ r = Idle
         \/ req[w] # Idle /\ r.op = req[w].op /\ r.order = req[w].order
         \/ r.op \notin EntryType
         \/ owner[r.order] # Nobody
  PROVE  Sound'
  <1>1. \A v \in Worker : req'[v] = IF v = w THEN r ELSE req[v]
    BY DEF Sound, TypeOK
  <1>2. TypeOK'
    BY DEF Sound, TypeOK, tables, LockTypes
  <1>3. SignsAreRight'
    BY DEF Sound, SignsAreRight, tables
  <1>4. RowsAreOwned'
    BY <1>1 DEF Sound, RowsAreOwned, tables
  <1>5. QED
    BY <1>2, <1>3, <1>4 DEF Sound

\* A request that arrives.
LEMMA Arrivals ==
  ASSUME Sound, NEW w \in Worker,
         NEW pc, NEW op, NEW c, NEW o, NEW p, NEW k,
         Take(w, pc, op, c, o, p, k), op \notin EntryType \/ owner[o] # Nobody,
         [pc |-> pc, op |-> op, customer |-> c, order |-> o, points |-> p,
          key |-> k, number |-> 0, attempt |-> 0] \in Request
  PROVE  Sound'
  <1> DEFINE r == [pc |-> pc, op |-> op, customer |-> c, order |-> o,
                   points |-> p, key |-> k, number |-> 0, attempt |-> 0]
  <1>1. /\ req' = [req EXCEPT ![w] = r] /\ r \in Request
        /\ r.op = op /\ r.order = o
        /\ UNCHANGED <<tables, rate>>
    BY DEF Take
  <1>2. LockTypes' /\ sent' \in 0 .. MaxRequests
    BY LoyaltyAssumption DEF Take, Sound, TypeOK, LockTypes, locks
  <1> HIDE DEF r
  <1>3. QED
    BY <1>1, <1>2, Proceeds

\* A row commits with the sign its type has.
LEMMA CommitBooks ==
  ASSUME TypeOK, SignsAreRight, NEW w \in Worker, Commit(w)
  PROVE  /\ clawed' \in [Customer -> Nat]
         /\ booked' \in [Order -> [EntryType -> Int]]
         /\ SignsAreRight'
  <1> DEFINE r == req[w]
  <1>1. r \in Request /\ r # Idle
    BY DEF TypeOK, Commit, At, Idle
  <1>2. /\ r.customer \in Customer /\ r.points \in Int /\ r.op \in Operation
        /\ r.op \notin {"redeem", "adjust"} => r.order \in Order
        /\ r.op \in {"redeem", "adjust"} => r.order = NoOrder
    BY <1>1, RequestFields
  <1>3. clawed' \in [Customer -> Nat]
    <2>1. CASE r.op = "REFUND_REVERSAL"
      <3>1. r.points \in NonPositive
        BY <1>1, <2>1, RequestFields
      <3>2. clawed[r.customer] - r.points \in Nat
        BY <1>2, <3>1 DEF TypeOK, NonPositive
      <3>3. clawed' = [clawed EXCEPT ![r.customer] = clawed[r.customer] - r.points]
        BY <2>1 DEF Commit
      <3>4. QED
        BY <1>2, <3>2, <3>3 DEF TypeOK
    <2>2. CASE r.op # "REFUND_REVERSAL"
      BY <2>2 DEF Commit, TypeOK
    <2>3. QED
      BY <2>1, <2>2
  <1>4. CASE r.order = NoOrder
    BY <1>3, <1>4 DEF Commit, TypeOK, SignsAreRight
  <1>5. CASE r.order # NoOrder
    <2> DEFINE t == TypeOf(r.op)
    <2>1. r.order \in Order /\ t \in EntryType
      BY <1>2, <1>5 DEF TypeOf, EntryType, Operation
    <2>2. booked' = [booked EXCEPT ![r.order] =
                       [booked[r.order] EXCEPT ![t] = booked[r.order][t] + r.points]]
      BY <1>5 DEF Commit
    <2>3. booked[r.order] \in [EntryType -> Int] /\ booked[r.order][t] + r.points \in Int
      BY <1>2, <2>1 DEF TypeOK
    <2>4. booked' \in [Order -> [EntryType -> Int]]
      BY <2>1, <2>2, <2>3 DEF TypeOK
    <2>5. \A o \in Order, s \in EntryType :
            booked'[o][s] = IF o = r.order /\ s = t
                              THEN booked[o][s] + r.points ELSE booked[o][s]
      BY <2>1, <2>2, <2>3 DEF TypeOK
    <2>6. /\ t = "EARN" => r.points \in Nat
          /\ t = "REDEEM" => r.points \in NonPositive
      BY <1>1, <1>2, RequestFields DEF TypeOf, Operation
    <2>7. ASSUME NEW o \in Order
          PROVE  booked'[o]["EARN"] >= 0 /\ booked'[o]["REDEEM"] <= 0
      <3>1. /\ booked[o]["EARN"] \in Int /\ booked[o]["EARN"] >= 0
            /\ booked[o]["REDEEM"] \in Int /\ booked[o]["REDEEM"] <= 0
        BY DEF TypeOK, SignsAreRight, EntryType
      <3>2. booked'[o]["EARN"] >= 0
        BY <2>5, <2>6, <3>1 DEF EntryType
      <3>3. booked'[o]["REDEEM"] <= 0
        BY <2>5, <2>6, <3>1 DEF EntryType, NonPositive
      <3>4. QED
        BY <3>2, <3>3
    <2>8. QED
      BY <1>3, <2>4, <2>7 DEF SignsAreRight
  <1>6. QED
    BY <1>4, <1>5

\* Every value a variable takes is one its table, lock or request can hold;
\* and what a sale earned and spent has the sign of its type
\* (loyalty_ledger_points_sign), without which a reversal could credit.
THEOREM Soundness == Spec => []Sound
  <1>1. Init => Sound
    BY LoyaltyAssumption
    DEF Init, Sound, TypeOK, SignsAreRight, RowsAreOwned, Request, EntryType
  <1>2. ASSUME Sound, [Next]_vars
        PROVE  Sound'
    <2> USE LoyaltyAssumption, Sound
    <2>0. TypeOK /\ SignsAreRight /\ RowsAreOwned
      BY DEF Sound
    <2>1. ASSUME NEW w \in Worker, NEW c \in Customer, NEW a \in Amount,
                 NEW k \in MaybeKey,
                 Redeem(w, c, a, k) \/ Adjust(w, c, a, k) \/ Adjust(w, c, -a, k)
          PROVE  Sound'
      <3>1. a \in Int /\ -a \in Int
        OBVIOUS
      <3>2. \A op \in {"redeem", "adjust"}, p \in Int :
              [pc |-> "lock", op |-> op, customer |-> c, order |-> NoOrder,
               points |-> p, key |-> k, number |-> 0, attempt |-> 0] \in Request
        BY DEF Request, CounterRequest
      <3>3. "redeem" \notin EntryType /\ "adjust" \notin EntryType
        BY DEF EntryType
      <3>4. QED
        BY <2>1, <3>1, <3>2, <3>3, Arrivals DEF Redeem, Adjust
    <2>2. ASSUME NEW w \in Worker, NEW c \in Customer, NEW o \in Order,
                 NEW a \in Amount \cup {0}, Sale(w, c, o, a)
          PROVE  Sound'
      <3>1. [pc |-> "number", op |-> "sale", customer |-> c, order |-> o,
             points |-> -a, key |-> NoKey, number |-> 0, attempt |-> 0]
              \in Request
        BY DEF Request, SaleRequest, NonPositive
      <3>2. "sale" \notin EntryType
        BY DEF EntryType
      <3>3. QED
        BY <2>2, <3>1, <3>2, Arrivals DEF Sale
    <2>3. ASSUME NEW w \in Worker, NEW o \in Order,
                 Earn(w, o) \/ Reverse(w, o) \/ Restore(w, o)
          PROVE  Sound'
      <3>1. ASSUME NEW type \in {"EARN", "REFUND_REVERSAL", "REDEEM_REVERSAL"},
                   NEW amounts, NEW p \in amounts,
                   EntryRequest(type, amounts) \subseteq Request,
                   owner[o] \in Customer
            PROVE  [pc |-> "read", op |-> type, customer |-> owner[o],
                    order |-> o, points |-> p, key |-> NoKey, number |-> 0,
                    attempt |-> 0] \in Request
        BY <3>1 DEF EntryRequest, MaybeKey
      <3>2. /\ EntryRequest("EARN", Nat) \subseteq Request
            /\ EntryRequest("REFUND_REVERSAL", NonPositive) \subseteq Request
            /\ EntryRequest("REDEEM_REVERSAL", Nat) \subseteq Request
        BY DEF Request
      <3>3. /\ booked[o]["EARN"] \in Int /\ booked[o]["EARN"] >= 0
            /\ booked[o]["REDEEM"] \in Int /\ booked[o]["REDEEM"] <= 0
        BY <2>0 DEF TypeOK, SignsAreRight, EntryType
      <3>4. -Earned(o) \in NonPositive /\ -booked[o]["REDEEM"] \in Nat
        BY <3>3 DEF Earned, NonPositive
      <3>5. owner[o] # Nobody /\ owner[o] \in Customer
        BY <2>0, <2>3 DEF Earn, Reverse, Restore, Earned, TypeOK, RowsAreOwned
      <3>6. CASE Earn(w, o)
        BY <3>6, <3>1, <3>2, <3>5, Arrivals DEF Earn
      <3>7. CASE Reverse(w, o)
        BY <3>7, <3>1, <3>2, <3>4, <3>5, Arrivals DEF Reverse
      <3>8. CASE Restore(w, o)
        BY <3>8, <3>1, <3>2, <3>4, <3>5, Arrivals DEF Restore
      <3>9. QED
        BY <2>3, <3>6, <3>7, <3>8
    <2>4. ASSUME NEW w \in Worker, End(w)
          PROVE  Sound'
      <3>1. Idle \in Request
        BY DEF Request
      <3>2. LockTypes' /\ sent' \in 0 .. MaxRequests
        BY <2>0, <2>4, EndKeepsTypes DEF End, LockTypes, TypeOK
      <3>3. QED
        BY <2>4, <3>1, <3>2, Proceeds DEF End
    <2>5. ASSUME NEW w \in Worker, SaleNumber(w)
          PROVE  Sound'
      <3>1. PICK n \in 1 .. MaxRequests :
              req' = [req EXCEPT ![w] =
                        [req[w] EXCEPT !.pc = "insert", !.number = n]]
        BY <2>5 DEF SaleNumber
      <3> DEFINE r == [req[w] EXCEPT !.pc = "insert", !.number = n]
      <3>2. req[w] \in SaleRequest /\ req[w] # Idle /\ n \in Nat
        BY <2>0, <2>5, RequestShapes DEF TypeOK, SaleNumber, At, Idle
      <3>3. r \in Request
        BY <3>2 DEF SaleRequest, Request
      <3>4. r.op = req[w].op /\ r.order = req[w].order
        BY <3>2 DEF SaleRequest
      <3>5. LockTypes' /\ sent' \in 0 .. MaxRequests /\ UNCHANGED <<tables, rate>>
        BY <2>0, <2>5 DEF SaleNumber, LockTypes, TypeOK, locks
      <3> HIDE DEF r
      <3>6. QED
        BY <3>1, <3>2, <3>3, <3>4, <3>5, Proceeds DEF r
    <2>6. ASSUME NEW w \in Worker,
                 SaleInsert(w) \/ Foreign(w) \/ Lock(w) \/ Balance(w) \/ Append(w)
          PROVE  Sound'
      <3>1. req[w] \in Request /\ req[w] # Idle
        BY <2>0, <2>6
        DEF TypeOK, SaleInsert, Foreign, Lock, Balance, Append, At, Idle
      <3>2. req[w].customer \in Customer
        BY <3>1, RequestFields
      <3>3. PICK pc \in {"foreign", "lock", "balance", "tie", "commit"} :
              /\ [req[w] EXCEPT !.pc = pc] \in Request
              /\ req' = [req EXCEPT ![w] = [req[w] EXCEPT !.pc = pc]]
        <4>1. CASE SaleInsert(w)
          BY <4>1, <3>1, RequestMoves DEF SaleInsert, At, GoTo
        <4>2. CASE Foreign(w)
          BY <4>2, <3>1, RequestMoves DEF Foreign, At, GoTo
        <4>3. CASE Lock(w)
          BY <4>3, <3>1, RequestMoves DEF Lock, At, GoTo
        <4>4. CASE Balance(w)
          BY <4>4, <3>1, RequestMoves DEF Balance, At, GoTo
        <4>5. CASE Append(w)
          BY <4>5, <3>1, RequestMoves DEF Append, At, GoTo
        <4>6. QED
          BY <2>6, <4>1, <4>2, <4>3, <4>4, <4>5
      <3> DEFINE r == [req[w] EXCEPT !.pc = pc]
      <3>4. r.op = req[w].op /\ r.order = req[w].order
        BY <3>1 DEF Request, Idle, CounterRequest, SaleRequest, EntryRequest
      <3>5. LockTypes'
        <4>1. CASE SaleInsert(w)
          BY <4>1, <2>0, WantedEntries DEF SaleInsert, LockTypes, TypeOK
        <4>2. CASE Foreign(w)
          BY <4>2, <2>0, <3>2 DEF Foreign, LockTypes, TypeOK
        <4>3. CASE Lock(w)
          BY <4>3, <2>0, <3>2 DEF Lock, LockTypes, TypeOK
        <4>4. CASE Balance(w)
          BY <4>4, <2>0 DEF Balance, LockTypes, TypeOK, locks
        <4>5. CASE Append(w)
          BY <4>5, <2>0, WantedEntries DEF Append, LockTypes, TypeOK
        <4>6. QED
          BY <2>6, <4>1, <4>2, <4>3, <4>4, <4>5
      <3>6. sent' \in 0 .. MaxRequests /\ UNCHANGED <<tables, rate>>
        BY <2>0, <2>6
        DEF SaleInsert, Foreign, Lock, Balance, Append, GoTo, TypeOK
      <3> HIDE DEF r
      <3>7. QED
        BY <3>1, <3>3, <3>4, <3>5, <3>6, Proceeds DEF r
    <2>7. ASSUME NEW w \in Worker, SaleRetry(w)
          PROVE  Sound'
      <3>1. req[w] \in SaleRequest /\ req[w] # Idle
        BY <2>0, <2>7, RequestShapes DEF TypeOK, SaleRetry, At, Idle
      <3>2. LockTypes' /\ sent' \in 0 .. MaxRequests /\ UNCHANGED <<tables, rate>>
        BY <2>0, <2>7, EndKeepsTypes DEF SaleRetry, LockTypes, TypeOK
      <3>3. CASE req[w].attempt + 1 < MaxAttempts
        <4> DEFINE n == req[w].attempt + 1
                   r == [req[w] EXCEPT !.pc = "number", !.attempt = n]
        <4>1. n \in 0 .. MaxAttempts
          BY <3>1, <3>3 DEF SaleRequest
        <4>2. req' = [req EXCEPT ![w] = r]
          BY <2>7, <3>3 DEF SaleRetry
        <4> HIDE DEF n
        <4>3. r \in Request /\ r.op = req[w].op /\ r.order = req[w].order
          BY <3>1, <4>1 DEF SaleRequest, Request
        <4> HIDE DEF r
        <4>4. QED
          BY <3>1, <3>2, <4>2, <4>3, Proceeds
      <3>4. CASE ~(req[w].attempt + 1 < MaxAttempts)
        <4>1. req' = [req EXCEPT ![w] = Idle] /\ Idle \in Request
          BY <2>7, <3>4 DEF SaleRetry, Request
        <4>2. QED
          BY <3>2, <4>1, Proceeds
      <3>5. QED
        BY <3>3, <3>4
    <2>8. ASSUME NEW w \in Worker, Read(w)
          PROVE  Sound'
      <3> DEFINE entry == req[w]
                 p == Priced(entry)
                 r == [entry EXCEPT !.pc = "tie", !.points = p]
      <3>1. entry \in EntryRequest("EARN", Nat)
                        \cup EntryRequest("REFUND_REVERSAL", NonPositive)
                        \cup EntryRequest("REDEEM_REVERSAL", Nat)
        BY <2>0, <2>8, RequestShapes DEF Read, At, TypeOK
      <3>2. entry # Idle
        BY <2>8 DEF Read, At, Idle
      <3>3. /\ p \in Int
            /\ entry.op = "EARN" => p \in Nat
            /\ entry.op = "REFUND_REVERSAL" => p \in NonPositive
            /\ entry.op = "REDEEM_REVERSAL" => p \in Nat
        BY <2>0, <3>1 DEF Priced, EntryRequest, TypeOK, NonPositive
      <3>4. CASE End(w)
        BY <3>4, <2>4
      <3>5. CASE ~End(w)
        <4>1. req' = [req EXCEPT ![w] = r]
          BY <2>8, <3>5 DEF Read
        <4>2. LockTypes' /\ sent' \in 0 .. MaxRequests /\ UNCHANGED <<tables, rate>>
          BY <2>0, <2>8, <3>5 DEF Read, LockTypes, TypeOK, locks
        <4> HIDE DEF p
        <4>3. r \in Request
          <5>1. CASE entry \in EntryRequest("EARN", Nat)
            BY <5>1, <3>3 DEF EntryRequest, Request
          <5>2. CASE entry \in EntryRequest("REFUND_REVERSAL", NonPositive)
            BY <5>2, <3>3 DEF EntryRequest, Request
          <5>3. CASE entry \in EntryRequest("REDEEM_REVERSAL", Nat)
            BY <5>3, <3>3 DEF EntryRequest, Request
          <5>4. QED
            BY <3>1, <5>1, <5>2, <5>3
        <4>4. r.op = entry.op /\ r.order = entry.order
          BY <3>1 DEF EntryRequest
        <4> HIDE DEF r
        <4>5. QED
          BY <3>2, <4>1, <4>2, <4>3, <4>4, Proceeds
      <3>6. QED
        BY <3>4, <3>5
    <2>9. ASSUME NEW w \in Worker, Commit(w)
          PROVE  Sound'
      <3> DEFINE r == req[w]
      <3>1. r \in Request /\ r # Idle /\ Idle \in Request
        BY <2>0, <2>9 DEF TypeOK, Commit, At, Idle, Request
      <3>2. /\ r.customer \in Customer /\ r.points \in Int /\ r.key \in MaybeKey
            /\ r.op \in Operation
            /\ r.op \notin {"redeem", "adjust"} => r.order \in Order
            /\ r.op \in {"redeem", "adjust"} => r.order = NoOrder
        BY <3>1, RequestFields
      <3>3. /\ clawed' \in [Customer -> Nat]
            /\ booked' \in [Order -> [EntryType -> Int]]
            /\ SignsAreRight'
        BY <2>0, <2>9, CommitBooks
      <3>4. balance' \in [Customer -> Int]
        <4>1. balance[r.customer] + r.points \in Int
          BY <2>0, <3>2 DEF TypeOK
        <4>2. balance' = [balance EXCEPT ![r.customer] = balance[r.customer] + r.points]
          BY <2>9 DEF Commit
        <4>3. QED
          BY <2>0, <4>1, <4>2 DEF TypeOK
      <3>5. owner' \in [Order -> Customer \cup {Nobody}]
        BY <2>0, <2>9, <3>2 DEF Commit, TypeOK
      <3>6. applied' \in [Key -> Nat]
        <4>1. CASE r.key = NoKey
          BY <2>0, <2>9, <4>1 DEF Commit, TypeOK
        <4>2. CASE r.key # NoKey
          <5>1. r.key \in Key /\ applied[r.key] + 1 \in Nat
            BY <2>0, <3>2, <4>2 DEF MaybeKey, TypeOK
          <5>2. applied' = [applied EXCEPT ![r.key] = applied[r.key] + 1]
            BY <2>9, <4>2 DEF Commit
          <5>3. QED
            BY <2>0, <5>1, <5>2 DEF TypeOK
        <4>3. QED
          BY <4>1, <4>2
      <3>7. index' \subseteq IndexEntry
        BY <2>0, <2>9 DEF Commit, TypeOK
      <3>8. LockTypes'
        BY <2>0, <2>9, EndKeepsTypes DEF Commit, LockTypes
      <3>9. /\ req' \in [Worker -> Request] /\ rate' = rate /\ sent' = sent
            /\ \A v \in Worker : req'[v] = IF v = w THEN Idle ELSE req[v]
        BY <2>0, <2>9, <3>1 DEF Commit, TypeOK
      <3>10. TypeOK'
        BY <2>0, <3>3, <3>4, <3>5, <3>6, <3>7, <3>8, <3>9 DEF TypeOK, LockTypes
      <3>11. \A o \in Order : owner[o] # Nobody => owner'[o] # Nobody
        <4>1. Nobody \notin Customer
          OBVIOUS
        <4>2. QED
          BY <2>0, <2>9, <3>2, <4>1 DEF Commit, TypeOK
      <3>12. \A o \in Order : o # r.order => booked'[o] = booked[o]
        BY <2>0, <2>9 DEF Commit, TypeOK
      <3>13. r.order \in Order => owner'[r.order] # Nobody
        <4>1. CASE r.op = "sale"
          <5>1. owner'[r.order] = r.customer
            BY <2>0, <2>9, <3>2, <4>1 DEF Commit, TypeOK
          <5>2. QED
            BY <3>2, <5>1
        <4>2. CASE r.op \in EntryType
          BY <2>0, <3>1, <3>2, <3>11, <4>2 DEF RowsAreOwned, EntryType
        <4>3. CASE r.op \in {"redeem", "adjust"}
          BY <3>2, <4>3
        <4>4. QED
          BY <3>2, <4>1, <4>2, <4>3 DEF Operation, EntryType
      <3>14. RowsAreOwned'
        <4>1. \A o \in Order : owner'[o] = Nobody =>
                booked'[o]["EARN"] = 0 /\ booked'[o]["REDEEM"] = 0
          BY <2>0, <3>11, <3>12, <3>13 DEF RowsAreOwned
        <4>2. ASSUME NEW v \in Worker, req[v] # Idle, req[v].op \in EntryType
              PROVE  owner'[req[v].order] # Nobody
          <5>1. req[v].order \in Order
            BY <2>0, <4>2, RequestFields DEF TypeOK, EntryType
          <5>2. QED
            BY <2>0, <3>11, <4>2, <5>1 DEF RowsAreOwned
        <4>3. QED
          BY <3>9, <4>1, <4>2 DEF RowsAreOwned
      <3>15. QED
        BY <3>3, <3>10, <3>14 DEF Sound
    <2>10. CASE UpdateSettings
      <3>1. TypeOK'
        BY <2>0, <2>10 DEF UpdateSettings, tables, locks, TypeOK
      <3>2. SignsAreRight' /\ RowsAreOwned'
        BY <2>0, <2>10 DEF UpdateSettings, tables, SignsAreRight, RowsAreOwned
      <3>3. QED
        BY <3>1, <3>2 DEF Sound
    <2>11. CASE UNCHANGED vars
      BY <2>0, <2>11 DEF vars, Sound, TypeOK, SignsAreRight, RowsAreOwned
    <2>12. QED
      BY <1>2, <2>1, <2>2, <2>3, <2>4, <2>5, <2>6, <2>7, <2>8, <2>9, <2>10, <2>11
      DEF Next, Arrive, Step, SaleRefused, BalanceRefused, AppendLost, Abort
  <1>3. QED
    BY <1>1, <1>2, PTL DEF Spec

\* Every value a variable takes is one its table, lock or request can hold.
THEOREM Typing == Spec => []TypeOK
  <1>1. Sound => TypeOK
    BY DEF Sound
  <1>2. QED
    BY <1>1, Soundness, PTL

-----------------------------------------------------------------------------
(* A debit is checked and booked under the lock of the customer's row.     *)

\* The inductive invariant of the row locks.
LockInv == LockExcludes /\ LockersHold /\ SharersHold /\ DebitsAreCovered

\* A step that leaves balances alone, takes no row lock, and does not bring its
\* request under one.
LEMMA LocksKept ==
  ASSUME TypeOK, LockInv, balance' = balance,
         NEW w \in Worker, NEW r, req' = [req EXCEPT ![w] = r],
         UNCHANGED <<locker, sharers>> \/ Release(w),
         r.pc \notin {"balance", "commit"},
         r.pc = "tie" => ~Spends(r),
         r.pc = "foreign" => r.op \notin {"redeem", "adjust"}
  PROVE  LockInv'
  <1>1. \A v \in Worker : req'[v] = IF v = w THEN r ELSE req[v]
    BY DEF TypeOK
  <1>2. \A c \in Customer : /\ locker'[c] \in {locker[c], Nobody}
                            /\ locker[c] # w => locker'[c] = locker[c]
                            /\ sharers'[c] \subseteq sharers[c]
                            /\ \A v \in sharers[c] : v # w => v \in sharers'[c]
    BY DEF Release, TypeOK
  <1>3. LockExcludes'
    BY <1>2 DEF LockInv, LockExcludes
  <1>4. \A v \in Worker : v # w /\ req[v] # Idle => req[v].customer \in Customer
    BY RequestFields DEF TypeOK
  <1>5. LockersHold'
    BY <1>1, <1>2, <1>4 DEF LockInv, LockersHold, Spends, At, Idle
  <1>6. SharersHold'
    BY <1>1, <1>2, <1>4 DEF LockInv, SharersHold, At, Idle
  <1>7. DebitsAreCovered'
    BY <1>1 DEF LockInv, DebitsAreCovered, Spends, Covered
  <1>8. QED
    BY <1>3, <1>5, <1>6, <1>7 DEF LockInv

\* Every step keeps the row locks exclusive, held by those who rely on them, and debits covered.
LEMMA LockInvInductive ==
  ASSUME Sound, LockInv, [Next]_vars
  PROVE  LockInv'
  <1> USE LoyaltyAssumption
  <1>0. /\ TypeOK
        /\ \A v \in Worker : req[v] \in Request
        /\ \A v \in Worker : req[v] # Idle => req[v].customer \in Customer
    BY RequestFields DEF Sound, TypeOK
  <1>1. ASSUME NEW w \in Worker, End(w)
        PROVE  LockInv'
    BY <1>0, <1>1, LocksKept DEF End, Idle, tables
  <1>2. ASSUME NEW w \in Worker, Arrive(w)
        PROVE  LockInv'
    <2>1. PICK pc \in {"lock", "number", "read"} :
            \E op, c, o, p, k : Take(w, pc, op, c, o, p, k)
      BY <1>2, Zenon DEF Arrive, Redeem, Adjust, Sale, Earn, Reverse, Restore
    <2> PICK op, c, o, p, k : Take(w, pc, op, c, o, p, k)
      BY <2>1, Zenon
    <2> DEFINE r == [pc |-> pc, op |-> op, customer |-> c, order |-> o,
                     points |-> p, key |-> k, number |-> 0, attempt |-> 0]
    <2>2. /\ req' = [req EXCEPT ![w] = r]
          /\ balance' = balance /\ UNCHANGED <<locker, sharers>>
          /\ r.pc \in {"lock", "number", "read"}
      BY <2>1 DEF Take, tables, locks
    <2> HIDE DEF r
    <2>3. QED
      BY <1>0, <2>2, LocksKept
  <1>3. ASSUME NEW w \in Worker, SaleNumber(w) \/ SaleInsert(w)
        PROVE  LockInv'
    <2>1. req[w] \in SaleRequest
      BY <1>0, <1>3, RequestShapes DEF SaleNumber, SaleInsert, At
    <2>2. CASE SaleNumber(w)
      <3>1. PICK n \in 1 .. MaxRequests :
              req' = [req EXCEPT ![w] =
                        [req[w] EXCEPT !.pc = "insert", !.number = n]]
        BY <2>2 DEF SaleNumber
      <3> DEFINE r == [req[w] EXCEPT !.pc = "insert", !.number = n]
      <3>2. r.pc = "insert" /\ balance' = balance /\ UNCHANGED <<locker, sharers>>
        BY <2>1, <2>2 DEF SaleNumber, SaleRequest, tables, locks
      <3> HIDE DEF r
      <3>3. QED
        BY <1>0, <3>1, <3>2, LocksKept DEF r
    <2>3. CASE SaleInsert(w)
      <3> DEFINE r == [req[w] EXCEPT !.pc = "foreign"]
      <3>1. /\ req' = [req EXCEPT ![w] = r]
            /\ balance' = balance /\ UNCHANGED <<locker, sharers>>
        BY <2>3 DEF SaleInsert, GoTo, tables
      <3>2. r.pc = "foreign" /\ r.op = "sale"
        BY <2>1 DEF SaleRequest
      <3> HIDE DEF r
      <3>3. QED
        BY <1>0, <3>1, <3>2, LocksKept
    <2>4. QED
      BY <1>3, <2>2, <2>3
  <1>4. ASSUME NEW w \in Worker, SaleRetry(w)
        PROVE  LockInv'
    <2> DEFINE n == req[w].attempt + 1
               r == IF n < MaxAttempts
                    THEN [req[w] EXCEPT !.pc = "number", !.attempt = n] ELSE Idle
    <2>1. req[w] \in SaleRequest
      BY <1>0, <1>4, RequestShapes DEF SaleRetry, At
    <2>2. /\ req' = [req EXCEPT ![w] = r] /\ balance' = balance /\ Release(w)
      BY <1>4 DEF SaleRetry, tables
    <2> HIDE DEF n
    <2>3. r.pc \in {"number", "idle"}
      BY <2>1 DEF SaleRequest, Idle
    <2> HIDE DEF r
    <2>4. QED
      BY <1>0, <2>2, <2>3, LocksKept
  <1>5. ASSUME NEW w \in Worker, Read(w)
        PROVE  LockInv'
    <2>1. CASE End(w)
      BY <1>1, <2>1
    <2>2. CASE ~End(w)
      <3> DEFINE p == Priced(req[w])
                 r == [req[w] EXCEPT !.pc = "tie", !.points = p]
      <3>1. /\ req' = [req EXCEPT ![w] = r]
            /\ balance' = balance /\ UNCHANGED <<locker, sharers>>
        BY <1>5, <2>2 DEF Read, tables, locks
      <3>2. req[w] \in EntryRequest("EARN", Nat)
                  \cup EntryRequest("REFUND_REVERSAL", NonPositive)
                  \cup EntryRequest("REDEEM_REVERSAL", Nat)
        BY <1>0, <1>5, RequestShapes DEF Read, At
      <3> HIDE DEF p
      <3>3. r.pc = "tie" /\ r.op \in {"EARN", "REFUND_REVERSAL", "REDEEM_REVERSAL"}
        BY <3>2 DEF EntryRequest
      <3> HIDE DEF r
      <3>4. QED
        BY <1>0, <3>1, <3>3, LocksKept DEF Spends
    <2>3. QED
      BY <2>1, <2>2
  <1>6. ASSUME NEW w \in Worker, NEW pc,
               req' = [req EXCEPT ![w] = [req[w] EXCEPT !.pc = pc]],
               req[w] # Idle
        PROVE  /\ \A v \in Worker : v # w => req'[v] = req[v]
               /\ req'[w].pc = pc
               /\ req'[w].op = req[w].op
               /\ req'[w].customer = req[w].customer
               /\ req'[w].points = req[w].points
    <2>1. req'[w] = [req[w] EXCEPT !.pc = pc]
      BY <1>0, <1>6 DEF TypeOK
    <2>2. req[w] \in CounterRequest \cup SaleRequest
                      \cup EntryRequest("EARN", Nat)
                      \cup EntryRequest("REFUND_REVERSAL", NonPositive)
                      \cup EntryRequest("REDEEM_REVERSAL", Nat)
      BY <1>0, <1>6, RequestShapes
    <2>3. QED
      BY <1>0, <1>6, <2>1, <2>2
      DEF TypeOK, CounterRequest, SaleRequest, EntryRequest
  <1>7. ASSUME NEW w \in Worker, Foreign(w)
        PROVE  LockInv'
    <2> DEFINE r == req[w]
               c == r.customer
               pc == IF r.op = "sale" /\ r.points # 0 THEN "lock" ELSE "commit"
    <2>1. r # Idle /\ c \in Customer /\ r.pc = "foreign"
      BY <1>0, <1>7 DEF Foreign, At, Idle
    <2>2. /\ req' = [req EXCEPT ![w] = [r EXCEPT !.pc = pc]]
          /\ sharers' = [sharers EXCEPT ![c] = sharers[c] \cup {w}]
          /\ balance' = balance /\ locker' = locker
      BY <1>7 DEF Foreign, GoTo, tables
    <2> HIDE DEF pc
    <2>3. locker[c] \in {w, Nobody}
      BY <1>0, <1>7, <2>1 DEF Foreign, Blockers, RowOwners, At
    <2>4. /\ \A v \in Worker : v # w => req'[v] = req[v]
          /\ req'[w].pc = pc /\ req'[w].op = r.op
          /\ req'[w].customer = c /\ req'[w].points = r.points
      BY <1>6, <2>1, <2>2
    <2>5. /\ \A d \in Customer : d # c => sharers'[d] = sharers[d]
          /\ sharers'[c] = sharers[c] \cup {w}
          /\ \A d \in Customer : sharers[d] \subseteq sharers'[d]
      BY <1>0, <2>1, <2>2 DEF TypeOK
    <2>6. pc \in {"lock", "commit"} /\ (pc = "commit" => ~Spends(r))
      <3>1. r.op \notin {"redeem", "adjust"}
        BY <2>1 DEF LockInv, LockersHold, At
      <3>2. QED
        BY <3>1 DEF pc, Spends
    <2>7. LockExcludes'
      BY <2>2, <2>3, <2>5 DEF LockInv, LockExcludes
    <2>8. LockersHold'
      BY <2>2, <2>4, <2>6 DEF LockInv, LockersHold, Spends, At
    <2>9. SharersHold'
      BY <1>0, <2>1, <2>2, <2>4, <2>5 DEF LockInv, SharersHold, At, Idle
    <2>10. DebitsAreCovered'
      BY <2>2, <2>4, <2>6 DEF LockInv, DebitsAreCovered, Spends, Covered
    <2>11. QED
      BY <2>7, <2>8, <2>9, <2>10 DEF LockInv
  <1>8. ASSUME NEW w \in Worker, Lock(w)
        PROVE  LockInv'
    <2> DEFINE r == req[w]
               c == r.customer
    <2>1. r # Idle /\ c \in Customer /\ r.pc = "lock"
      BY <1>0, <1>8 DEF Lock, At, Idle
    <2>2. /\ req' = [req EXCEPT ![w] = [r EXCEPT !.pc = "balance"]]
          /\ locker' = [locker EXCEPT ![c] = w]
          /\ balance' = balance /\ sharers' = sharers
      BY <1>8 DEF Lock, GoTo, tables
    <2>3. locker[c] \in {w, Nobody} /\ sharers[c] \subseteq {w}
      <3>1. ({locker[c]} \cup sharers[c]) \ {w, Nobody} = {}
        BY <1>8, <2>1 DEF Lock, Blockers, RowHolders, At
      <3>2. sharers[c] \subseteq Worker
        BY <1>0, <2>1 DEF TypeOK
      <3>3. QED
        BY <3>1, <3>2
    <2>4. /\ \A v \in Worker : v # w => req'[v] = req[v]
          /\ req'[w].pc = "balance" /\ req'[w].customer = c
      BY <1>6, <2>1, <2>2
    <2>5. /\ \A d \in Customer : d # c => locker'[d] = locker[d]
          /\ locker'[c] = w
      BY <1>0, <2>1, <2>2 DEF TypeOK
    <2>6. LockExcludes'
      BY <2>2, <2>3, <2>5 DEF LockInv, LockExcludes
    <2>7. \A v \in Worker : v # w /\ req[v] # Idle /\ locker[req[v].customer] = v
            => locker'[req[v].customer] = v
      BY <1>0, <2>3, <2>5
    <2>8. LockersHold'
      BY <2>4, <2>5, <2>7 DEF LockInv, LockersHold, Spends, At, Idle
    <2>9. SharersHold'
      BY <2>2, <2>4, <2>7 DEF LockInv, SharersHold, At, Idle
    <2>10. DebitsAreCovered'
      BY <2>2, <2>4 DEF LockInv, DebitsAreCovered, Spends, Covered
    <2>11. QED
      BY <2>6, <2>8, <2>9, <2>10 DEF LockInv
  <1>9. ASSUME NEW w \in Worker, Balance(w)
        PROVE  LockInv'
    <2> DEFINE r == req[w]
    <2>1. r # Idle /\ r.pc = "balance" /\ Covered(r)
      BY <1>9 DEF Balance, At, Idle
    <2>2. /\ req' = [req EXCEPT ![w] = [r EXCEPT !.pc = "tie"]]
          /\ balance' = balance /\ UNCHANGED <<locker, sharers>>
      BY <1>9 DEF Balance, GoTo, tables, locks
    <2>3. /\ \A v \in Worker : v # w => req'[v] = req[v]
          /\ req'[w].pc = "tie" /\ req'[w].op = r.op
          /\ req'[w].customer = r.customer /\ req'[w].points = r.points
      BY <1>6, <2>1, <2>2
    <2>4. LockExcludes'
      BY <2>2 DEF LockInv, LockExcludes
    <2>5. LockersHold'
      BY <2>1, <2>2, <2>3 DEF LockInv, LockersHold, Spends, At
    <2>6. SharersHold'
      BY <2>2, <2>3 DEF LockInv, SharersHold, At
    <2>7. DebitsAreCovered'
      BY <2>1, <2>2, <2>3 DEF LockInv, DebitsAreCovered, Spends, Covered
    <2>8. QED
      BY <2>4, <2>5, <2>6, <2>7 DEF LockInv
  <1>10. ASSUME NEW w \in Worker, Append(w)
         PROVE  LockInv'
    <2> DEFINE r == req[w]
               pc == IF locker[r.customer] = w THEN "commit" ELSE "foreign"
    <2>1. r # Idle /\ r.pc = "tie"
      BY <1>10 DEF Append, At, Idle
    <2>2. /\ req' = [req EXCEPT ![w] = [r EXCEPT !.pc = pc]]
          /\ balance' = balance /\ UNCHANGED <<locker, sharers>>
      BY <1>10 DEF Append, GoTo, tables
    <2> HIDE DEF pc
    <2>3. /\ \A v \in Worker : v # w => req'[v] = req[v]
          /\ req'[w].pc = pc /\ req'[w].op = r.op
          /\ req'[w].customer = r.customer /\ req'[w].points = r.points
      BY <1>6, <2>1, <2>2
    <2>4. /\ Spends(r) => locker[r.customer] = w /\ Covered(r)
          /\ pc = "commit" => locker[r.customer] = w
          /\ pc = "foreign" => ~Spends(r)
          /\ pc \in {"commit", "foreign"}
      BY <2>1 DEF pc, LockInv, LockersHold, DebitsAreCovered
    <2>5. LockExcludes'
      BY <2>2 DEF LockInv, LockExcludes
    <2>6. LockersHold'
      BY <2>2, <2>3, <2>4 DEF LockInv, LockersHold, Spends, At
    <2>7. SharersHold'
      BY <2>2, <2>3, <2>4 DEF LockInv, SharersHold, At
    <2>8. DebitsAreCovered'
      BY <2>2, <2>3, <2>4 DEF LockInv, DebitsAreCovered, Spends, Covered
    <2>9. QED
      BY <2>5, <2>6, <2>7, <2>8 DEF LockInv
  <1>11. ASSUME NEW w \in Worker, Commit(w)
         PROVE  LockInv'
    <2> DEFINE r == req[w]
               c == r.customer
    <2>1. r # Idle /\ r.pc = "commit" /\ c \in Customer
      BY <1>0, <1>11 DEF Commit, At, Idle
    <2>2. Release(w) /\ \A v \in Worker : req'[v] = IF v = w THEN Idle ELSE req[v]
      BY <1>0, <1>11 DEF Commit, TypeOK
    <2>3. \A d \in Customer : /\ locker'[d] \in {locker[d], Nobody}
                              /\ locker[d] # w => locker'[d] = locker[d]
                              /\ sharers'[d] \subseteq sharers[d]
                              /\ \A v \in sharers[d] : v # w => v \in sharers'[d]
      BY <1>0, <2>2 DEF Release, TypeOK
    <2>4. LockExcludes'
      BY <2>3 DEF LockInv, LockExcludes
    <2>5. LockersHold'
      BY <1>0, <2>2, <2>3 DEF LockInv, LockersHold, Spends, At, Idle
    <2>6. SharersHold'
      BY <1>0, <2>2, <2>3 DEF LockInv, SharersHold, At, Idle
    <2>7. DebitsAreCovered'
      <3>1. \A d \in Customer : d # c => balance'[d] = balance[d]
        BY <1>0, <1>11 DEF Commit, TypeOK
      <3>2. ASSUME NEW v \in Worker, v # w,
                   req[v].pc \in {"tie", "commit"}, Spends(req[v])
            PROVE  req[v].customer \in Customer /\ req[v].customer # c
        <4>1. req[v].customer \in Customer /\ locker[req[v].customer] = v
          BY <1>0, <3>2 DEF LockInv, LockersHold, Idle
        <4>2. locker[c] = w \/ w \in sharers[c]
          BY <2>1 DEF LockInv, SharersHold, At
        <4>3. v # Nobody
          BY <3>2
        <4>4. QED
          BY <2>1, <3>2, <4>1, <4>2, <4>3 DEF LockInv, LockExcludes
      <3>3. QED
        BY <2>2, <3>1, <3>2 DEF LockInv, DebitsAreCovered, Covered, Idle
    <2>8. QED
      BY <2>4, <2>5, <2>6, <2>7 DEF LockInv
  <1>12. CASE UpdateSettings \/ UNCHANGED vars
    BY <1>12 DEF UpdateSettings, vars, tables, locks, LockInv, LockExcludes,
                 LockersHold, SharersHold, DebitsAreCovered, Spends, Covered, At
  <1>13. QED
    BY <1>1, <1>2, <1>3, <1>4, <1>5, <1>7, <1>8, <1>9, <1>10, <1>11, <1>12
    DEF Next, Step, SaleRefused, BalanceRefused, AppendLost, Abort

\* Only a commit changes a balance, and a commit that debits other than by a
\* reversal was checked against the balance it debits.
LEMMA StepsAreCovered ==
  ASSUME Sound, LockInv, [Next]_vars, NEW c \in Customer,
         balance'[c] < balance[c], clawed'[c] = clawed[c]
  PROVE  balance'[c] >= 0
  <1>1. PICK w \in Worker : Commit(w)
    <2>1. balance' # balance
      <3>1. balance[c] \in Int
        BY DEF Sound, TypeOK
      <3>2. QED
        BY <3>1
    <2>2. ASSUME NEW w \in Worker, Arrive(w)
          PROVE  balance' = balance
      <3>1. PICK pc, op, who, o, p, k : Take(w, pc, op, who, o, p, k)
        BY <2>2, Zenon DEF Arrive, Redeem, Adjust, Sale, Earn, Reverse, Restore
      <3>2. QED
        BY <3>1 DEF Take, tables
    <2>3. ASSUME NEW w \in Worker, Step(w) \/ Abort(w), ~Commit(w)
          PROVE  balance' = balance
      <3>1. End(w) => balance' = balance
        BY DEF End, tables
      <3>2. QED
        BY <2>3, <3>1
        DEF Step, SaleNumber, SaleRefused, SaleInsert, SaleRetry, Foreign, Lock,
            Balance, BalanceRefused, Read, Append, AppendLost, Abort, tables
    <2>4. UpdateSettings \/ UNCHANGED vars => balance' = balance
      BY DEF UpdateSettings, tables, vars
    <2>5. QED
      BY <2>1, <2>2, <2>3, <2>4 DEF Next
  <1> DEFINE r == req[w]
  <1>2. r \in Request /\ r # Idle /\ r.pc = "commit"
    BY <1>1 DEF Sound, TypeOK, Commit, At, Idle
  <1>3. r.customer \in Customer /\ r.points \in Int /\ r.op \in Operation
    BY <1>2, RequestFields
  <1>4. balance' = [balance EXCEPT ![r.customer] = balance[r.customer] + r.points]
    BY <1>1 DEF Commit
  <1>5. balance \in [Customer -> Int] /\ clawed \in [Customer -> Nat]
    BY DEF Sound, TypeOK
  <1>6. r.customer = c /\ r.points < 0 /\ balance'[c] = balance[c] + r.points
    BY <1>3, <1>4, <1>5
  <1>7. r.op # "REFUND_REVERSAL"
    <2>1. SUFFICES ASSUME r.op = "REFUND_REVERSAL"
                   PROVE  FALSE
      OBVIOUS
    <2>2. clawed' = [clawed EXCEPT ![r.customer] = clawed[r.customer] - r.points]
      BY <1>1, <2>1 DEF Commit
    <2>3. clawed'[c] = clawed[c] - r.points
      BY <1>3, <1>5, <1>6, <2>2
    <2>4. clawed[c] \in Int
      BY <1>5
    <2>5. QED
      BY <1>3, <1>6, <2>3, <2>4
  <1>8. r.op \notin {"EARN", "REDEEM_REVERSAL"}
    <2>1. r.op \in {"EARN", "REDEEM_REVERSAL"} => r.points \in Nat
      BY <1>2, RequestFields
    <2>2. QED
      BY <1>6, <2>1
  <1>9. Spends(r)
    BY <1>3, <1>6, <1>7, <1>8 DEF Operation, Spends
  <1>10. QED
    BY <1>2, <1>6, <1>9 DEF LockInv, DebitsAreCovered, Covered

\* "No negative balance": a redemption, an adjustment or a sale never takes a
\* balance below zero, however many tills spend the same customer's points at
\* once (lockCustomer, balance, append, redeemForOrder).
THEOREM SpendingIsCovered == Spec => SpendingLeavesNoDebt
  <1>1. Init => LockInv
    BY LoyaltyAssumption
    DEF Init, LockInv, LockExcludes, LockersHold, SharersHold, DebitsAreCovered,
        Idle, At
  <1>2. Spec => []LockInv
    BY <1>1, LockInvInductive, Soundness, PTL DEF Spec
  <1>3. Sound /\ LockInv /\ [Next]_vars
          => [\A c \in Customer :
                balance'[c] < balance[c] /\ clawed'[c] = clawed[c]
                  => balance'[c] >= 0]_vars
    BY StepsAreCovered
  <1>4. QED
    BY <1>2, <1>3, Soundness, PTL DEF Spec, SpendingLeavesNoDebt

-----------------------------------------------------------------------------
(* A key is applied once.                                                  *)

\* The inductive invariant of the unique indexes.
ClaimInv == ClaimsAreExclusive /\ KeysAreIndexed

\* Entries of the three indexes are different things.
LEMMA EntriesDiffer ==
  /\ \A k, l : KeyEntry(k) = KeyEntry(l) => k = l
  /\ \A k, n : KeyEntry(k) # NumberEntry(n)
  /\ \A k, o, t : KeyEntry(k) # TieEntry(o, t)
  BY DEF KeyEntry, NumberEntry, TieEntry

\* A step that inserts nothing.
LEMMA ClaimsKept ==
  ASSUME TypeOK, ClaimInv, UNCHANGED <<index, applied>>,
         NEW w \in Worker, NEW r, req' = [req EXCEPT ![w] = r],
         claim' = claim \/ claim' = [claim EXCEPT ![w] = {}],
         \A k \in Key : KeyEntry(k) \in claim'[w]
                          <=> r.pc \in {"foreign", "commit"} /\ r.key = k
  PROVE  ClaimInv'
  <1>1. /\ \A v \in Worker : req'[v] = IF v = w THEN r ELSE req[v]
        /\ \A v \in Worker : claim'[v] \subseteq claim[v]
        /\ \A v \in Worker : v # w => claim'[v] = claim[v]
    BY DEF TypeOK
  <1>2. ClaimsAreExclusive'
    BY <1>1 DEF ClaimInv, ClaimsAreExclusive
  <1>3. KeysAreIndexed'
    BY <1>1 DEF ClaimInv, KeysAreIndexed
  <1>4. QED
    BY <1>2, <1>3 DEF ClaimInv

\* A step that inserts what it may.
LEMMA ClaimsGrow ==
  ASSUME TypeOK, ClaimInv, UNCHANGED <<index, applied>>,
         NEW w \in Worker, NEW r, req' = [req EXCEPT ![w] = r],
         claim' = [claim EXCEPT ![w] = claim[w] \cup Wanted(w)],
         At(w, "insert") \/ At(w, "tie"), Blockers(w) = {}, ~Lost(w),
         r.pc \in {"foreign", "commit"}, r.key = req[w].key
  PROVE  ClaimInv'
  <1>1. /\ \A v \in Worker : req'[v] = IF v = w THEN r ELSE req[v]
        /\ claim'[w] = claim[w] \cup Wanted(w)
        /\ \A v \in Worker : v # w => claim'[v] = claim[v]
    BY DEF TypeOK
  <1>2. /\ Wanted(w) \cap index = {}
        /\ \A v \in Worker : v # w => Wanted(w) \cap claim[v] = {}
    <2>1. Blockers(w) = {v \in Worker \ {w} : Wanted(w) \cap claim[v] # {}}
      BY DEF Blockers, At
    <2>2. QED
      BY <2>1 DEF Lost
  <1>3. ClaimsAreExclusive'
    BY <1>1, <1>2 DEF ClaimInv, ClaimsAreExclusive
  <1>4. \A k \in Key : KeyEntry(k) \in Wanted(w) <=> req[w].key = k
    <2>1. req[w] \in Request /\ req[w] # Idle
      BY DEF TypeOK, At, Idle
    <2>2. CASE At(w, "insert")
      <3>1. req[w].key = NoKey
        BY <2>1, <2>2, RequestShapes DEF At, SaleRequest
      <3>2. Wanted(w) = {NumberEntry(req[w].number)}
        BY <2>2 DEF Wanted, At
      <3>3. QED
        BY <3>1, <3>2, EntriesDiffer, LoyaltyAssumption
    <2>3. CASE At(w, "tie") /\ req[w].order # NoOrder
      <3>1. req[w].key = NoKey
        BY <2>1, <2>3, RequestFields
      <3>2. Wanted(w) = {TieEntry(req[w].order, TypeOf(req[w].op))}
        BY <2>3, <3>1 DEF Wanted, At
      <3>3. QED
        BY <3>1, <3>2, EntriesDiffer, LoyaltyAssumption
    <2>4. CASE At(w, "tie") /\ req[w].order = NoOrder /\ req[w].key # NoKey
      <3>1. Wanted(w) = {KeyEntry(req[w].key)}
        BY <2>4 DEF Wanted, At
      <3>2. QED
        BY <3>1, EntriesDiffer
    <2>5. CASE At(w, "tie") /\ req[w].order = NoOrder /\ req[w].key = NoKey
      <3>1. Wanted(w) = {}
        BY <2>5 DEF Wanted, At
      <3>2. QED
        BY <2>5, <3>1, LoyaltyAssumption
    <2>6. QED
      BY <2>2, <2>3, <2>4, <2>5
  <1>5. \A k \in Key : KeyEntry(k) \notin claim[w]
    BY DEF ClaimInv, KeysAreIndexed, At
  <1>6. KeysAreIndexed'
    BY <1>1, <1>4, <1>5 DEF ClaimInv, KeysAreIndexed
  <1>7. QED
    BY <1>3, <1>6 DEF ClaimInv

\* Every step keeps the claims on the unique indexes exclusive and the keys indexed.
LEMMA ClaimInvInductive ==
  ASSUME Sound, ClaimInv, [Next]_vars
  PROVE  ClaimInv'
  <1> USE LoyaltyAssumption
  <1>0. TypeOK /\ \A v \in Worker : req[v] \in Request
    BY DEF Sound, TypeOK
  <1>1. ASSUME NEW w \in Worker, Release(w)
        PROVE  claim' = [claim EXCEPT ![w] = {}] /\ claim'[w] = {}
    BY <1>0, <1>1 DEF Release, TypeOK
  <1>2. ASSUME NEW w \in Worker, End(w)
        PROVE  ClaimInv'
    <2>1. /\ req' = [req EXCEPT ![w] = Idle] /\ Idle.pc = "idle"
          /\ claim' = [claim EXCEPT ![w] = {}] /\ claim'[w] = {}
          /\ UNCHANGED <<index, applied>>
      BY <1>1, <1>2 DEF End, Idle, tables
    <2>2. QED
      BY <1>0, <2>1, ClaimsKept
  <1>3. ASSUME NEW w \in Worker, Arrive(w)
        PROVE  ClaimInv'
    <2>1. PICK pc \in {"lock", "number", "read"} :
            \E op, c, o, p, k : Take(w, pc, op, c, o, p, k)
      BY <1>3, Zenon DEF Arrive, Redeem, Adjust, Sale, Earn, Reverse, Restore
    <2> PICK op, c, o, p, k : Take(w, pc, op, c, o, p, k)
      BY <2>1, Zenon
    <2> DEFINE r == [pc |-> pc, op |-> op, customer |-> c, order |-> o,
                     points |-> p, key |-> k, number |-> 0, attempt |-> 0]
    <2>2. /\ req' = [req EXCEPT ![w] = r] /\ req[w].pc = "idle"
          /\ claim' = claim /\ UNCHANGED <<index, applied>>
          /\ r.pc \in {"lock", "number", "read"}
      BY <2>1 DEF Take, tables, locks, Idle
    <2>3. \A l \in Key : KeyEntry(l) \notin claim[w]
      BY <2>2 DEF ClaimInv, KeysAreIndexed
    <2> HIDE DEF r
    <2>4. QED
      BY <1>0, <2>2, <2>3, ClaimsKept
  \* A request that only moves to another statement.
  <1>4. ASSUME NEW w \in Worker, NEW r, req' = [req EXCEPT ![w] = r],
               UNCHANGED <<claim, index, applied>>, r.key = req[w].key,
               r.pc \in {"foreign", "commit"} => req[w].pc = "foreign",
               req[w].pc \in {"foreign", "commit"} /\ req[w].key \in Key
                 => r.pc \in {"foreign", "commit"}
        PROVE  ClaimInv'
    <2>1. \A k \in Key : KeyEntry(k) \in claim[w]
                           <=> r.pc \in {"foreign", "commit"} /\ r.key = k
      BY <1>4 DEF ClaimInv, KeysAreIndexed
    <2>2. QED
      BY <1>0, <1>4, <2>1, ClaimsKept
  <1>5. ASSUME NEW w \in Worker, SaleNumber(w)
        PROVE  ClaimInv'
    <2>1. PICK n \in 1 .. MaxRequests :
            req' = [req EXCEPT ![w] =
                      [req[w] EXCEPT !.pc = "insert", !.number = n]]
      BY <1>5 DEF SaleNumber
    <2> DEFINE r == [req[w] EXCEPT !.pc = "insert", !.number = n]
    <2>2. req[w] \in SaleRequest /\ req[w].pc = "number"
      BY <1>0, <1>5, RequestShapes DEF SaleNumber, At
    <2>3. r.pc = "insert" /\ r.key = req[w].key
      BY <2>2 DEF SaleRequest
    <2>4. UNCHANGED <<claim, index, applied>>
      BY <1>5 DEF SaleNumber, tables, locks
    <2> HIDE DEF r
    <2>5. QED
      BY <1>4, <2>1, <2>2, <2>3, <2>4 DEF r
  <1>6. ASSUME NEW w \in Worker, NEW pc, req[w] # Idle
        PROVE  LET r == [req[w] EXCEPT !.pc = pc]
               IN  r.pc = pc /\ r.key = req[w].key /\ r.op = req[w].op
    <2>1. req[w] \in CounterRequest \cup SaleRequest
                      \cup EntryRequest("EARN", Nat)
                      \cup EntryRequest("REFUND_REVERSAL", NonPositive)
                      \cup EntryRequest("REDEEM_REVERSAL", Nat)
      BY <1>0, <1>6, RequestShapes
    <2>2. QED
      BY <2>1 DEF CounterRequest, SaleRequest, EntryRequest
  <1>7. ASSUME NEW w \in Worker, SaleInsert(w) \/ Append(w)
        PROVE  ClaimInv'
    <2>1. PICK pc \in {"foreign", "commit"} :
            req' = [req EXCEPT ![w] = [req[w] EXCEPT !.pc = pc]]
      BY <1>7 DEF SaleInsert, Append, GoTo
    <2> DEFINE r == [req[w] EXCEPT !.pc = pc]
    <2>2. /\ req[w] # Idle
          /\ At(w, "insert") \/ At(w, "tie")
          /\ Blockers(w) = {} /\ ~Lost(w)
          /\ claim' = [claim EXCEPT ![w] = claim[w] \cup Wanted(w)]
          /\ UNCHANGED <<index, applied>>
      BY <1>7 DEF SaleInsert, Append, At, Idle, tables
    <2>3. r.pc \in {"foreign", "commit"} /\ r.key = req[w].key
      BY <1>6, <2>1, <2>2
    <2> HIDE DEF r
    <2>4. QED
      BY <1>0, <2>1, <2>2, <2>3, ClaimsGrow DEF r
  <1>8. ASSUME NEW w \in Worker, SaleRetry(w)
        PROVE  ClaimInv'
    <2> DEFINE n == req[w].attempt + 1
               r == IF n < MaxAttempts
                    THEN [req[w] EXCEPT !.pc = "number", !.attempt = n] ELSE Idle
    <2>1. req[w] \in SaleRequest
      BY <1>0, <1>8, RequestShapes DEF SaleRetry, At
    <2>2. /\ req' = [req EXCEPT ![w] = r]
          /\ claim' = [claim EXCEPT ![w] = {}] /\ claim'[w] = {}
          /\ UNCHANGED <<index, applied>>
      BY <1>1, <1>8 DEF SaleRetry, tables
    <2> HIDE DEF n
    <2>3. r.pc \in {"number", "idle"}
      BY <2>1 DEF SaleRequest, Idle
    <2> HIDE DEF r
    <2>4. QED
      BY <1>0, <2>2, <2>3, ClaimsKept
  <1>9. ASSUME NEW w \in Worker, Foreign(w)
        PROVE  ClaimInv'
    <2> DEFINE pc == IF req[w].op = "sale" /\ req[w].points # 0
                     THEN "lock" ELSE "commit"
               r == [req[w] EXCEPT !.pc = pc]
    <2>1. /\ req[w] # Idle /\ req[w].pc = "foreign"
          /\ req' = [req EXCEPT ![w] = r]
          /\ UNCHANGED <<claim, index, applied>>
      BY <1>9 DEF Foreign, At, Idle, GoTo, tables
    <2>2. r.pc = pc /\ r.key = req[w].key
      <3> HIDE DEF pc
      <3>1. QED
        BY <1>6, <2>1
    <2>3. req[w].key \in Key => pc = "commit"
      <3>1. req[w].op = "sale" => req[w].key = NoKey
        BY <1>0, <2>1, RequestFields
      <3>2. QED
        BY <3>1
    <2> HIDE DEF pc, r
    <2>4. QED
      BY <1>4, <2>1, <2>2, <2>3
  <1>10. ASSUME NEW w \in Worker, Lock(w) \/ Balance(w)
         PROVE  ClaimInv'
    <2>1. PICK pc \in {"balance", "tie"} :
            req' = [req EXCEPT ![w] = [req[w] EXCEPT !.pc = pc]]
      BY <1>10 DEF Lock, Balance, GoTo
    <2> DEFINE r == [req[w] EXCEPT !.pc = pc]
    <2>2. /\ req[w] # Idle /\ req[w].pc \in {"lock", "balance"}
          /\ UNCHANGED <<claim, index, applied>>
      BY <1>10 DEF Lock, Balance, At, Idle, GoTo, tables, locks
    <2>3. r.pc = pc /\ r.key = req[w].key
      BY <1>6, <2>2
    <2> HIDE DEF r
    <2>4. QED
      BY <1>4, <2>1, <2>2, <2>3 DEF r
  <1>11. ASSUME NEW w \in Worker, Read(w)
         PROVE  ClaimInv'
    <2>1. CASE End(w)
      BY <1>2, <2>1
    <2>2. CASE ~End(w)
      <3> DEFINE p == Priced(req[w])
                 r == [req[w] EXCEPT !.pc = "tie", !.points = p]
      <3>1. /\ req' = [req EXCEPT ![w] = r] /\ req[w].pc = "read"
            /\ UNCHANGED <<claim, index, applied>>
        BY <1>11, <2>2 DEF Read, At, tables, locks
      <3>2. req[w] \in EntryRequest("EARN", Nat)
                  \cup EntryRequest("REFUND_REVERSAL", NonPositive)
                  \cup EntryRequest("REDEEM_REVERSAL", Nat)
        BY <1>0, <3>1, RequestShapes
      <3> HIDE DEF p
      <3>3. r.pc = "tie" /\ r.key = req[w].key
        BY <3>2 DEF EntryRequest
      <3> HIDE DEF r
      <3>4. QED
        BY <1>4, <3>1, <3>3
    <2>3. QED
      BY <2>1, <2>2
  <1>12. ASSUME NEW w \in Worker, Commit(w)
         PROVE  ClaimInv'
    <2> DEFINE k == req[w].key
    <2>1. /\ req[w] # Idle /\ req[w].pc = "commit"
          /\ index' = index \cup claim[w]
      BY <1>12 DEF Commit, At, Idle
    <2>2. /\ claim' = [claim EXCEPT ![w] = {}] /\ claim'[w] = {}
          /\ \A v \in Worker : v # w => claim'[v] = claim[v]
          /\ \A v \in Worker : req'[v] = IF v = w THEN Idle ELSE req[v]
      BY <1>0, <1>1, <1>12 DEF Commit, TypeOK
    <2>3. ClaimsAreExclusive'
      BY <2>1, <2>2 DEF ClaimInv, ClaimsAreExclusive
    <2>4. \A l \in Key : KeyEntry(l) \in claim[w] <=> l = k
      BY <2>1 DEF ClaimInv, KeysAreIndexed
    <2>5. \A l \in Key : applied'[l] = IF l = k THEN applied[l] + 1 ELSE applied[l]
      BY <1>0, <1>12 DEF Commit, TypeOK
    <2>6. \A l \in Key : applied'[l] = IF KeyEntry(l) \in index' THEN 1 ELSE 0
      <3>1. \A l \in Key : KeyEntry(l) \in claim[w] => KeyEntry(l) \notin index
        BY DEF ClaimInv, ClaimsAreExclusive
      <3>2. \A l \in Key : applied[l] = IF KeyEntry(l) \in index THEN 1 ELSE 0
        BY DEF ClaimInv, KeysAreIndexed
      <3>3. QED
        BY <2>1, <2>4, <2>5, <3>1, <3>2
    <2>7. KeysAreIndexed'
      BY <2>2, <2>6 DEF ClaimInv, KeysAreIndexed, Idle
    <2>8. QED
      BY <2>3, <2>7 DEF ClaimInv
  <1>13. CASE UpdateSettings \/ UNCHANGED vars
    BY <1>13 DEF UpdateSettings, vars, tables, locks, ClaimInv,
                 ClaimsAreExclusive, KeysAreIndexed
  <1>14. QED
    BY <1>2, <1>3, <1>5, <1>7, <1>8, <1>9, <1>10, <1>11, <1>12, <1>13
    DEF Next, Step, SaleRefused, BalanceRefused, AppendLost, Abort

\* However often a till retries a redemption or an adjustment, and whichever
\* customer the retry names, the key's row is written once (replay, append,
\* the unique index on the idempotency key).
THEOREM KeysAreAppliedOnce == Spec => []KeysApplyOnce
  <1>1. Init => ClaimInv
    BY DEF Init, ClaimInv, ClaimsAreExclusive, KeysAreIndexed, Idle
  <1>2. Spec => []ClaimInv
    BY <1>1, ClaimInvInductive, Soundness, PTL DEF Spec
  <1>3. ClaimInv => KeysApplyOnce
    BY DEF ClaimInv, KeysAreIndexed, KeysApplyOnce
  <1>4. QED
    BY <1>2, <1>3, PTL

-----------------------------------------------------------------------------
(* What each step does to its own worker, and leaves to the others.        *)

Bystander(v) ==
  /\ req'[v] = req[v] /\ claim'[v] = claim[v]
  /\ \A c \in Customer : /\ locker'[c] = v <=> locker[c] = v
                         /\ v \in sharers'[c] <=> v \in sharers[c]

LocksStay(w) ==
  \A c \in Customer : /\ locker'[c] = w => locker[c] = w
                      /\ w \in sharers'[c] => w \in sharers[c]

Free(w) ==
  /\ claim'[w] = {}
  /\ \A c \in Customer : locker'[c] # w /\ w \notin sharers'[c]

\* The request is at another statement, and the same otherwise.
SameBut(r, s) ==
  /\ s.op = r.op /\ s.order = r.order /\ s.points = r.points
  /\ s.number = r.number /\ s.customer = r.customer /\ s.key = r.key

\* A transaction that only moves on is for the same thing as before.
LEMMA OnlyPc ==
  ASSUME NEW r \in Request, r # Idle, NEW pc
  PROVE  [r EXCEPT !.pc = pc].pc = pc /\ SameBut(r, [r EXCEPT !.pc = pc])
  <1>1. r \in CounterRequest \cup SaleRequest
                    \cup EntryRequest("EARN", Nat)
                    \cup EntryRequest("REFUND_REVERSAL", NonPositive)
                    \cup EntryRequest("REDEEM_REVERSAL", Nat)
    BY RequestShapes
  <1> QED BY <1>1 DEF SameBut, CounterRequest, SaleRequest, EntryRequest

\* A transaction that ends holds nothing, and the others what they held.
LEMMA Released ==
  ASSUME TypeOK, NEW w \in Worker, Release(w)
  PROVE  /\ Free(w)
         /\ \A v \in Worker \ {w} :
              /\ claim'[v] = claim[v]
              /\ \A c \in Customer : /\ locker'[c] = v <=> locker[c] = v
                                     /\ v \in sharers'[c] <=> v \in sharers[c]
  <1>1. Nobody \notin Worker
    BY LoyaltyAssumption
  <1> QED BY <1>1 DEF Release, Free, TypeOK

\* A rollback, or a return before any write, frees every lock and claim of its worker.
LEMMA EndsSo ==
  ASSUME TypeOK, NEW w \in Worker, End(w)
  PROVE  /\ Free(w) /\ req'[w] = Idle /\ UNCHANGED tables
         /\ \A v \in Worker \ {w} : Bystander(v)
  BY Released DEF End, Bystander, TypeOK

\* What a transaction is at its first statement.
LEMMA Begins ==
  ASSUME TypeOK, NEW w \in Worker, Arrive(w)
  PROVE  LET r == req'[w] IN
         /\ \A v \in Worker \ {w} : Bystander(v)
         /\ LocksStay(w) /\ claim'[w] = claim[w] /\ UNCHANGED tables
         /\ req[w] = Idle
         /\ r.pc \in {"lock", "number", "read"}
         /\ r.pc = "lock" => r.op \in {"redeem", "adjust"}
         /\ r.op = "REFUND_REVERSAL" => /\ r.order \in Order
                                        /\ booked[r.order]["EARN"] # 0
                                        /\ r.points = -booked[r.order]["EARN"]
         /\ r.op = "REDEEM_REVERSAL" => /\ r.order \in Order
                                        /\ booked[r.order]["REDEEM"] # 0
                                        /\ r.points = -booked[r.order]["REDEEM"]
  <1>1. ASSUME NEW pc, NEW op, NEW c, NEW o, NEW p, NEW k, Take(w, pc, op, c, o, p, k)
        PROVE  /\ \A v \in Worker \ {w} : Bystander(v)
               /\ LocksStay(w) /\ claim'[w] = claim[w] /\ UNCHANGED tables
               /\ req[w] = Idle
               /\ req'[w].pc = pc /\ req'[w].op = op
               /\ req'[w].order = o /\ req'[w].points = p
    <2> DEFINE r == [pc |-> pc, op |-> op, customer |-> c, order |-> o,
                     points |-> p, key |-> k, number |-> 0, attempt |-> 0]
    <2>1. r.pc = pc /\ r.op = op /\ r.order = o /\ r.points = p
      OBVIOUS
    <2>2. req' = [req EXCEPT ![w] = r] /\ req[w] = Idle /\ UNCHANGED <<tables, locks>>
      BY <1>1 DEF Take
    <2> HIDE DEF r
    <2>3. req'[w] = r /\ \A v \in Worker \ {w} : req'[v] = req[v]
      BY <2>2 DEF TypeOK
    <2> QED BY <2>1, <2>2, <2>3 DEF locks, Bystander, LocksStay
  <1>2. ASSUME NEW c \in Customer, NEW a \in Amount, NEW k \in MaybeKey,
               Redeem(w, c, a, k) \/ Adjust(w, c, a, k) \/ Adjust(w, c, -a, k)
        PROVE  \E op \in {"redeem", "adjust"}, p \in {-a, a} :
                 Take(w, "lock", op, c, NoOrder, p, k)
    BY <1>2 DEF Redeem, Adjust
  <1>3. ASSUME NEW c \in Customer, NEW o \in Order, NEW a \in Amount \cup {0}, Sale(w, c, o, a)
        PROVE  Take(w, "number", "sale", c, o, -a, NoKey)
    BY <1>3 DEF Sale
  <1>4. CASE \E c \in Customer, a \in Amount, k \in MaybeKey :
               Redeem(w, c, a, k) \/ Adjust(w, c, a, k) \/ Adjust(w, c, -a, k)
    <2>1. PICK c \in Customer, a \in Amount, k \in MaybeKey,
               op \in {"redeem", "adjust"} :
                 \E p \in {-a, a} : Take(w, "lock", op, c, NoOrder, p, k)
      BY <1>2, <1>4
    <2> QED BY <1>1, <2>1
  <1>5. CASE \E c \in Customer, o \in Order, a \in Amount \cup {0} : Sale(w, c, o, a)
    <2>1. PICK c \in Customer, o \in Order, a \in Amount \cup {0} :
                 Take(w, "number", "sale", c, o, -a, NoKey)
      BY <1>3, <1>5
    <2> QED BY <1>1, <2>1
  <1>6. ASSUME NEW o \in Order, Earn(w, o)
        PROVE  Take(w, "read", "EARN", owner[o], o, 0, NoKey)
    BY <1>6 DEF Earn
  <1>7. ASSUME NEW o \in Order, Reverse(w, o)
        PROVE  /\ booked[o]["EARN"] # 0
               /\ Take(w, "read", "REFUND_REVERSAL", owner[o], o, -booked[o]["EARN"], NoKey)
    BY <1>7 DEF Reverse, Earned
  <1>8. ASSUME NEW o \in Order, Restore(w, o)
        PROVE  /\ booked[o]["REDEEM"] # 0
               /\ Take(w, "read", "REDEEM_REVERSAL", owner[o], o, -booked[o]["REDEEM"], NoKey)
    BY <1>8 DEF Restore
  <1>9. CASE \E o \in Order : Earn(w, o) \/ Reverse(w, o) \/ Restore(w, o)
    <2>1. PICK o \in Order : Earn(w, o) \/ Reverse(w, o) \/ Restore(w, o)
      BY <1>9
    <2>2. CASE Earn(w, o)
      BY <1>1, <1>6, <2>2
    <2>3. CASE Reverse(w, o)
      BY <1>1, <1>7, <2>3
    <2>4. CASE Restore(w, o)
      BY <1>1, <1>8, <2>4
    <2> QED BY <2>1, <2>2, <2>3, <2>4
  <1> QED BY <1>4, <1>5, <1>9 DEF Arrive

\* A statement that keeps its transaction's locks and inserts.
LEMMA GoesOn ==
  ASSUME TypeOK, NEW w \in Worker, NEW pc, req[w] # Idle,
         req' = [req EXCEPT ![w].pc = pc]
  PROVE  /\ req'[w].pc = pc /\ SameBut(req[w], req'[w])
         /\ \A v \in Worker \ {w} : req'[v] = req[v]
  <1>1. req'[w] = [req[w] EXCEPT !.pc = pc] /\ req[w] \in Request
    BY DEF TypeOK
  <1> QED BY <1>1, OnlyPc DEF TypeOK

\* A sale has read the highest number and goes on to insert.
LEMMA Numbered ==
  ASSUME TypeOK, NEW w \in Worker, SaleNumber(w)
  PROVE  LET r == req'[w] IN
         /\ \A v \in Worker \ {w} : Bystander(v)
         /\ LocksStay(w) /\ claim'[w] = claim[w] /\ UNCHANGED tables
         /\ req[w].pc = "number" /\ r.pc = "insert" /\ r.op = "sale" /\ req[w].op = "sale"
         /\ r.number \in 1 .. MaxRequests /\ NextNumber(r.number)
  <1>1. PICK n \in 1 .. MaxRequests :
          /\ NextNumber(n)
          /\ req' = [req EXCEPT ![w] = [req[w] EXCEPT !.pc = "insert", !.number = n]]
    BY DEF SaleNumber
  <1>2. req[w] \in SaleRequest /\ req[w].pc = "number"
    BY RequestShapes DEF SaleNumber, At, TypeOK
  <1>3. req'[w] = [req[w] EXCEPT !.pc = "insert", !.number = n]
    BY <1>1 DEF TypeOK
  <1>4. req'[w].pc = "insert" /\ req'[w].op = "sale" /\ req'[w].number = n /\ req[w].op = "sale"
    BY <1>2, <1>3 DEF SaleRequest
  <1>5. \A v \in Worker \ {w} : req'[v] = req[v]
    BY <1>1 DEF TypeOK
  <1>6. /\ \A v \in Worker \ {w} : Bystander(v)
        /\ LocksStay(w) /\ claim'[w] = claim[w] /\ UNCHANGED tables
    BY <1>5 DEF SaleNumber, locks, Bystander, LocksStay
  <1> QED BY <1>1, <1>2, <1>4, <1>6

\* A sale's insert claims its number in the index.
LEMMA Inserted ==
  ASSUME TypeOK, NEW w \in Worker, SaleInsert(w)
  PROVE  LET r == req'[w] IN
         /\ \A v \in Worker \ {w} : Bystander(v)
         /\ LocksStay(w) /\ UNCHANGED tables
         /\ claim'[w] = claim[w] \cup {NumberEntry(req[w].number)}
         /\ req[w].pc = "insert" /\ req[w].op = "sale"
         /\ r.pc = "foreign" /\ SameBut(req[w], r)
  <1>1. req[w] \in SaleRequest /\ req[w].pc = "insert" /\ req[w] # Idle
    BY RequestShapes DEF SaleInsert, At, TypeOK, Idle
  <1>2. Wanted(w) = {NumberEntry(req[w].number)}
    BY <1>1 DEF Wanted, At
  <1>3. /\ req'[w].pc = "foreign" /\ SameBut(req[w], req'[w])
        /\ \A v \in Worker \ {w} : req'[v] = req[v]
    BY <1>1, GoesOn DEF SaleInsert, GoTo
  <1>4. /\ claim'[w] = claim[w] \cup {NumberEntry(req[w].number)}
        /\ \A v \in Worker \ {w} : claim'[v] = claim[v]
    BY <1>2 DEF SaleInsert, TypeOK
  <1> QED BY <1>1, <1>3, <1>4 DEF SaleInsert, Bystander, LocksStay, SaleRequest

\* A sale that lost its number rolls back, and reads again or gives up.
LEMMA Retried ==
  ASSUME TypeOK, NEW w \in Worker, SaleRetry(w)
  PROVE  /\ \A v \in Worker \ {w} : Bystander(v)
         /\ Free(w) /\ UNCHANGED tables
         /\ req'[w].pc \in {"number", "idle"} /\ (req'[w].pc = "number" => req'[w].op = "sale")
  <1>6. Release(w) /\ UNCHANGED tables
    BY Zenon DEF SaleRetry
  <1> DEFINE n == req[w].attempt + 1
             r == [req[w] EXCEPT !.pc = "number", !.attempt = n]
  <1>1. req[w] \in SaleRequest
    BY RequestShapes DEF SaleRetry, At, TypeOK
  <1>2. r.pc = "number" /\ r.op = "sale"
    BY <1>1 DEF SaleRequest
  <1>3. req' = [req EXCEPT ![w] = IF n < MaxAttempts THEN r ELSE Idle]
    BY DEF SaleRetry
  <1>4. req'[w] = r \/ req'[w] = Idle
    BY <1>3 DEF TypeOK
  <1>5. \A v \in Worker \ {w} : req'[v] = req[v]
    BY <1>3 DEF TypeOK
  <1> HIDE DEF r
  <1>7. req'[w].pc \in {"number", "idle"} /\ (req'[w].pc = "number" => req'[w].op = "sale")
    BY <1>2, <1>4 DEF Idle
  <1> QED BY <1>5, <1>6, <1>7, Released DEF Bystander

\* The foreign key takes a share of the customer's row, and the sale goes on
\* to lock it if it has points to move.
LEMMA Shared ==
  ASSUME TypeOK, NEW w \in Worker, Foreign(w)
  PROVE  LET r == req'[w] IN
         /\ \A v \in Worker \ {w} : Bystander(v)
         /\ \A c \in Customer : locker'[c] = w => locker[c] = w
         /\ claim'[w] = claim[w] /\ UNCHANGED tables
         /\ req[w].pc = "foreign" /\ SameBut(req[w], r)
         /\ r.pc = IF r.op = "sale" /\ r.points # 0 THEN "lock" ELSE "commit"
  <1> DEFINE pc == IF req[w].op = "sale" /\ req[w].points # 0 THEN "lock" ELSE "commit"
  <1>1. req[w] # Idle /\ req[w].pc = "foreign" /\ req[w].customer \in Customer
    BY RequestFields DEF Foreign, At, Idle, TypeOK
  <1>2. /\ req'[w].pc = pc /\ SameBut(req[w], req'[w])
        /\ \A v \in Worker \ {w} : req'[v] = req[v]
    <2> HIDE DEF pc
    <2>1. req' = [req EXCEPT ![w].pc = pc]
      BY DEF Foreign, GoTo, pc
    <2> QED BY <1>1, <2>1, GoesOn
  <1>3. \A c \in Customer, v \in Worker \ {w} : v \in sharers'[c] <=> v \in sharers[c]
    BY <1>1 DEF Foreign, TypeOK
  <1>4. UNCHANGED <<tables, locker, claim>>
    BY DEF Foreign
  <1> QED BY <1>1, <1>2, <1>3, <1>4 DEF Bystander, SameBut

\* Only the customer's row is locked, and by the worker that asked for it.
LEMMA Locked ==
  ASSUME TypeOK, NEW w \in Worker, Lock(w)
  PROVE  LET r == req'[w] IN
         /\ \A v \in Worker \ {w} : Bystander(v)
         /\ \A c \in Customer : w \in sharers'[c] => w \in sharers[c]
         /\ \A c \in Customer : locker'[c] = w => locker[c] = w \/ c = r.customer
         /\ claim'[w] = claim[w] /\ UNCHANGED tables
         /\ req[w].pc = "lock" /\ SameBut(req[w], r) /\ r.pc = "balance"
         /\ r.op \in {"redeem", "adjust", "sale"}
  <1> DEFINE c == req[w].customer
  <1>1. req[w] # Idle /\ req[w].pc = "lock" /\ c \in Customer
    BY RequestFields DEF Lock, At, Idle, TypeOK
  <1>2. /\ req'[w].pc = "balance" /\ SameBut(req[w], req'[w])
        /\ \A v \in Worker \ {w} : req'[v] = req[v]
    BY <1>1, GoesOn DEF Lock, GoTo
  <1>3. req[w].op \in {"redeem", "adjust", "sale"}
    BY <1>1, RequestShapes DEF TypeOK, CounterRequest, SaleRequest
  <1>4. locker[c] \in {w, Nobody}
    <2>1. ({locker[c]} \cup sharers[c]) \ {w, Nobody} = {}
      BY <1>1 DEF Lock, Blockers, RowHolders, At
    <2> QED BY <2>1
  <1>5. locker' = [locker EXCEPT ![c] = w]
    BY DEF Lock
  <1>6. \A d \in Customer, v \in Worker \ {w} : locker'[d] = v <=> locker[d] = v
    BY <1>1, <1>4, <1>5, LoyaltyAssumption DEF TypeOK
  <1>7. UNCHANGED <<tables, sharers, claim>>
    BY DEF Lock
  <1>8. \A d \in Customer : locker'[d] = w => locker[d] = w \/ d = c
    BY <1>1, <1>5 DEF TypeOK
  <1> QED BY <1>1, <1>2, <1>3, <1>6, <1>7, <1>8 DEF Bystander, SameBut

\* Whoever has checked the balance goes on to write its entry.
LEMMA Checked ==
  ASSUME TypeOK, NEW w \in Worker, Balance(w)
  PROVE  LET r == req'[w] IN
         /\ \A v \in Worker \ {w} : Bystander(v)
         /\ LocksStay(w) /\ claim'[w] = claim[w] /\ UNCHANGED tables
         /\ req[w].pc = "balance" /\ SameBut(req[w], r) /\ r.pc = "tie"
         /\ r.op \in {"redeem", "adjust", "sale"}
  <1>1. req[w] # Idle /\ req[w].pc = "balance"
    BY DEF Balance, At, Idle
  <1>2. /\ req'[w].pc = "tie" /\ SameBut(req[w], req'[w])
        /\ \A v \in Worker \ {w} : req'[v] = req[v]
    BY <1>1, GoesOn DEF Balance, GoTo
  <1>3. req[w].op \in {"redeem", "adjust", "sale"}
    BY <1>1, RequestShapes DEF TypeOK, CounterRequest, SaleRequest
  <1> QED BY <1>1, <1>2, <1>3 DEF Balance, locks, Bystander, LocksStay, SameBut

\* An entry for an order has read the order's entries and goes on to write its own.
LEMMA ReadOn ==
  ASSUME TypeOK, NEW w \in Worker, Read(w), ~End(w)
  PROVE  LET r == req'[w] IN
         /\ \A v \in Worker \ {w} : Bystander(v)
         /\ LocksStay(w) /\ claim'[w] = claim[w] /\ UNCHANGED tables
         /\ req[w].pc = "read" /\ r.pc = "tie"
         /\ r.op = req[w].op /\ r.order = req[w].order
         /\ r.op \in {"EARN", "REFUND_REVERSAL", "REDEEM_REVERSAL"}
         /\ r.points = Priced(req[w])
  <1> DEFINE p == Priced(req[w])
             r == [req[w] EXCEPT !.pc = "tie", !.points = p]
  <1>1. req[w].pc = "read" /\ req' = [req EXCEPT ![w] = r]
    BY DEF Read, At
  <1>2. req[w] \in EntryRequest("EARN", Nat)
              \cup EntryRequest("REFUND_REVERSAL", NonPositive)
              \cup EntryRequest("REDEEM_REVERSAL", Nat)
    BY <1>1, RequestShapes DEF TypeOK
  <1> HIDE DEF p
  <1>3. /\ r.pc = "tie" /\ r.op = req[w].op /\ r.order = req[w].order /\ r.points = p
        /\ r.op \in {"EARN", "REFUND_REVERSAL", "REDEEM_REVERSAL"}
    BY <1>2 DEF EntryRequest
  <1>4. req'[w] = r /\ \A v \in Worker \ {w} : req'[v] = req[v]
    BY <1>1 DEF TypeOK
  <1>5. UNCHANGED <<tables, locks>>
    BY DEF Read
  <1> HIDE DEF r
  <1> QED BY <1>1, <1>3, <1>4, <1>5 DEF locks, Bystander, LocksStay, p

\* The entry claims its key and its tie to the order.
LEMMA Appended ==
  ASSUME TypeOK, NEW w \in Worker, Append(w)
  PROVE  LET r == req'[w] IN
         /\ \A v \in Worker \ {w} : Bystander(v)
         /\ LocksStay(w) /\ claim'[w] = claim[w] \cup Wanted(w) /\ UNCHANGED tables
         /\ req[w].pc = "tie" /\ SameBut(req[w], r)
         /\ r.pc = IF locker[req[w].customer] = w THEN "commit" ELSE "foreign"
  <1> DEFINE pc == IF locker[req[w].customer] = w THEN "commit" ELSE "foreign"
  <1>1. req[w] # Idle /\ req[w].pc = "tie"
    BY DEF Append, At, Idle
  <1>2. /\ req'[w].pc = pc /\ SameBut(req[w], req'[w])
        /\ \A v \in Worker \ {w} : req'[v] = req[v]
    <2> HIDE DEF pc
    <2>1. req' = [req EXCEPT ![w].pc = pc]
      BY DEF Append, GoTo, pc
    <2> QED BY <1>1, <2>1, GoesOn
  <1>3. /\ claim'[w] = claim[w] \cup Wanted(w)
        /\ \A v \in Worker \ {w} : claim'[v] = claim[v]
    BY DEF Append, TypeOK
  <1>4. UNCHANGED <<tables, locker, sharers>>
    BY DEF Append
  <1> QED BY <1>1, <1>2, <1>3, <1>4 DEF Bystander, LocksStay

\* A commit adds what the worker claimed to the index and frees its locks.
LEMMA Committed ==
  ASSUME TypeOK, NEW w \in Worker, Commit(w)
  PROVE  /\ \A v \in Worker \ {w} : Bystander(v)
         /\ Free(w) /\ req'[w] = Idle /\ req[w].pc = "commit"
         /\ index' = index \cup claim[w]
  BY Released DEF Commit, At, Bystander, TypeOK

\* The steps of a transaction, one by one.
LEMMA ByStep ==
  ASSUME [Next]_vars, NEW G,
         UpdateSettings \/ UNCHANGED vars => G,
         \A w \in Worker : End(w) => G,
         \A w \in Worker : Arrive(w) => G,
         \A w \in Worker : SaleNumber(w) => G,
         \A w \in Worker : SaleInsert(w) => G,
         \A w \in Worker : SaleRetry(w) => G,
         \A w \in Worker : Foreign(w) => G,
         \A w \in Worker : Lock(w) => G,
         \A w \in Worker : Balance(w) => G,
         \A w \in Worker : Read(w) /\ ~End(w) => G,
         \A w \in Worker : Append(w) => G,
         \A w \in Worker : Commit(w) => G
  PROVE  G
  BY DEF Next, Step, SaleRefused, BalanceRefused, AppendLost, Abort

-----------------------------------------------------------------------------
(* Transactions do not wait for each other.                                *)

\* Who holds a row lock is past it and ends.
LEMMA LocksAreOwnInductive ==
  ASSUME TypeOK, LocksAreOwn, [Next]_vars
  PROVE  LocksAreOwn'
  <1> DEFINE Own(w) ==
        \A c \in Customer :
          /\ locker[c] = w => /\ req[w].pc \in {"balance", "tie", "commit"}
                              /\ req[w].op \in {"redeem", "adjust", "sale"}
                              /\ req[w].customer = c
          /\ w \in sharers[c] => At(w, "commit") \/ Selling(w)
  <1>1. \A w \in Worker : Own(w)
    BY DEF LocksAreOwn
  <1>2. ASSUME NEW v \in Worker, Bystander(v)
        PROVE  Own(v)'
    BY <1>1, <1>2 DEF Bystander, At, Selling
  <1>3. ASSUME NEW w \in Worker, Own(w)', \A v \in Worker \ {w} : Bystander(v)
        PROVE  LocksAreOwn'
    BY <1>2, <1>3 DEF LocksAreOwn
  <1>4. ASSUME NEW w \in Worker, Free(w)
        PROVE  Own(w)'
    BY <1>4 DEF Free
  <1>5. ASSUME NEW w \in Worker, LocksStay(w),
               req[w].pc \notin {"balance", "tie", "commit"},
               req[w].pc \notin Past
        PROVE  Own(w)'
    BY <1>1, <1>5 DEF LocksStay, At, Selling, Past
  <1>6. ASSUME NEW w \in Worker, Arrive(w)
        PROVE  LocksAreOwn'
    BY <1>3, <1>5, <1>6, Begins DEF Idle, Past
  <1>7. ASSUME NEW w \in Worker, SaleNumber(w)
        PROVE  LocksAreOwn'
    BY <1>3, <1>5, <1>7, Numbered DEF Past
  <1>8. ASSUME NEW w \in Worker, SaleInsert(w)
        PROVE  LocksAreOwn'
    BY <1>3, <1>5, <1>8, Inserted DEF Past
  <1>9. ASSUME NEW w \in Worker, Foreign(w)
        PROVE  LocksAreOwn'
    <2>1. Own(w)'
      <3>1. \A c \in Customer : locker[c] # w
        BY <1>1, <1>9, Shared
      <3>2. At(w, "commit")' \/ Selling(w)'
        BY <1>9, Shared DEF At, Selling, Past
      <3> QED BY <1>9, <3>1, <3>2, Shared
    <2> QED BY <1>3, <1>9, <2>1, Shared
  <1>10. ASSUME NEW w \in Worker, Lock(w)
         PROVE  LocksAreOwn'
    <2>1. Own(w)'
      BY <1>1, <1>10, Locked DEF SameBut, At, Selling, Past
    <2> QED BY <1>3, <1>10, <2>1, Locked
  <1>11. ASSUME NEW w \in Worker, Balance(w)
         PROVE  LocksAreOwn'
    <2>1. Own(w)'
      BY <1>1, <1>11, Checked DEF SameBut, LocksStay, At, Selling, Past
    <2> QED BY <1>3, <1>11, <2>1, Checked
  <1>12. ASSUME NEW w \in Worker, Read(w), ~End(w)
         PROVE  LocksAreOwn'
    BY <1>3, <1>5, <1>12, ReadOn DEF Past
  <1>13. ASSUME NEW w \in Worker, Append(w)
         PROVE  LocksAreOwn'
    <2>1. req[w] # Idle /\ req[w] \in Request
      BY <1>13, Appended DEF Idle, TypeOK
    <2>2. ASSUME NEW c \in Customer, locker'[c] = w
          PROVE  /\ req'[w].pc = "commit" /\ req'[w].op \in {"redeem", "adjust", "sale"}
                 /\ req'[w].customer = c
      BY <1>1, <1>13, <2>2, Appended DEF SameBut, LocksStay
    <2>3. ASSUME NEW c \in Customer, w \in sharers'[c]
          PROVE  At(w, "commit")' \/ Selling(w)'
      BY <1>1, <1>13, <2>3, Appended DEF SameBut, LocksStay, At, Selling, Past
    <2> QED BY <1>3, <1>13, <2>2, <2>3, Appended
  <1>14. ASSUME NEW w \in Worker, End(w) \/ SaleRetry(w) \/ Commit(w)
         PROVE  LocksAreOwn'
    BY <1>3, <1>4, <1>14, EndsSo, Retried, Committed
  <1>15. UpdateSettings \/ UNCHANGED vars => LocksAreOwn'
    BY DEF UpdateSettings, vars, locks, LocksAreOwn, At, Selling
  <1> HIDE DEF Own
  <1> QED BY <1>6, <1>7, <1>8, <1>9, <1>10, <1>11, <1>12, <1>13, <1>14, <1>15, ByStep

\* What a ledger row puts into the indexes.
LEMMA TieWants ==
  ASSUME TypeOK, NEW w \in Worker, req[w].pc = "tie"
  PROVE  LET t == TieEntry(req[w].order, TypeOf(req[w].op)) IN
         /\ \A e \in Wanted(w) : e = t \/ \E k \in Key : e = KeyEntry(k)
         /\ req[w].op \in EntryType \cup {"sale"} => t \in Wanted(w)
  <1>1. req[w] \in Request /\ req[w] # Idle
    BY DEF TypeOK, Idle
  <1>2. /\ req[w].order \in Order \cup {NoOrder}
        /\ req[w].op \notin {"redeem", "adjust"} => req[w].order \in Order
        /\ req[w].key \in MaybeKey
        /\ req[w].order # NoOrder => req[w].key = NoKey
    BY <1>1, RequestFields
  <1>3. CASE req[w].order # NoOrder
    BY <1>2, <1>3 DEF Wanted, At
  <1>4. CASE req[w].order = NoOrder /\ req[w].key # NoKey
    <2>1. Wanted(w) = {KeyEntry(req[w].key)} /\ req[w].key \in Key
      BY <1>2, <1>4 DEF Wanted, At, MaybeKey
    <2> QED BY <1>2, <1>4, <2>1, LoyaltyAssumption DEF EntryType
  <1>5. CASE req[w].order = NoOrder /\ req[w].key = NoKey
    <2>1. Wanted(w) = {}
      BY <1>5 DEF Wanted, At
    <2> QED BY <1>2, <1>5, <2>1, LoyaltyAssumption DEF EntryType
  <1> QED BY <1>3, <1>4, <1>5

\* A transaction claims what it has inserted until it ends.
LEMMA ClaimsAreOwnInductive ==
  ASSUME Sound, LockInv, ClaimsAreOwn, [Next]_vars
  PROVE  ClaimsAreOwn'
  <1> DEFINE Own(w) ==
               /\ \A e \in claim[w] :
                    \/ e = NumberEntry(req[w].number) /\ Selling(w)
                    \/ /\ e = TieEntry(req[w].order, TypeOf(req[w].op))
                       /\ \/ At(w, "commit")
                          \/ At(w, "foreign") /\ ~Spends(req[w])
                    \/ \E k \in Key : e = KeyEntry(k)
               /\ Selling(w) => NumberEntry(req[w].number) \in claim[w]
               /\ Booking(w) => TieEntry(req[w].order, TypeOf(req[w].op)) \in claim[w]
  <1>0. TypeOK /\ \A w \in Worker : Own(w)
    BY DEF Sound, ClaimsAreOwn
  <1>1. ASSUME NEW v \in Worker, Bystander(v)
        PROVE  Own(v)'
    BY <1>0, <1>1 DEF Bystander, At, Selling, Booking
  <1>2. ASSUME NEW w \in Worker, Own(w)', \A v \in Worker \ {w} : Bystander(v)
        PROVE  ClaimsAreOwn'
    BY <1>1, <1>2 DEF ClaimsAreOwn
  \* Before it has inserted anything.
  <1>3. ASSUME NEW w \in Worker, claim'[w] \subseteq claim[w],
               \/ claim'[w] = {}
               \/ req[w].pc \in {"idle", "number", "read"}
               \/ req[w].pc = "insert",
               \/ req'[w].pc \in {"idle", "number", "read", "insert"}
               \/ req'[w].pc \in {"lock", "tie"} /\ req'[w].op # "sale"
        PROVE  Own(w)'
    BY <1>0, <1>3 DEF At, Selling, Booking, Past
  <1>4. ASSUME NEW w \in Worker, Arrive(w)
        PROVE  ClaimsAreOwn'
    BY <1>0, <1>2, <1>3, <1>4, Begins DEF Idle
  <1>5. ASSUME NEW w \in Worker, SaleNumber(w)
        PROVE  ClaimsAreOwn'
    BY <1>0, <1>2, <1>3, <1>5, Numbered
  <1>6. ASSUME NEW w \in Worker, SaleInsert(w)
        PROVE  ClaimsAreOwn'
    <2>1. Own(w)'
      BY <1>0, <1>6, Inserted DEF SameBut, At, Selling, Booking, Past, EntryType
    <2> QED BY <1>0, <1>2, <1>6, <2>1, Inserted
  <1>7. ASSUME NEW w \in Worker, Foreign(w)
        PROVE  ClaimsAreOwn'
    <2>1. Own(w)'
      BY <1>0, <1>7, Shared DEF SameBut, At, Selling, Booking, Past, Spends, EntryType
    <2> QED BY <1>0, <1>2, <1>7, <2>1, Shared
  <1>8. ASSUME NEW w \in Worker, Lock(w)
        PROVE  ClaimsAreOwn'
    <2>1. Own(w)'
      BY <1>0, <1>8, Locked DEF SameBut, At, Selling, Booking, Past
    <2> QED BY <1>0, <1>2, <1>8, <2>1, Locked
  <1>9. ASSUME NEW w \in Worker, Balance(w)
        PROVE  ClaimsAreOwn'
    <2>1. Own(w)'
      BY <1>0, <1>9, Checked DEF SameBut, At, Selling, Booking, Past
    <2> QED BY <1>0, <1>2, <1>9, <2>1, Checked
  <1>10. ASSUME NEW w \in Worker, Read(w), ~End(w)
         PROVE  ClaimsAreOwn'
    BY <1>0, <1>2, <1>3, <1>10, ReadOn
  <1>11. ASSUME NEW w \in Worker, Append(w)
         PROVE  ClaimsAreOwn'
    <2> DEFINE t == TieEntry(req[w].order, TypeOf(req[w].op))
    <2>1. /\ \A e \in Wanted(w) : e = t \/ \E k \in Key : e = KeyEntry(k)
          /\ req[w].op \in EntryType \cup {"sale"} => t \in Wanted(w)
      BY <1>0, <1>11, TieWants, Appended
    <2>2. /\ t = TieEntry(req'[w].order, TypeOf(req'[w].op))
          /\ req[w].number = req'[w].number /\ req'[w].op = req[w].op
          /\ req'[w].points = req[w].points
          /\ req[w].pc = "tie" /\ req'[w].pc \in {"foreign", "commit"}
          /\ claim'[w] = claim[w] \cup Wanted(w)
      BY <1>0, <1>11, Appended DEF SameBut
    <2>3. req'[w].pc = "foreign" => ~Spends(req'[w])
      BY <1>0, <1>11, <2>2, Appended DEF LockInv, LockersHold, Spends
    <2> HIDE DEF t
    <2>4. \A e \in claim'[w] :
            \/ e = NumberEntry(req'[w].number) /\ Selling(w)'
            \/ /\ e = t
               /\ \/ At(w, "commit")'
                  \/ At(w, "foreign")' /\ ~Spends(req'[w])
            \/ \E k \in Key : e = KeyEntry(k)
      BY <1>0, <2>1, <2>2, <2>3 DEF At, Selling, Past
    <2>5. Selling(w)' => NumberEntry(req'[w].number) \in claim'[w]
      BY <1>0, <2>2 DEF Selling, Past
    <2>6. Booking(w)' => t \in claim'[w]
      BY <2>1, <2>2 DEF Booking, At
    <2>7. Own(w)'
      BY <2>2, <2>4, <2>5, <2>6
    <2> QED BY <1>0, <1>2, <1>11, <2>7, Appended
  <1>12. ASSUME NEW w \in Worker, End(w) \/ SaleRetry(w) \/ Commit(w)
         PROVE  ClaimsAreOwn'
    <2>1. /\ \A v \in Worker \ {w} : Bystander(v)
          /\ claim'[w] = {} /\ req'[w].pc \in {"idle", "number"}
      BY <1>0, <1>12, EndsSo, Retried, Committed DEF Free, Idle
    <2> QED BY <1>2, <1>3, <2>1
  <1>13. UpdateSettings \/ UNCHANGED vars => ClaimsAreOwn'
    BY DEF UpdateSettings, vars, locks, ClaimsAreOwn, At, Selling, Booking
  <1> HIDE DEF Own
  <1> QED BY <1>4, <1>5, <1>6, <1>7, <1>8, <1>9, <1>10, <1>11, <1>12, <1>13, ByStep

\* The three indexes have no entry in common, and an entry tells what it is for.
LEMMA NumbersDiffer ==
  /\ \A m, n : NumberEntry(m) = NumberEntry(n) => m = n
  /\ \A m, o, t : NumberEntry(m) # TieEntry(o, t)
  /\ \A m, k : NumberEntry(m) # KeyEntry(k)
  /\ \A o, t, p, u : TieEntry(o, t) = TieEntry(p, u) => o = p /\ t = u
  BY DEF NumberEntry, TieEntry, KeyEntry

\* Only a commit writes the index.
LEMMA IndexGrows ==
  ASSUME TypeOK, [Next]_vars
  PROVE  \/ UNCHANGED tables
         \/ \E w \in Worker : Commit(w)
  <1>1. UpdateSettings \/ UNCHANGED vars => UNCHANGED tables
    BY DEF UpdateSettings, vars, tables
  <1>2. \A w \in Worker : Arrive(w) => UNCHANGED tables
    BY Begins
  <1> QED BY <1>1, <1>2, ByStep, EndsSo, Numbered, Inserted, Retried, Shared, Locked,
             Checked, ReadOn, Appended

\* Numbers are committed in turn.
LEMMA NumbersFollowInductive ==
  ASSUME TypeOK, ClaimsAreOwn, NumbersFollow, [Next]_vars
  PROVE  NumbersFollow'
  <1> USE LoyaltyAssumption
  <1> DEFINE Run(ix) == \A m \in 1 .. MaxRequests : \A n \in 1 .. m :
                          NumberEntry(m) \in ix => NumberEntry(n) \in ix
             Next1(n) == /\ n \in 1 .. MaxRequests
                         /\ n = 1 \/ NumberEntry(n - 1) \in index
             Own(w) == At(w, "insert") \/ Selling(w) => Next1(req[w].number)
  <1>0. Run(index) /\ \A w \in Worker : Own(w)
    BY DEF NumbersFollow
  <1>1. index \subseteq index'
    BY IndexGrows DEF tables, Commit
  <1>2. \A n : Next1(n) => Next1(n)'
    BY <1>1
  <1>3. Run(index')
    <2>1. CASE index' = index
      BY <1>0, <2>1
    <2>2. ASSUME NEW w \in Worker, Commit(w)
          PROVE  Run(index')
      <3>1. index' = index \cup claim[w]
        BY <2>2 DEF Commit
      <3>2. \A m : NumberEntry(m) \in claim[w] => m = req[w].number /\ Selling(w)
        BY NumbersDiffer DEF ClaimsAreOwn
      <3>3. ASSUME NEW m \in 1 .. MaxRequests, NEW n \in 1 .. m, NumberEntry(m) \in claim[w]
            PROVE  NumberEntry(n) \in index'
        <4>1. m = 1 \/ NumberEntry(m - 1) \in index
          BY <1>0, <3>2, <3>3
        <4>2. CASE n = m
          BY <3>1, <3>3, <4>2
        <4>3. CASE n # m
          <5>1. m - 1 \in 1 .. MaxRequests /\ n \in 1 .. m - 1 /\ m # 1
            BY <4>3
          <5> QED BY <1>0, <3>1, <4>1, <5>1
        <4> QED BY <4>2, <4>3
      <3> QED BY <1>0, <3>1, <3>3
    <2> QED BY <2>1, <2>2, IndexGrows DEF tables
  <1>4. ASSUME NEW w \in Worker, Own(w)', \A v \in Worker \ {w} : Bystander(v)
        PROVE  NumbersFollow'
    <2>1. \A v \in Worker : Own(v)'
      BY <1>0, <1>2, <1>4 DEF Bystander, At, Selling
    <2> QED BY <1>3, <2>1 DEF NumbersFollow
  <1>5. ASSUME NEW w \in Worker, SameBut(req[w], req'[w]),
               At(w, "insert") \/ Selling(w) \/ req'[w].op # "sale" \/ req'[w].pc \notin Past,
               req'[w].pc # "insert"
        PROVE  Own(w)'
    <2>1. CASE At(w, "insert") \/ Selling(w)
      BY <1>0, <1>2, <1>5, <2>1 DEF SameBut
    <2>2. CASE ~(At(w, "insert") \/ Selling(w))
      BY <1>5, <2>2 DEF At, Selling
    <2> QED BY <2>1, <2>2
  <1>6. ASSUME NEW w \in Worker, Arrive(w)
        PROVE  NumbersFollow'
    <2>1. Own(w)'
      BY <1>6, Begins DEF At, Selling, Past
    <2> QED BY <1>4, <1>6, <2>1, Begins
  <1>7. ASSUME NEW w \in Worker, SaleNumber(w)
        PROVE  NumbersFollow'
    <2>1. Next1(req'[w].number)
      BY <1>7, Numbered DEF NextNumber
    <2>2. Own(w)'
      BY <1>2, <2>1
    <2> QED BY <1>4, <1>7, <2>2, Numbered
  <1>8. ASSUME NEW w \in Worker, SaleInsert(w)
        PROVE  NumbersFollow'
    <2>1. Own(w)'
      BY <1>5, <1>8, Inserted DEF At
    <2> QED BY <1>4, <1>8, <2>1, Inserted
  <1>9. ASSUME NEW w \in Worker, Foreign(w)
        PROVE  NumbersFollow'
    <2>1. Own(w)'
      BY <1>5, <1>9, Shared DEF Selling, Past, SameBut
    <2> QED BY <1>4, <1>9, <2>1, Shared
  <1>10. ASSUME NEW w \in Worker, Lock(w)
         PROVE  NumbersFollow'
    <2>1. Own(w)'
      BY <1>5, <1>10, Locked DEF Selling, Past, SameBut
    <2> QED BY <1>4, <1>10, <2>1, Locked
  <1>11. ASSUME NEW w \in Worker, Balance(w)
         PROVE  NumbersFollow'
    <2>1. Own(w)'
      BY <1>5, <1>11, Checked DEF Selling, Past, SameBut
    <2> QED BY <1>4, <1>11, <2>1, Checked
  <1>12. ASSUME NEW w \in Worker, Read(w), ~End(w)
         PROVE  NumbersFollow'
    <2>1. Own(w)'
      BY <1>12, ReadOn DEF At, Selling
    <2> QED BY <1>4, <1>12, <2>1, ReadOn
  <1>13. ASSUME NEW w \in Worker, Append(w)
         PROVE  NumbersFollow'
    <2>1. Own(w)'
      BY <1>5, <1>13, Appended DEF Selling, Past, SameBut
    <2> QED BY <1>4, <1>13, <2>1, Appended
  <1>14. ASSUME NEW w \in Worker, End(w) \/ SaleRetry(w) \/ Commit(w)
         PROVE  NumbersFollow'
    <2>1. /\ \A v \in Worker \ {w} : Bystander(v)
          /\ req'[w].pc \in {"idle", "number"}
      BY <1>14, EndsSo, Retried, Committed DEF Idle
    <2>2. Own(w)'
      BY <2>1 DEF At, Selling, Past
    <2> QED BY <1>4, <2>1, <2>2
  <1>15. UpdateSettings \/ UNCHANGED vars => NumbersFollow'
    BY DEF UpdateSettings, vars, tables, NumbersFollow, At, Selling
  <1> HIDE DEF Own, Run, Next1
  <1> QED BY <1>6, <1>7, <1>8, <1>9, <1>10, <1>11, <1>12, <1>13, <1>14, <1>15, ByStep

\* At most one sale is past its insert: they would hold the same number.
LEMMA OneSale ==
  ASSUME TypeOK, ClaimsAreExclusive, ClaimsAreOwn, NumbersFollow,
         NEW v \in Worker, NEW w \in Worker, Selling(v), Selling(w)
  PROVE  v = w
  <1> USE LoyaltyAssumption
  <1> DEFINE m == req[v].number
             n == req[w].number
  <1>1. /\ NumberEntry(m) \in claim[v] /\ NumberEntry(m) \notin index
        /\ NumberEntry(n) \in claim[w] /\ NumberEntry(n) \notin index
    BY DEF ClaimsAreOwn, ClaimsAreExclusive
  <1>2. /\ m \in 1 .. MaxRequests /\ (m = 1 \/ NumberEntry(m - 1) \in index)
        /\ n \in 1 .. MaxRequests /\ (n = 1 \/ NumberEntry(n - 1) \in index)
    BY DEF NumbersFollow
  <1> HIDE DEF m, n
  <1>3. ASSUME NEW a \in 1 .. MaxRequests, NEW b \in 1 .. MaxRequests, a < b,
               NumberEntry(a) \notin index, b = 1 \/ NumberEntry(b - 1) \in index
        PROVE  FALSE
    <2>1. b - 1 \in 1 .. MaxRequests /\ a \in 1 .. b - 1 /\ b # 1
      BY <1>3
    <2> QED BY <1>3, <2>1 DEF NumbersFollow
  <1>4. m = n
    <2>1. ~(m < n) /\ ~(n < m)
      BY <1>1, <1>2, <1>3
    <2> QED BY <1>2, <2>1
  <1> QED BY <1>1, <1>4 DEF ClaimsAreExclusive

\* Whoever waits, somebody does not wait for those who do.
LEMMA SomebodyGoesOn ==
  ASSUME Sound, LockInv, ClaimInv, LocksAreOwn, ClaimsAreOwn, NumbersFollow
  PROVE  NoWaitCycle
  <1> SUFFICES ASSUME NEW W \in SUBSET Worker,
                      \A w \in W : \E v \in W : v \in Blockers(w)
               PROVE  W = {}
    BY DEF NoWaitCycle
  <1>0. TypeOK /\ \A w \in W : w \in Worker /\ req[w] \in Request
    BY DEF Sound, TypeOK
  <1>1. ASSUME NEW w \in W, req[w].pc \notin {"lock", "foreign"}
        PROVE  \E v \in W : v # w /\ Wanted(w) \cap claim[v] # {}
    <2>1. Blockers(w) = {v \in Worker \ {w} : Wanted(w) \cap claim[v] # {}}
      BY <1>1 DEF Blockers, At
    <2> QED BY <2>1
  <1>2. ASSUME NEW w \in W
        PROVE  req[w].pc \in {"lock", "foreign", "insert", "tie"}
    <2>1. req[w].pc \notin {"insert", "tie"} => Wanted(w) = {}
      BY DEF Wanted, At
    <2> QED BY <1>1, <2>1
  <1>3. ASSUME NEW v \in W, NEW k \in Key, KeyEntry(k) \in claim[v]
        PROVE  FALSE
    <2>1. req[v].pc = "foreign" /\ req[v].key = k
      BY <1>2, <1>3 DEF ClaimInv, KeysAreIndexed
    <2>2. req[v].op \notin {"redeem", "adjust"} /\ req[v] # Idle
      BY <2>1 DEF LockInv, LockersHold, At, Idle
    <2>3. req[v].order # NoOrder
      BY <1>0, <2>2, RequestFields, LoyaltyAssumption
    <2> QED BY <1>0, <1>3, <2>1, <2>2, <2>3, RequestFields, LoyaltyAssumption
  <1>4. ASSUME NEW v \in W, NEW o, NEW t, TieEntry(o, t) \in claim[v]
        PROVE  At(v, "foreign")
    BY <1>0, <1>2, <1>4, EntriesDiffer, NumbersDiffer DEF ClaimsAreOwn, At
  <1>5. ASSUME NEW w \in W, At(w, "tie")
        PROVE  \E v \in W : v # w /\ At(v, "foreign")
                             /\ (req[w].op = "sale" => req[v].op = "sale")
    <2> DEFINE t == TieEntry(req[w].order, TypeOf(req[w].op))
    <2>1. PICK v \in W, e \in Wanted(w) : v # w /\ e \in claim[v]
      BY <1>1, <1>5 DEF At
    <2>2. e = t
      BY <1>0, <1>3, <1>5, <2>1, TieWants DEF At
    <2>3. At(v, "foreign")
      BY <1>4, <2>1, <2>2
    <2>4. t = TieEntry(req[v].order, TypeOf(req[v].op))
      BY <1>0, <2>1, <2>2, <1>3, NumbersDiffer DEF ClaimsAreOwn
    <2>5. req[w].op = "sale" => TypeOf(req[v].op) = "REDEEM"
      BY <2>4, NumbersDiffer DEF TypeOf
    <2>6. req[v].op = "sale" \/ TypeOf(req[v].op) # "REDEEM"
      <3>1. req[v] # Idle
        BY <2>3 DEF At, Idle
      <3> QED BY <1>0, <3>1, RequestFields DEF TypeOf, Operation
    <2> QED BY <2>1, <2>3, <2>5, <2>6
  <1>6. ASSUME NEW w \in W, At(w, "tie")
        PROVE  req[w].op \notin {"redeem", "adjust", "sale"}
    <2>1. CASE req[w].op = "sale"
      <3>1. PICK v \in W : v # w /\ At(v, "foreign") /\ req[v].op = "sale"
        BY <1>5, <1>6, <2>1
      <3>2. Selling(v) /\ Selling(w)
        BY <1>6, <2>1, <3>1 DEF Selling, At, Past
      <3> QED BY <1>0, <3>1, <3>2, OneSale DEF ClaimInv
    <2>2. CASE req[w].op \in {"redeem", "adjust"}
      <3>1. PICK v \in W, e \in Wanted(w) : e \in claim[v]
        BY <1>1, <1>6 DEF At
      <3>2. req[w].order = NoOrder /\ req[w].key \in MaybeKey
        <4>1. req[w] # Idle
          BY <1>6 DEF At, Idle
        <4> QED BY <1>0, <2>2, <4>1, RequestFields
      <3>3. \E k \in Key : e = KeyEntry(k)
        BY <1>6, <3>1, <3>2 DEF Wanted, At, MaybeKey
      <3> QED BY <1>3, <3>1, <3>3
    <2> QED BY <2>1, <2>2
  <1>7. ASSUME NEW v \in W, NEW c \in Customer
        PROVE  locker[c] # v
    BY <1>0, <1>2, <1>6 DEF LocksAreOwn, At
  <1>8. ASSUME NEW w \in W, At(w, "foreign")
        PROVE  FALSE
    <2>1. PICK v \in W : v \in RowOwners(w)
      BY <1>8 DEF Blockers, At
    <2>2. req[w].customer \in Customer
      BY <1>0, <1>8, RequestFields DEF At, Idle
    <2> QED BY <1>7, <2>1, <2>2 DEF RowOwners
  <1>9. \A w \in W : ~At(w, "tie")
    BY <1>5, <1>8
  <1>10. ASSUME NEW w \in W, At(w, "lock")
         PROVE  \E v \in W : v # w /\ At(v, "lock") /\ Selling(v)
    <2>1. PICK v \in W : v \in RowHolders(w)
      BY <1>10 DEF Blockers, At
    <2>2. req[w].customer \in Customer
      BY <1>0, <1>10, RequestFields DEF At, Idle
    <2>3. v # w /\ v \in sharers[req[w].customer]
      BY <1>7, <2>1, <2>2 DEF RowHolders
    <2>4. Selling(v)
      BY <1>0, <1>2, <2>2, <2>3 DEF LocksAreOwn, At
    <2> QED BY <1>2, <1>8, <1>9, <2>3, <2>4 DEF At, Selling, Past
  <1>11. \A w \in W : ~At(w, "lock")
    <2> SUFFICES ASSUME NEW w \in W, At(w, "lock") PROVE FALSE
      OBVIOUS
    <2>1. PICK v \in W : v # w /\ At(v, "lock") /\ Selling(v)
      BY <1>10
    <2>2. PICK u \in W : u # v /\ Selling(u)
      BY <1>10, <2>1
    <2> QED BY <1>0, <2>1, <2>2, OneSale DEF ClaimInv
  <1>12. \A w \in W : req[w].pc = "insert"
    BY <1>2, <1>8, <1>9, <1>11 DEF At
  <1>13. ASSUME NEW w \in W
         PROVE  FALSE
    <2>1. PICK v \in W, e \in Wanted(w) : v # w /\ e \in claim[v]
      BY <1>1, <1>12
    <2>2. e = NumberEntry(req[w].number)
      BY <1>12, <2>1 DEF Wanted, At
    <2>3. Selling(v)
      BY <1>0, <2>1, <2>2, NumbersDiffer DEF ClaimsAreOwn
    <2> QED BY <1>12, <2>3 DEF Selling, Past
  <1> QED BY <1>13

\* Nothing of this holds before anything has happened.
LEMMA WaitInit ==
  ASSUME Init
  PROVE  LockInv /\ ClaimInv /\ LocksAreOwn /\ ClaimsAreOwn /\ NumbersFollow
  <1> USE LoyaltyAssumption
  <1>1. LockInv
    BY DEF Init, LockInv, LockExcludes, LockersHold, SharersHold, DebitsAreCovered, Idle, At
  <1>2. ClaimInv
    BY DEF Init, ClaimInv, ClaimsAreExclusive, KeysAreIndexed, Idle
  <1>3. LocksAreOwn
    BY DEF Init, LocksAreOwn
  <1>4. ClaimsAreOwn
    BY DEF Init, ClaimsAreOwn, Selling, Booking, Past, Idle, At
  <1>5. NumbersFollow
    BY DEF Init, NumbersFollow, Selling, Past, Idle, At
  <1> QED BY <1>1, <1>2, <1>3, <1>4, <1>5

\* No transactions wait for each other in a circle, however many redeem,
\* adjust, sell and book for the same customers (insert, redeemForOrder,
\* append): a customer's row is shared before it is locked by a sale only, and
\* two sales never get there together, since both would hold the same number.
THEOREM NoDeadlock == Spec => []NoWaitCycle
  <1>1. Spec => []LockInv
    BY WaitInit, LockInvInductive, Soundness, PTL DEF Spec
  <1>2. Spec => []ClaimInv
    BY WaitInit, ClaimInvInductive, Soundness, PTL DEF Spec
  <1>3. Spec => []LocksAreOwn
    BY WaitInit, LocksAreOwnInductive, Typing, PTL DEF Spec
  <1>4. Spec => []ClaimsAreOwn
    BY <1>1, WaitInit, ClaimsAreOwnInductive, Soundness, PTL DEF Spec
  <1>5. Spec => []NumbersFollow
    BY <1>4, WaitInit, NumbersFollowInductive, Typing, PTL DEF Spec
  <1> QED BY <1>1, <1>2, <1>3, <1>4, <1>5, SomebodyGoesOn, Soundness, PTL

-----------------------------------------------------------------------------
(* A sale's points are booked once, and reversed as they were booked.      *)

\* A commit books what the request asks for, where nothing was booked.
LEMMA CommitOnce ==
  ASSUME Sound, ClaimInv, ClaimsAreOwn, BookingsAreRight, NEW w \in Worker, Commit(w)
  PROVE  LET r == req[w]
             t == TypeOf(r.op)
         IN /\ r.op \in {"redeem", "adjust"} => booked' = booked
            /\ r.op \notin {"redeem", "adjust"} =>
                 /\ r.order \in Order /\ t \in EntryType
                 /\ \A o \in Order, s \in EntryType :
                      booked'[o][s] = IF o = r.order /\ s = t /\ r.points # 0
                                        THEN r.points ELSE booked[o][s]
                 /\ r.points # 0 => /\ booked[r.order][t] = 0
                                    /\ TieEntry(r.order, t) \in index'
  <1> DEFINE r == req[w]
             t == TypeOf(r.op)
  <1>1. r \in Request /\ r # Idle /\ r.pc = "commit" /\ TypeOK
    BY DEF Sound, TypeOK, Commit, At, Idle
  <1>2. /\ r.op \in {"redeem", "adjust"} => r.order = NoOrder
        /\ r.op \notin {"redeem", "adjust"} => r.order \in Order
        /\ r.op \in Operation /\ r.points \in Int
    BY <1>1, RequestFields
  <1>3. booked' = IF r.order = NoOrder THEN booked
                  ELSE [booked EXCEPT ![r.order][t] = @ + r.points]
    BY DEF Commit
  <1>4. CASE r.op \in {"redeem", "adjust"}
    BY <1>2, <1>3, <1>4
  <1>5. CASE r.op \notin {"redeem", "adjust"}
    <2>1. r.order \in Order /\ r.order # NoOrder /\ t \in EntryType
      BY <1>2, <1>5, LoyaltyAssumption DEF TypeOf, EntryType, Operation
    <2>2. booked' = [booked EXCEPT ![r.order] =
                       [booked[r.order] EXCEPT ![t] = booked[r.order][t] + r.points]]
      BY <1>3, <2>1
    <2> HIDE DEF t
    <2>3. \A o \in Order, s \in EntryType :
            booked'[o][s] = IF o = r.order /\ s = t
                              THEN booked[o][s] + r.points ELSE booked[o][s]
      BY <1>1, <2>1, <2>2 DEF TypeOK
    <2>4. booked[r.order][t] \in Int
      BY <1>1, <2>1 DEF TypeOK
    <2>5. \A o \in Order, s \in EntryType : booked[o][s] \in Int
      BY <1>1 DEF TypeOK
    <2>6. CASE r.points = 0
      BY <1>2, <1>5, <2>1, <2>3, <2>5, <2>6 DEF t
    <2>7. CASE r.points # 0
      <3>1. Booking(w)
        BY <1>1, <1>2, <1>5, <2>7 DEF Booking, At, Operation, EntryType
      <3>2. TieEntry(r.order, t) \in claim[w]
        BY <3>1 DEF ClaimsAreOwn, t
      <3>3. TieEntry(r.order, t) \notin index
        BY <3>2 DEF ClaimInv, ClaimsAreExclusive
      <3>4. booked[r.order][t] = 0
        BY <2>1, <3>3 DEF BookingsAreRight
      <3>5. TieEntry(r.order, t) \in index'
        BY <3>2 DEF Commit
      <3> QED BY <1>2, <1>5, <2>1, <2>3, <2>7, <3>4, <3>5 DEF t
    <2> QED BY <2>6, <2>7
  <1> QED BY <1>4, <1>5

EffectInv == EffectsHappenOnce /\ BookingsAreRight

\* What a request is about to book is right as long as what was earned and
\* spent is not booked again.
LEMMA EffectInvInductive ==
  ASSUME Sound, ClaimInv, ClaimsAreOwn, EffectInv, [Next]_vars
  PROVE  EffectInv'
  <1> DEFINE Right(r, b) ==
        /\ r.pc \in {"tie", "foreign", "commit"} /\ r.op = "EARN" => r.points \in Rate
        /\ r.pc # "idle" /\ r.op = "REFUND_REVERSAL" =>
             r.points # 0 /\ r.points = -b[r.order]["EARN"]
        /\ r.pc # "idle" /\ r.op = "REDEEM_REVERSAL" =>
             r.points # 0 /\ r.points = -b[r.order]["REDEEM"]
  <1>0. /\ TypeOK /\ \A w \in Worker : Right(req[w], booked)
        /\ \A w \in Worker : req[w] \in Request
    BY DEF Sound, TypeOK, EffectInv, BookingsAreRight
  \* A step that books nothing.
  <1>1. ASSUME NEW w \in Worker, Right(req'[w], booked),
               \A v \in Worker \ {w} : Bystander(v), UNCHANGED tables
        PROVE  EffectInv'
    <2>1. booked' = booked /\ index' = index
      BY <1>1 DEF tables
    <2>2. \A v \in Worker : Right(req'[v], booked)
      BY <1>0, <1>1 DEF Bystander
    <2> HIDE DEF Right
    <2>3. \A v \in Worker : Right(req'[v], booked')
      BY <2>1, <2>2
    <2>4. BookingsAreRight'
      BY <2>1, <2>3 DEF EffectInv, BookingsAreRight, Right
    <2> QED BY <2>1, <2>4 DEF EffectInv, EffectsHappenOnce
  <1>2. ASSUME NEW w \in Worker, SameBut(req[w], req'[w]),
               req[w].pc # "idle",
               req[w].pc \in {"tie", "foreign", "commit"} \/ req[w].op # "EARN"
        PROVE  Right(req'[w], booked)
    BY <1>0, <1>2 DEF SameBut
  <1>3. ASSUME NEW w \in Worker, Arrive(w)
        PROVE  EffectInv'
    <2>1. Right(req'[w], booked)
      <3>1. \A o \in Order : booked[o]["EARN"] \in Int /\ booked[o]["REDEEM"] \in Int
        BY <1>0 DEF TypeOK, EntryType
      <3> QED BY <1>0, <1>3, <3>1, Begins
    <2> QED BY <1>0, <1>1, <1>3, <2>1, Begins
  <1>4. ASSUME NEW w \in Worker, SaleNumber(w)
        PROVE  EffectInv'
    BY <1>0, <1>1, <1>4, Numbered
  <1>5. ASSUME NEW w \in Worker, SaleInsert(w)
        PROVE  EffectInv'
    BY <1>0, <1>1, <1>2, <1>5, Inserted
  <1>6. ASSUME NEW w \in Worker, SaleRetry(w)
        PROVE  EffectInv'
    BY <1>0, <1>1, <1>6, Retried
  <1>7. ASSUME NEW w \in Worker, Foreign(w)
        PROVE  EffectInv'
    BY <1>0, <1>1, <1>2, <1>7, Shared
  <1>8. ASSUME NEW w \in Worker, Lock(w)
        PROVE  EffectInv'
    BY <1>0, <1>1, <1>2, <1>8, Locked DEF SameBut
  <1>9. ASSUME NEW w \in Worker, Balance(w)
        PROVE  EffectInv'
    BY <1>0, <1>1, <1>2, <1>9, Checked DEF SameBut
  <1>10. ASSUME NEW w \in Worker, Read(w), ~End(w)
         PROVE  EffectInv'
    <2>1. Right(req'[w], booked)
      BY <1>0, <1>10, ReadOn DEF Priced, TypeOK
    <2> QED BY <1>0, <1>1, <1>10, <2>1, ReadOn
  <1>11. ASSUME NEW w \in Worker, Append(w)
         PROVE  EffectInv'
    BY <1>0, <1>1, <1>2, <1>11, Appended
  <1>12. ASSUME NEW w \in Worker, End(w)
         PROVE  EffectInv'
    BY <1>0, <1>1, <1>12, EndsSo DEF Idle
  <1>13. ASSUME NEW w \in Worker, Commit(w)
         PROVE  EffectInv'
    <2> DEFINE r == req[w]
               t == TypeOf(r.op)
    <2>1. /\ \A v \in Worker \ {w} : req'[v] = req[v]
          /\ req'[w] = Idle /\ r.pc = "commit" /\ index \subseteq index'
      BY <1>0, <1>13, Committed DEF Bystander
    <2>2. CASE r.op \in {"redeem", "adjust"}
      <3>1. booked' = booked
        BY <1>13, <2>2, CommitOnce DEF EffectInv
      <3>2. \A v \in Worker : Right(req'[v], booked)
        BY <1>0, <2>1 DEF Idle
      <3> HIDE DEF Right
      <3>3. \A v \in Worker : Right(req'[v], booked')
        BY <3>1, <3>2
      <3>4. BookingsAreRight'
        BY <2>1, <3>1, <3>3 DEF EffectInv, BookingsAreRight, Right
      <3> QED BY <3>1, <3>4 DEF EffectInv, EffectsHappenOnce
    <2>3. CASE r.op \notin {"redeem", "adjust"}
      <3>1. /\ r.order \in Order /\ t \in EntryType
            /\ \A o \in Order, s \in EntryType :
                 booked'[o][s] = IF o = r.order /\ s = t /\ r.points # 0
                                   THEN r.points ELSE booked[o][s]
            /\ r.points # 0 => booked[r.order][t] = 0 /\ TieEntry(r.order, t) \in index'
        BY <1>13, <2>3, CommitOnce DEF EffectInv
      <3>2. {"EARN", "REDEEM", "REFUND_REVERSAL", "REDEEM_REVERSAL"} \subseteq EntryType
        BY DEF EntryType
      <3>3. /\ t = "EARN" => r.points \in Rate
            /\ t = "REFUND_REVERSAL" => r.points = -booked[r.order]["EARN"]
            /\ t = "REDEEM_REVERSAL" => r.points = -booked[r.order]["REDEEM"]
        BY <1>0, <2>1 DEF TypeOf
      <3> HIDE DEF t
      <3>4. \A o \in Order, s \in EntryType : booked'[o][s] # 0 => TieEntry(o, s) \in index'
        BY <2>1, <3>1 DEF EffectInv, BookingsAreRight
      <3>5. ASSUME NEW o \in Order, NEW s \in EntryType, booked[o][s] # 0
            PROVE  booked'[o][s] = booked[o][s]
        BY <3>1, <3>5
      <3>6. ASSUME NEW v \in Worker
            PROVE  Right(req'[v], booked')
        <4>1. CASE v = w
          BY <2>1, <4>1 DEF Idle
        <4>2. CASE v # w
          <5> DEFINE q == req[v]
          <5>1. req'[v] = q /\ Right(q, booked)
            BY <1>0, <2>1, <4>2
          <5>2. q.pc # "idle" /\ q.op \in {"REFUND_REVERSAL", "REDEEM_REVERSAL"}
                  => q.order \in Order
            BY <1>0, RequestFields DEF Idle
          <5>3. \A o \in Order : booked[o]["EARN"] \in Int /\ booked[o]["REDEEM"] \in Int
            BY <1>0 DEF TypeOK, EntryType
          <5>4. q.pc # "idle" /\ q.op = "REFUND_REVERSAL" =>
                  booked'[q.order]["EARN"] = booked[q.order]["EARN"]
            BY <3>2, <3>5, <5>1, <5>2, <5>3
          <5>5. q.pc # "idle" /\ q.op = "REDEEM_REVERSAL" =>
                  booked'[q.order]["REDEEM"] = booked[q.order]["REDEEM"]
            BY <3>2, <3>5, <5>1, <5>2, <5>3
          <5> QED BY <5>1, <5>4, <5>5
        <4> QED BY <4>1, <4>2
      <3>7. BookingsAreRight'
        BY <3>4, <3>6 DEF BookingsAreRight
      <3>8. ASSUME NEW o \in Order
            PROVE  /\ booked'[o]["EARN"] \in Rate \cup {0}
                   /\ booked'[o]["REFUND_REVERSAL"] \in {0, -booked'[o]["EARN"]}
                   /\ booked'[o]["REDEEM_REVERSAL"] \in {0, -booked'[o]["REDEEM"]}
        <4>1. /\ booked[o]["EARN"] \in Rate \cup {0}
              /\ booked[o]["REFUND_REVERSAL"] \in {0, -booked[o]["EARN"]}
              /\ booked[o]["REDEEM_REVERSAL"] \in {0, -booked[o]["REDEEM"]}
          BY DEF EffectInv, EffectsHappenOnce
        <4>2. /\ booked[o]["EARN"] \in Int /\ booked[o]["REDEEM"] \in Int
              /\ booked[o]["REFUND_REVERSAL"] \in Int /\ booked[o]["REDEEM_REVERSAL"] \in Int
          BY <1>0, <3>2 DEF TypeOK
        <4>3. CASE o # r.order \/ r.points = 0
          BY <3>1, <3>2, <4>1, <4>3
        <4>4. CASE o = r.order /\ r.points # 0 /\ t = "EARN"
          BY <3>1, <3>2, <3>3, <4>1, <4>2, <4>4
        <4>5. CASE o = r.order /\ r.points # 0 /\ t = "REDEEM"
          BY <3>1, <3>2, <4>1, <4>2, <4>5
        <4>6. CASE o = r.order /\ r.points # 0 /\ t = "REFUND_REVERSAL"
          BY <3>1, <3>2, <3>3, <4>1, <4>6
        <4>7. CASE o = r.order /\ r.points # 0 /\ t = "REDEEM_REVERSAL"
          BY <3>1, <3>2, <3>3, <4>1, <4>7
        <4> QED BY <3>1, <4>3, <4>4, <4>5, <4>6, <4>7 DEF EntryType
      <3> QED BY <3>7, <3>8 DEF EffectInv, EffectsHappenOnce
    <2> QED BY <2>2, <2>3
  <1>14. UpdateSettings \/ UNCHANGED vars => EffectInv'
    BY DEF UpdateSettings, vars, tables, EffectInv, EffectsHappenOnce, BookingsAreRight
  <1> HIDE DEF Right
  <1> QED BY <1>3, <1>4, <1>5, <1>6, <1>7, <1>8, <1>9, <1>10, <1>11, <1>12, <1>13, <1>14, ByStep

\* A sale earns once, and what is reversed or restored is exactly what it
\* earned or spent, once, whatever overlaps and however the configuration
\* changes in between (earnForOrder, reverseForOrder,
\* restoreRedeemedForOrder): the unique index on order and type lets one row
\* in, and a reversal copies the row it reverses.
THEOREM EffectsAreBookedOnce == Spec => []EffectsHappenOnce
  <1>1. Init => EffectInv
    BY LoyaltyAssumption
    DEF Init, EffectInv, EffectsHappenOnce, BookingsAreRight, EntryType, Idle
  <1>2. Spec => []LockInv
    BY WaitInit, LockInvInductive, Soundness, PTL DEF Spec
  <1>3. Spec => []ClaimInv
    BY WaitInit, ClaimInvInductive, Soundness, PTL DEF Spec
  <1>4. Spec => []ClaimsAreOwn
    BY <1>2, WaitInit, ClaimsAreOwnInductive, Soundness, PTL DEF Spec
  <1>5. Spec => []EffectInv
    BY <1>1, <1>3, <1>4, EffectInvInductive, Soundness, PTL DEF Spec
  <1>6. EffectInv => EffectsHappenOnce
    BY DEF EffectInv
  <1> QED BY <1>5, <1>6, PTL

=============================================================================
