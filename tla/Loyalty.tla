------------------------------ MODULE Loyalty ------------------------------
(***************************************************************************)
(* The loyalty points ledger: LoyaltyService, and the transaction of an    *)
(* order that redeems points.  One tenant.                                 *)
(*                                                                         *)
(* Here a transaction is followed statement by statement, because what     *)
(* keeps a balance honest are PostgreSQL's locks:                          *)
(*  - SELECT ... FOR UPDATE on the customer's row, held to the end;        *)
(*  - the key-share lock that a foreign key check takes on the customer's  *)
(*    row when an order or a ledger row is inserted, held to the end;      *)
(*  - unique indexes, where an insert waits for the end of a transaction   *)
(*    that has inserted the same entry and not committed.                  *)
(*                                                                         *)
(* A definition whose name begins with Mutant stands for a plausible bug   *)
(* in the definition below it.  No action uses it.                         *)
(***************************************************************************)
EXTENDS Integers

CONSTANTS
  Customer,      \* customers of the tenant
  Order,         \* identities of orders that may be placed
  Worker,        \* requests the API can have in flight at once
  Key,           \* idempotency keys the tills send
  NoKey,         \* "no idempotency key"
  NoOrder,       \* "no order"
  Nobody,        \* "no customer", "no worker"
  Amount,        \* points a till may ask to move
  Rate,          \* points an order can earn under a configuration; 0: off
  Load,          \* the operations the clients of this instance send
  MaxRequests,   \* bound on the requests ever sent
  MaxAttempts    \* create() tries this often to allocate a number (5)

Operation == {"redeem", "adjust", "sale", "EARN", "REFUND_REVERSAL",
              "REDEEM_REVERSAL"}

MaybeKey == Key \cup {NoKey}

ASSUME LoyaltyAssumption ==
  /\ NoKey \notin Key
  /\ NoOrder \notin Order
  /\ Nobody \notin Customer \cup Worker
  /\ Amount \subseteq Nat \ {0}
  /\ Rate \subseteq Nat
  /\ Load \subseteq Operation
  /\ MaxRequests \in Nat
  /\ MaxAttempts \in Nat \ {0}

VARIABLES
  balance,   \* per customer, SUM(points) over the committed rows
  clawed,    \* per customer, what REFUND_REVERSAL rows took
  booked,    \* per order, SUM(points) of its committed rows, by type
  owner,     \* per committed order, its customer
  applied,   \* per key, the committed rows that carry it
  rate,      \* the configuration in force
  index,     \* committed entries of the unique indexes
  claim,     \* per worker, entries its open transaction inserted
  locker,    \* per customer, who holds its row FOR UPDATE
  sharers,   \* per customer, who holds a key-share lock on its row
  req,       \* what each worker is in the middle of
  sent       \* requests sent so far

tables == <<balance, clawed, booked, owner, applied, index>>
locks == <<claim, locker, sharers>>
vars == <<balance, clawed, booked, owner, applied, rate, index, claim, locker,
          sharers, req, sent>>

EntryType == {"EARN", "REFUND_REVERSAL", "REDEEM", "REDEEM_REVERSAL"}

\* An entry of a unique index: an order's number, a ledger row's order and
\* type, a ledger row's idempotency key.
NumberEntry(n) == <<"number", n>>
TieEntry(o, t) == <<"tie", o, t>>
KeyEntry(k)    == <<"key", k>>

IndexEntry == ({"number"} \X Nat) \cup ({"tie"} \X Order \X EntryType)
                \cup ({"key"} \X Key)

Idle == [pc |-> "idle"]

\* points is what the request will add to the balance: a counter redemption
\* or adjustment, a sale with what it redeems, the entry of an order.
NonPositive == {p \in Int : p <= 0}

CounterRequest == [pc : {"lock", "balance", "tie", "foreign", "commit"},
                   op : {"redeem", "adjust"}, customer : Customer,
                   order : {NoOrder}, points : Int, key : MaybeKey,
                   number : {0}, attempt : {0}]
SaleRequest == [pc : {"number", "insert", "foreign", "lock", "balance", "tie",
                      "commit"},
                op : {"sale"}, customer : Customer, order : Order,
                points : NonPositive, key : {NoKey}, number : Nat,
                attempt : 0 .. MaxAttempts]
EntryRequest(type, amounts) ==
  [pc : {"read", "tie", "foreign", "commit"}, op : {type},
   customer : Customer, order : Order, points : amounts, key : {NoKey},
   number : {0}, attempt : {0}]

Request == {Idle} \cup CounterRequest \cup SaleRequest
             \cup EntryRequest("EARN", Nat)
             \cup EntryRequest("REFUND_REVERSAL", NonPositive)
             \cup EntryRequest("REDEEM_REVERSAL", Nat)

TypeOK ==
  /\ balance \in [Customer -> Int]
  /\ clawed \in [Customer -> Nat]
  /\ booked \in [Order -> [EntryType -> Int]]
  /\ owner \in [Order -> Customer \cup {Nobody}]
  /\ applied \in [Key -> Nat]
  /\ rate \in Rate
  /\ index \subseteq IndexEntry
  /\ claim \in [Worker -> SUBSET IndexEntry]
  /\ locker \in [Customer -> Worker \cup {Nobody}]
  /\ sharers \in [Customer -> SUBSET Worker]
  /\ req \in [Worker -> Request]
  /\ sent \in 0 .. MaxRequests

Init ==
  /\ balance = [c \in Customer |-> 0]
  /\ clawed = [c \in Customer |-> 0]
  /\ booked = [o \in Order |-> [t \in EntryType |-> 0]]
  /\ owner = [o \in Order |-> Nobody]
  /\ applied = [k \in Key |-> 0]
  /\ rate \in Rate
  /\ index = {}
  /\ claim = [w \in Worker |-> {}]
  /\ locker = [c \in Customer |-> Nobody]
  /\ sharers = [c \in Customer |-> {}]
  /\ req = [w \in Worker |-> Idle]
  /\ sent = 0

-----------------------------------------------------------------------------
(* Statements and locks.                                                   *)

At(w, pc) == req[w].pc = pc

\* The worker goes on with its transaction.
GoTo(w, pc) == req' = [req EXCEPT ![w].pc = pc] /\ UNCHANGED sent

\* The type of the ledger row a request writes, when it is tied to an order.
TypeOf(op) == IF op = "sale" THEN "REDEEM" ELSE op

\* A till's key is not unique.
MutantWanted(w) ==
  CASE At(w, "insert") -> {NumberEntry(req[w].number)}
    [] At(w, "tie") /\ req[w].order # NoOrder ->
         {TieEntry(req[w].order, TypeOf(req[w].op))}
    [] OTHER -> {}

\* The entries an insert puts into a unique index.
Wanted(w) ==
  CASE At(w, "insert") -> {NumberEntry(req[w].number)}
    [] At(w, "tie") /\ req[w].order # NoOrder ->
         {TieEntry(req[w].order, TypeOf(req[w].op))}
    [] At(w, "tie") /\ req[w].key # NoKey -> {KeyEntry(req[w].key)}
    [] OTHER -> {}

\* FOR UPDATE waits for another FOR UPDATE only, as FOR NO KEY UPDATE would.
MutantRowHolders(w) == {locker[req[w].customer]} \ {w, Nobody}

\* FOR UPDATE waits for whoever else has the row locked in any mode.
RowHolders(w) ==
  ({locker[req[w].customer]} \cup sharers[req[w].customer]) \ {w, Nobody}

\* A foreign key check waits for FOR UPDATE only.
RowOwners(w) == {locker[req[w].customer]} \ {w, Nobody}

\* The workers whose transactions w's next statement waits for.
Blockers(w) ==
  CASE At(w, "lock") -> RowHolders(w)
    [] At(w, "foreign") -> RowOwners(w)
    [] OTHER -> {v \in Worker \ {w} : Wanted(w) \cap claim[v] # {}}

Lost(w) == Wanted(w) \cap index # {}

\* Rolled back, the customer's row stays locked.
MutantRelease(w) ==
  /\ claim' = [claim EXCEPT ![w] = {}]
  /\ sharers' = [c \in Customer |-> sharers[c] \ {w}]
  /\ UNCHANGED locker

\* Commit and rollback release everything the transaction holds.
Release(w) ==
  /\ claim' = [claim EXCEPT ![w] = {}]
  /\ locker' = [c \in Customer |->
                  IF locker[c] = w THEN Nobody ELSE locker[c]]
  /\ sharers' = [c \in Customer |-> sharers[c] \ {w}]

\* The transaction is rolled back and the request is over: refused, answered
\* with what another request did, or dead.
End(w) ==
  /\ Release(w)
  /\ req' = [req EXCEPT ![w] = Idle]
  /\ UNCHANGED <<tables, rate, sent>>

-----------------------------------------------------------------------------
(* Requests arrive.                                                        *)

Take(w, pc, op, c, o, p, k) ==
  /\ op \in Load
  /\ req[w] = Idle
  /\ sent < MaxRequests
  /\ sent' = sent + 1
  /\ req' = [req EXCEPT ![w] =
       [pc |-> pc, op |-> op, customer |-> c, order |-> o, points |-> p,
        key |-> k, number |-> 0, attempt |-> 0]]
  /\ UNCHANGED <<tables, rate, locks>>

Redeem(w, c, a, k) == Take(w, "lock", "redeem", c, NoOrder, -a, k)

Adjust(w, c, p, k) == Take(w, "lock", "adjust", c, NoOrder, p, k)

\* An order of a customer, redeeming a points, or none.
Sale(w, c, o, a) ==
  /\ owner[o] = Nobody
  /\ \A v \in Worker : req[v] # Idle => req[v].order # o
  /\ Take(w, "number", "sale", c, o, -a, NoKey)

\* earnForOrder() reads the order in a transaction of its own.
Earn(w, o) ==
  /\ owner[o] # Nobody
  /\ Take(w, "read", "EARN", owner[o], o, 0, NoKey)

\* What was earned is recomputed under the configuration of the day.
MutantEarned(o) == IF booked[o]["EARN"] = 0 THEN 0 ELSE rate

Earned(o) == booked[o]["EARN"]

\* reverseForOrder() reads the EARN row in a transaction of its own.
Reverse(w, o) ==
  /\ Earned(o) # 0
  /\ Take(w, "read", "REFUND_REVERSAL", owner[o], o, -Earned(o), NoKey)

\* restoreRedeemedForOrder() reads the REDEEM row.
Restore(w, o) ==
  /\ booked[o]["REDEEM"] # 0
  /\ Take(w, "read", "REDEEM_REVERSAL", owner[o], o, -booked[o]["REDEEM"],
          NoKey)

\* updateSettings().
UpdateSettings ==
  /\ rate' \in Rate \ {rate}
  /\ UNCHANGED <<tables, locks, req, sent>>

-----------------------------------------------------------------------------
(* The statements of a transaction.                                        *)

\* Numbers come from a sequence that every transaction advances.
MutantNextNumber(n) ==
  /\ NumberEntry(n) \notin index
  /\ \A w \in Worker : req[w] # Idle => req[w].number < n
  /\ \A m \in 1 .. n - 1 :
       NumberEntry(m) \in index \/ \E w \in Worker : req[w] # Idle /\ req[w].number = m

\* One more than the highest committed number.
NextNumber(n) ==
  /\ NumberEntry(n) \notin index
  /\ n = 1 \/ NumberEntry(n - 1) \in index

\* An order prices its redemption by the configuration, and picks its number.
SaleNumber(w) ==
  /\ At(w, "number")
  /\ req[w].points = 0 \/ rate > 0
  /\ \E n \in 1 .. MaxRequests :
       /\ NextNumber(n)
       /\ req' = [req EXCEPT ![w].pc = "insert", ![w].number = n]
  /\ UNCHANGED <<tables, rate, locks, sent>>

SaleRefused(w) ==
  /\ At(w, "number")
  /\ req[w].points # 0 /\ rate = 0
  /\ End(w)

\* The order's row is in the index; its foreign key is checked next.
SaleInsert(w) ==
  /\ At(w, "insert")
  /\ Blockers(w) = {} /\ ~Lost(w)
  /\ claim' = [claim EXCEPT ![w] = @ \cup Wanted(w)]
  /\ GoTo(w, "foreign")
  /\ UNCHANGED <<tables, rate, locker, sharers>>

\* The number went to a concurrent order: roll back and try again, or give up.
SaleRetry(w) ==
  /\ At(w, "insert") /\ Lost(w)
  /\ Release(w)
  /\ LET n == req[w].attempt + 1
     IN req' = [req EXCEPT ![w] =
                  IF n < MaxAttempts
                  THEN [req[w] EXCEPT !.pc = "number", !.attempt = n] ELSE Idle]
  /\ UNCHANGED <<tables, rate, sent>>

\* The foreign key check of an order or of a ledger row.
Foreign(w) ==
  /\ At(w, "foreign")
  /\ Blockers(w) = {}
  /\ sharers' = [sharers EXCEPT ![req[w].customer] = @ \cup {w}]
  /\ GoTo(w, IF req[w].op = "sale" /\ req[w].points # 0
               THEN "lock" ELSE "commit")
  /\ UNCHANGED <<tables, rate, claim, locker>>

\* lockCustomer().
Lock(w) ==
  /\ At(w, "lock")
  /\ Blockers(w) = {}
  /\ locker' = [locker EXCEPT ![req[w].customer] = w]
  /\ GoTo(w, "balance")
  /\ UNCHANGED <<tables, rate, claim, sharers>>

\* A key whose row is committed is a replay.
Replayed(r) == r.key # NoKey /\ applied[r.key] > 0

\* Loyalty that is switched off does not redeem at the counter.
Allowed(r) == r.op = "redeem" => rate > 0

Covered(r) == r.points < 0 => balance[r.customer] + r.points >= 0

\* The replay check, the rules and the balance, under the lock.
Balance(w) ==
  /\ At(w, "balance")
  /\ LET r == req[w] IN ~Replayed(r) /\ Allowed(r) /\ Covered(r)
  /\ GoTo(w, "tie")
  /\ UNCHANGED <<tables, rate, locks>>

BalanceRefused(w) ==
  /\ At(w, "balance")
  /\ LET r == req[w] IN Replayed(r) \/ ~Allowed(r) \/ ~Covered(r)
  /\ End(w)

\* A reversal is booked with the sign of what it reverses.
MutantPriced(r) == IF r.op = "EARN" THEN rate ELSE -r.points

\* Earning prices the order by the configuration of this transaction.
Priced(r) == IF r.op = "EARN" THEN rate ELSE r.points

\* The second transaction of an entry tied to an order: is it there already?
Read(w) ==
  /\ At(w, "read")
  /\ LET r == req[w]
     IN IF booked[r.order][r.op] # 0 \/ Priced(r) = 0
        THEN End(w)
        ELSE /\ req' = [req EXCEPT ![w].pc = "tie", ![w].points = Priced(r)]
             /\ UNCHANGED <<tables, rate, locks, sent>>

\* append(): the row enters its unique index.  Who holds the customer's row
\* FOR UPDATE passes the foreign key check at once.
Append(w) ==
  /\ At(w, "tie")
  /\ Blockers(w) = {} /\ ~Lost(w)
  /\ claim' = [claim EXCEPT ![w] = @ \cup Wanted(w)]
  /\ GoTo(w, IF locker[req[w].customer] = w THEN "commit" ELSE "foreign")
  /\ UNCHANGED <<tables, rate, locker, sharers>>

\* A concurrent request inserted the same row: its row is the answer.
AppendLost(w) ==
  /\ At(w, "tie") /\ Lost(w)
  /\ End(w)

Commit(w) ==
  /\ At(w, "commit")
  /\ LET r == req[w]
     IN /\ balance' = [balance EXCEPT ![r.customer] = @ + r.points]
        /\ clawed' = IF r.op = "REFUND_REVERSAL"
                     THEN [clawed EXCEPT ![r.customer] = @ - r.points]
                     ELSE clawed
        /\ booked' = IF r.order = NoOrder THEN booked
                     ELSE [booked EXCEPT ![r.order][TypeOf(r.op)] = @ + r.points]
        /\ owner' = IF r.op = "sale"
                    THEN [owner EXCEPT ![r.order] = r.customer] ELSE owner
        /\ applied' = IF r.key = NoKey THEN applied
                      ELSE [applied EXCEPT ![r.key] = @ + 1]
  /\ index' = index \cup claim[w]
  /\ Release(w)
  /\ req' = [req EXCEPT ![w] = Idle]
  /\ UNCHANGED <<rate, sent>>

\* A request dies where it stands: refused by what is not modelled, timed
\* out, or its process crashed.  Its open transaction is rolled back.
Abort(w) ==
  /\ req[w] # Idle
  /\ End(w)

-----------------------------------------------------------------------------

Arrive(w) ==
  \/ \E c \in Customer, a \in Amount, k \in MaybeKey :
       \/ Redeem(w, c, a, k)
       \/ Adjust(w, c, a, k)
       \/ Adjust(w, c, -a, k)
  \/ \E c \in Customer, o \in Order, a \in Amount \cup {0} : Sale(w, c, o, a)
  \/ \E o \in Order : Earn(w, o) \/ Reverse(w, o) \/ Restore(w, o)

Step(w) ==
  \/ SaleNumber(w) \/ SaleRefused(w) \/ SaleInsert(w) \/ SaleRetry(w)
  \/ Foreign(w) \/ Lock(w) \/ Balance(w) \/ BalanceRefused(w)
  \/ Read(w) \/ Append(w) \/ AppendLost(w) \/ Commit(w)

Next ==
  \/ UpdateSettings
  \/ \E w \in Worker : Arrive(w) \/ Step(w) \/ Abort(w)

Spec == Init /\ [][Next]_vars

\* A statement that need not wait is executed: PostgreSQL wakes who waits for
\* a transaction when it ends.
FairSpec == Spec /\ \A w \in Worker : WF_vars(Step(w))

-----------------------------------------------------------------------------
(* Properties.                                                             *)

\* "No negative balance": only the reversal of a refunded sale may take a
\* balance below zero; any other step that lowers a balance leaves it covered
\* (lockCustomer, balance, append).
SpendingLeavesNoDebt ==
  [][\A c \in Customer :
       balance'[c] < balance[c] /\ clawed'[c] = clawed[c] => balance'[c] >= 0]_vars

\* A sale earns once, and what is reversed or restored is exactly what the
\* sale earned or spent, once, whatever the configuration is by then
\* (earnForOrder, reverseForOrder, restoreRedeemedForOrder).
EffectsHappenOnce ==
  \A o \in Order :
    /\ booked[o]["EARN"] \in Rate \cup {0}
    /\ booked[o]["REFUND_REVERSAL"] \in {0, -booked[o]["EARN"]}
    /\ booked[o]["REDEEM_REVERSAL"] \in {0, -booked[o]["REDEEM"]}

\* A retried redeem or adjust is applied once, even if the retry overlaps the
\* first try or names another customer (replay, the key's unique index).
KeysApplyOnce == \A k \in Key : applied[k] <= 1

\* No transactions wait for each other: an order takes a key-share lock on the
\* customer's row and then asks for FOR UPDATE, and two such orders must not
\* meet (insert, redeemForOrder).
NoWaitCycle ==
  \A W \in (SUBSET Worker) \ {{}} : \E w \in W : Blockers(w) \cap W = {}

\* Every request ends: no transaction waits for ever, no retry goes on for ever.
EveryRequestEnds == \A w \in Worker : req[w] # Idle ~> req[w] = Idle

-----------------------------------------------------------------------------
(* Strengthenings.                                                         *)

\* What is booked has the sign of its type: CHECK loyalty_ledger_points_sign.
SignsAreRight ==
  \A o \in Order : booked[o]["EARN"] >= 0 /\ booked[o]["REDEEM"] <= 0

\* An order whose points are booked, or are being booked, is committed.
RowsAreOwned ==
  /\ \A o \in Order :
       owner[o] = Nobody => booked[o]["EARN"] = 0 /\ booked[o]["REDEEM"] = 0
  /\ \A w \in Worker :
       req[w] # Idle /\ req[w].op \in EntryType => owner[req[w].order] # Nobody

\* Who holds a customer's row FOR UPDATE is alone with it.
LockExcludes ==
  \A c \in Customer :
    locker[c] # Nobody => sharers[c] \subseteq {locker[c]}

\* The requests that debit under the customer's lock.
Spends(r) == \/ r.op \in {"redeem", "adjust"}
             \/ r.op = "sale" /\ r.points # 0

\* A worker past lockCustomer() still holds the row, so that the foreign key
\* check of its ledger row has nothing to wait for.
LockersHold ==
  \A w \in Worker :
    /\ req[w].pc \in {"balance", "tie", "commit"} /\ Spends(req[w])
         => locker[req[w].customer] = w
    /\ At(w, "foreign") => req[w].op \notin {"redeem", "adjust"}

\* A row about to commit has the customer's row locked in some mode.
SharersHold ==
  \A w \in Worker :
    At(w, "commit") =>
      locker[req[w].customer] = w \/ w \in sharers[req[w].customer]

\* The balance a debit was checked against is still there.
DebitsAreCovered ==
  \A w \in Worker :
    req[w].pc \in {"tie", "commit"} /\ Spends(req[w]) => Covered(req[w])

\* An index entry is inserted by one open transaction or is committed.
ClaimsAreExclusive ==
  \A w \in Worker :
    /\ claim[w] \cap index = {}
    /\ \A v \in Worker : v # w => claim[w] \cap claim[v] = {}

\* A key is applied when its entry is in the index, and not before; an open
\* transaction has inserted the key of its own request only.
KeysAreIndexed ==
  /\ \A k \in Key : applied[k] = IF KeyEntry(k) \in index THEN 1 ELSE 0
  /\ \A w \in Worker, k \in Key :
       KeyEntry(k) \in claim[w]
         <=> req[w].pc \in {"foreign", "commit"} /\ req[w].key = k

\* A sale past its insert, where it holds its number.
Past == {"foreign", "lock", "balance", "tie", "commit"}

Selling(w) == req[w].pc \in Past /\ req[w].op = "sale"

\* Row locks are held by those who spend and by sales; a ledger row of an
\* order holds one only to commit.
LocksAreOwn ==
  \A w \in Worker, c \in Customer :
    /\ locker[c] = w => /\ req[w].pc \in {"balance", "tie", "commit"}
                        /\ req[w].op \in {"redeem", "adjust", "sale"}
                        /\ req[w].customer = c
    /\ w \in sharers[c] => At(w, "commit") \/ Selling(w)

\* A ledger row of an order is inserted and not committed.
Booking(w) ==
  \/ req[w].pc \in {"foreign", "commit"} /\ req[w].op \in EntryType
  \/ At(w, "commit") /\ req[w].op = "sale" /\ req[w].points # 0

\* An open transaction has inserted what its own request wants, and nothing else.
ClaimsAreOwn ==
  \A w \in Worker :
    /\ \A e \in claim[w] :
         \/ e = NumberEntry(req[w].number) /\ Selling(w)
         \/ /\ e = TieEntry(req[w].order, TypeOf(req[w].op))
            /\ \/ At(w, "commit")
               \/ At(w, "foreign") /\ ~Spends(req[w])
         \/ \E k \in Key : e = KeyEntry(k)
    /\ Selling(w) => NumberEntry(req[w].number) \in claim[w]
    /\ Booking(w) => TieEntry(req[w].order, TypeOf(req[w].op)) \in claim[w]

\* Committed numbers run on, and a sale's number follows a committed one.
NumbersFollow ==
  /\ \A m \in 1 .. MaxRequests : \A n \in 1 .. m :
       NumberEntry(m) \in index => NumberEntry(n) \in index
  /\ \A w \in Worker :
       At(w, "insert") \/ Selling(w) =>
         /\ req[w].number \in 1 .. MaxRequests
         /\ req[w].number = 1 \/ NumberEntry(req[w].number - 1) \in index

\* What is booked for an order is in the index; what is about to be booked is
\* a rate, or the negative of what it reverses or restores.
BookingsAreRight ==
  /\ \A o \in Order, t \in EntryType :
       booked[o][t] # 0 => TieEntry(o, t) \in index
  /\ \A w \in Worker :
       LET r == req[w] IN
       /\ r.pc \in {"tie", "foreign", "commit"} /\ r.op = "EARN" => r.points \in Rate
       /\ r.pc # "idle" /\ r.op = "REFUND_REVERSAL" =>
            r.points # 0 /\ r.points = -booked[r.order]["EARN"]
       /\ r.pc # "idle" /\ r.op = "REDEEM_REVERSAL" =>
            r.points # 0 /\ r.points = -booked[r.order]["REDEEM"]

=============================================================================
