-------------------------------- MODULE Sale --------------------------------
(***************************************************************************)
(* What an order promises, whoever handles it: its status only moves       *)
(* forward and an ending is final; the timeline is the chain of its moves; *)
(* the till never takes more than the total, nor hands back more than it   *)
(* took; a sale takes from the shelf at most what its lines call for, when *)
(* it is placed, and gives back what it took when it is reversed.          *)
(***************************************************************************)
EXTENDS Integers, Sequences

CONSTANT Order

\* How far along an order is.  A held order has not been placed yet.
Rank == [DRAFT |-> 0, PLACED |-> 1, PREPARING |-> 2, READY |-> 3,
         COMPLETED |-> 4, CANCELLED |-> 4, VOIDED |-> 4]

SaleStatus == DOMAIN Rank

Endings == {s \in SaleStatus : Rank[s] = 4}

Reversals == {"VOIDED", "CANCELLED"}

VARIABLES
  status,    \* per order, its place in the lifecycle, or ABSENT
  story,     \* per order, its moves so far
  total,     \* per order, what it comes to
  taken,     \* per order, money received
  given,     \* per order, money handed back
  demand,    \* per order, stock its lines call for
  consumed,  \* per order, stock it took from the shelf
  restored   \* per order, stock it put back

money == <<total, taken, given>>
shelf == <<demand, consumed, restored>>
saleVars == <<status, story, money, shelf>>

SaleInit ==
  /\ status = [o \in Order |-> "ABSENT"]
  /\ story = [o \in Order |-> <<>>]
  /\ \A f \in {total, taken, given, demand, consumed, restored} :
       f = [o \in Order |-> 0]

\* f changes at o only.
OnlyAt(o, f, g) == g = [f EXCEPT ![o] = g[o]]

\* The status changes, and the timeline says so.
Step(o) ==
  /\ OnlyAt(o, status, status')
  /\ story' = [story EXCEPT ![o] = Append(@, [from |-> status[o], to |-> status'[o]])]

\* Placed, an order takes no more than its lines call for.
Take(o) == OnlyAt(o, consumed, consumed') /\ consumed'[o] <= demand'[o]

\* An order opens held or placed, and unpaid or paid in full.
Open(o) ==
  /\ status[o] = "ABSENT" /\ status'[o] \in {"DRAFT", "PLACED"}
  /\ Step(o)
  /\ OnlyAt(o, total, total') /\ OnlyAt(o, demand, demand')
  /\ OnlyAt(o, taken, taken') /\ taken'[o] \in {0, total'[o]}
  /\ IF status'[o] = "PLACED" THEN Take(o) ELSE UNCHANGED <<taken, consumed>>
  /\ UNCHANGED <<given, restored>>

\* Only a held order that is placed consumes; only a reversal restores.
Move(o) ==
  /\ status[o] \in SaleStatus /\ status'[o] \in SaleStatus
  /\ Rank[status[o]] < Rank[status'[o]]
  /\ Step(o)
  /\ IF status[o] = "DRAFT" /\ status'[o] = "PLACED" THEN Take(o) ELSE UNCHANGED consumed
  /\ restored' = IF status'[o] \in Reversals
                 THEN [restored EXCEPT ![o] = consumed[o]] ELSE restored
  /\ UNCHANGED <<money, demand>>

Receive(o) ==
  /\ status[o] \in SaleStatus \ Reversals
  /\ taken'[o] > taken[o] /\ taken'[o] <= total[o]
  /\ OnlyAt(o, taken, taken')
  /\ UNCHANGED <<status, story, total, given, shelf>>

HandBack(o) ==
  /\ status[o] \in Endings
  /\ given'[o] > given[o] /\ given'[o] <= taken[o]
  /\ OnlyAt(o, given, given')
  /\ UNCHANGED <<status, story, total, taken, shelf>>

SaleNext == \E o \in Order : Open(o) \/ Move(o) \/ Receive(o) \/ HandBack(o)

SaleSpec == SaleInit /\ [][SaleNext]_saleVars

=============================================================================
