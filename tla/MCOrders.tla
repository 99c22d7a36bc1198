------------------------------ MODULE MCOrders ------------------------------
(* Instances of Orders for TLC. *)
EXTENDS Orders, TLC

Single == [products |-> 1, combos |-> 0]
Combo  == [products |-> 0, combos |-> 1]

\* An unpaid walk-in sale of one product; the others differ in what they name.
Plain == [hold |-> FALSE, paid |-> FALSE, redeem |-> FALSE, member |-> FALSE,
          total |-> 2, basket |-> Single, key |-> NoKey]

Held   == [Plain EXCEPT !.hold = TRUE]
Member == [Plain EXCEPT !.member = TRUE]
Paid   == [Member EXCEPT !.paid = TRUE, !.redeem = TRUE]
Free   == [Paid EXCEPT !.total = 0]
Meal   == [Held EXCEPT !.basket = Combo]

With(d, k) == [d EXCEPT !.key = k]

Lifecycles == {Held, Member, Paid}
Mixed      == {Held, Member, Paid, Meal}

\* ... and sales whose requests a till may send again with their key.
Desk == Lifecycles \cup {With(d, k) : d \in {Plain, Paid, Free}, k \in Key}

Symmetry == Permutations(Worker) \cup Permutations(Order)
=============================================================================
