------------------------------ MODULE MCStock ------------------------------
(* Instances of Stock for TLC: flour is bought, dough is made of it.       *)
EXTENDS Stock, TLC

CONSTANTS flour, dough

\* One unit of the product takes one of dough, with one of flour or without.
MCRecipe == {[i \in Item |-> IF i = dough THEN 1 ELSE 0], [i \in Item |-> 1]}

MCOneRecipe == {[i \in Item |-> 1]}

\* Three of flour make two of dough.
MCOneFormula ==
  {[yield |-> 2, needs |-> [i \in Item |-> IF i = flour THEN 3 ELSE 0]]}

\* Or one makes one.
MCFormula == MCOneFormula \cup
  {[yield |-> 1, needs |-> [i \in Item |-> IF i = flour THEN 1 ELSE 0]]}

\* Enough flour for two of dough, and some.
MCOpening == [i \in Item |-> IF i = flour THEN 4 ELSE 0]

\* Less flour than the ledger says, with dough counted or not.
MCTally == {[i \in Item |-> IF i = flour THEN 2 ELSE -1],
            [i \in Item |-> IF i = flour THEN 2 ELSE 1]}

MCLines == {[i \in Item |-> IF i = flour THEN 3 ELSE 0]}

Crew == Permutations(Worker)
=============================================================================
