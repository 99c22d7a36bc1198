------------------------------- MODULE MCTill -------------------------------
(* An instance of Till for TLC: two carts of different prices. *)
EXTENDS Till, TLC

CONSTANTS tea, thali

MCPrice == (tea :> 1) @@ (thali :> 2)

Lanes == Permutations(Call)
=============================================================================
