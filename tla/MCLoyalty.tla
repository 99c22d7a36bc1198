----------------------------- MODULE MCLoyalty -----------------------------
(* Instances of Loyalty for TLC. *)
EXTENDS Loyalty, TLC

Crew == Permutations(Worker)
=============================================================================
