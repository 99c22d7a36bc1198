------------------------------ MODULE MCStaff ------------------------------
(* Instances of Staff for TLC. *)
EXTENDS Staff, TLC

Crew == Permutations(Worker)
=============================================================================
