------------------------------ MODULE MCKitchen ------------------------------
(* An instance of Kitchen for TLC. *)
EXTENDS Kitchen

\* The lifecycle of order-status.ts without PREPARING, READY and CANCELLED:
\* the board has no column for them, as it has none for VOIDED.
Lifecycles ==
  [DRAFT     |-> {"PLACED"},
   PLACED    |-> {"COMPLETED", "VOIDED"},
   COMPLETED |-> {},
   VOIDED    |-> {}]
=============================================================================
