----------------------------- MODULE MCLedgerQuery -----------------------------
(* Model checking LedgerQuery. *)
EXTENDS LedgerQuery
================================================================================
