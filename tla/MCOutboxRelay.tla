----------------------------- MODULE MCOutboxRelay -----------------------------
(* Model values and symmetry for model checking OutboxRelay. *)
EXTENDS OutboxRelay, TLC

Symmetry == Permutations(Events) \cup Permutations(Pollers)
================================================================================
