--------------------------- MODULE MCReplicationRelay ---------------------------
(* Model values and symmetry for model checking ReplicationRelay. *)
EXTENDS ReplicationRelay, TLC

Symmetry == Permutations(Instances)
================================================================================
