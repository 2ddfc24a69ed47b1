-------------------------------- MODULE MCLogin --------------------------------
(* Model values and symmetry for model checking Login. *)
EXTENDS Login, TLC

Symmetry == Permutations(Calls) \cup Permutations(Sessions) \cup Permutations(Keys) \cup Permutations(Codes)
================================================================================
