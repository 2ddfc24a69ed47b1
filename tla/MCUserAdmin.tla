------------------------------ MODULE MCUserAdmin ------------------------------
(* Symmetry for model checking UserAdmin: people who are not founders, and    *)
(* requests, are interchangeable.                                             *)
EXTENDS UserAdmin, TLC

Symmetry == Permutations(Requests) \cup Permutations(Founders) \cup Permutations(Users \ Founders)
================================================================================
