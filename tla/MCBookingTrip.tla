----------------------------- MODULE MCBookingTrip -----------------------------
(* Symmetry for model checking BookingTrip. *)
EXTENDS BookingTrip, TLC

Symmetry == Permutations(Requests)
================================================================================
