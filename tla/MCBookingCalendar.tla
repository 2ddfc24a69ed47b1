--------------------------- MODULE MCBookingCalendar ---------------------------
(* Values for model checking BookingCalendar. *)
EXTENDS BookingCalendar, TLC

\* Two slots that overlap, the later one not yet started at time 0.
OverlappingSlots == {[from |-> 0, to |-> 2], [from |-> 1, to |-> 2]}

\* The same, a slot that only touches another, and one that ends before it
\* starts, which the service accepts.
AllSlots == OverlappingSlots \cup {[from |-> 0, to |-> 1], [from |-> 2, to |-> 1]}

Symmetry == Permutations(Requests) \cup Permutations(Users)
================================================================================
