\* Two requests at a time.
SPECIFICATION Spec
CONSTANTS
  Refs = {b1, b2}
  Users = {u1}
  Requests = {r1, r2}
  Slots <- OverlappingSlots
  MaxTime = 1
  MaxWrites = 2
INVARIANTS
  NoDoubleBooking
CHECK_DEADLOCK FALSE
