\* Two requests at a time.
SPECIFICATION Spec
CONSTANTS
  Refs = {b1, b2}
  Users = {u1, u2}
  Requests = {r1, r2}
  Slots <- OverlappingSlots
  MaxTime = 1
  MaxWrites = 3
SYMMETRY Symmetry
INVARIANTS
  TypeOK
  OverlapNeedsConcurrency
PROPERTIES
  UsedOrStartedStays
  OwnerKept
CHECK_DEADLOCK FALSE
