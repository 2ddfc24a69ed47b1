\* Two requests at a time, two founders and one more.
SPECIFICATION Spec
CONSTANTS
  Users = {ann, bob, cay}
  Founders = {ann, bob}
  Requests = {r1, r2}
  MaxChanges = 4
SYMMETRY Symmetry
INVARIANTS
  TypeOK
  NoAdminNeedsRace
  EventsTellState
CHECK_DEADLOCK FALSE
