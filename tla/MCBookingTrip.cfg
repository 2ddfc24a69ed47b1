\* Three requests at a time.
SPECIFICATION Spec
CONSTANTS
  Requests = {r1, r2, r3}
  MaxPauses = 4
  MaxEnds = 1
  MaxPoints = 2
  MaxUpload = 2
SYMMETRY Symmetry
INVARIANTS
  TypeOK
  OpenPausesRaced
  NoOrphans
  AcceptedPointsStored
CHECK_DEADLOCK FALSE
