\* Two instances, an event of a small and one of a streamed transaction, two
\* faults and one batch refused in part.
SPECIFICATION FairSpec
CONSTANTS
  Events = {e1, e2}
  Large = {e2}
  Instances = {i1, i2}
  MaxFaults = 2
  MaxRefusals = 1
INVARIANTS
  TypeOK
  SkippedHasCause
  DuplicatesNeedFaults
PROPERTIES
  ImplementsAtLeastOnce
  NextCommitRescues
  RefusedIsRetried
CHECK_DEADLOCK FALSE
