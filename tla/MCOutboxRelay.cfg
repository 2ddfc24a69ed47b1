\* Two invocations, three events in chunks of two, two failures; no symmetry,
\* because of the liveness properties.
SPECIFICATION FairSpec
CONSTANTS
  Events = {e1, e2, e3}
  Pollers = {p1, p2}
  BatchLimit = 3
  ChunkSize = 2
  MaxAborts = 2
  MaxRefusals = 1
INVARIANTS
  TypeOK
  EmittedWasPublished
  DuplicatesNeedAborts
PROPERTIES
  EmittedIsSettled
  ImplementsAtLeastOnce
  EventuallyEmitted
CHECK_DEADLOCK FALSE
