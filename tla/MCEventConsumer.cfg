CONSTANTS
  u1 = u1
  Users = {u1}
  Events <- MCEvents
  Messages <- MCMessages
  MaxReceives = 2
  MaxMessages = 2
SPECIFICATION Spec
INVARIANTS TypeOK AckedIsApplied JournalOncePerEnd ZombieNeedsReordering LossNeedsCause
PROPERTIES DeletedStaysDeleted
CHECK_DEADLOCK FALSE
