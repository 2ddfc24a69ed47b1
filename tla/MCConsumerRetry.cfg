CONSTANTS
  u1 = u1
  Users = {u1}
  Events <- MCEvents
  Messages <- MCMessages
  MaxReceives = 2
  MaxMessages = 2
SPECIFICATION Spec
INVARIANTS ConsumersIdempotent
CHECK_DEADLOCK FALSE
