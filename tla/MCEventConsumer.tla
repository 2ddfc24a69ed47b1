---------------------------- MODULE MCEventConsumer ----------------------------
\* One user is created, ends a booking, is deleted and restored.  Each service
\* gets the events that matter to it, bookings one that does not, and the end is
\* published twice.
EXTENDS EventConsumer

CONSTANT u1

MCEvents == {[id |-> 1, type |-> "created", user |-> u1],
             [id |-> 2, type |-> "ended", user |-> u1],
             [id |-> 3, type |-> "deleted", user |-> u1],
             [id |-> 4, type |-> "restored", user |-> u1]}

Sent(service_, types, emissions) ==
  [to : {service_}, event : {e \in MCEvents : e.type \in types}, emission : emissions]

MCMessages ==
  UNION {Sent("bookings", {"created", "deleted", "restored"}, {1}),
         Sent("journal", {"created", "deleted"}, {1}), Sent("journal", {"ended"}, {1, 2}),
         Sent("event_ledger", {"ended"}, {1, 2})}
================================================================================
