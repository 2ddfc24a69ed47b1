------------------------------ MODULE AtLeastOnce ------------------------------
(***************************************************************************)
(* What the transactional outbox promises its users, whichever relay       *)
(* empties it: a recorded event reaches the topic at least once, nothing   *)
(* reaches the topic that was not recorded, and an event is settled only   *)
(* after a copy of it is on the topic.  Copies may repeat.                 *)
(***************************************************************************)
EXTENDS Naturals

CONSTANT Events   \* the events a service may record

VARIABLES record, \* record[e]: "absent", "new" (emitted_at IS NULL) or "emitted"
          copies  \* copies[e]: how many copies of e the topic has accepted

vars == <<record, copies>>

Init ==
  /\ record = [e \in Events |-> "absent"]
  /\ copies = [e \in Events |-> 0]

\* The service's own transaction commits together with its outbox row.
Record(e) ==
  /\ record[e] = "absent"
  /\ record' = [record EXCEPT ![e] = "new"]
  /\ UNCHANGED copies

\* The topic accepts one more copy of every event of S.
Deliver(S) ==
  /\ \A e \in S : record[e] # "absent"
  /\ copies' = [e \in Events |-> copies[e] + (IF e \in S THEN 1 ELSE 0)]
  /\ UNCHANGED record

\* Events known to be on the topic are marked, and never looked at again.
Settle(S) ==
  /\ \A e \in S : record[e] = "new" /\ copies[e] >= 1
  /\ record' = [e \in Events |-> IF e \in S THEN "emitted" ELSE record[e]]
  /\ UNCHANGED copies

Next ==
  \/ \E e \in Events : Record(e)
  \/ \E S \in SUBSET Events : Deliver(S) \/ Settle(S)

Spec == Init /\ [][Next]_vars
================================================================================
