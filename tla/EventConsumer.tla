----------------------------- MODULE EventConsumer -----------------------------
(***************************************************************************)
(* How bookings, journal and event_ledger take domain events from their    *)
(* SQS queues: as a Lambda, or as the inbox worker with its subscriber.    *)
(*                                                                         *)
(* The queues share nothing, so a behaviour follows one service, chosen in *)
(* Init.  SQS and SNS are external: a queue delivers in any order, again   *)
(* when the visibility timeout runs out before a delete arrives, and gives *)
(* a message up to the dead-letter queue after MaxReceives receives.       *)
(*                                                                         *)
(* A handler's transaction is one step at its commit, except that the      *)
(* UPDATE of a user.deleted event finds its row, or does not, in a step of *)
(* its own: another message's transaction may commit in between.  The      *)
(* unique key of the inbox makes two transactions of one event wait for    *)
(* each other, which leads to the states of the order they commit in.      *)
(***************************************************************************)
EXTENDS Naturals, FiniteSets

CONSTANTS Users,      \* people, by user_ref
          Events,     \* rows of the outboxes of authentication and bookings
          Messages,   \* what SNS puts into the queues of the services
          MaxReceives, \* receives before the dead-letter queue (5 in production)
          MaxMessages  \* bound: messages put into the queue

Services == {"bookings", "journal", "event_ledger"}
Types    == {"created", "deleted", "restored", "ended"}

\* emission numbers the times an event was published: a row whose poll failed
\* after the publish is sent again with a new emitted_at.
ASSUME EventsAssumption == Events \subseteq [id : Nat, type : Types, user : Users]
ASSUME MessagesAssumption ==
  Messages \subseteq [to : Services, event : Events, emission : Nat]
ASSUME BoundsAssumption == MaxReceives \in Nat \ {0} /\ MaxMessages \in Nat

VARIABLES service,  \* the service whose queue this behaviour follows
          queue,    \* queue[m]: where message m is
          receives, \* receives[m]: ApproximateReceiveCount
          jobs,     \* deliveries that a worker or a Lambda is working on
          inbox,    \* inbox[e]: 0, or the number of the commit that took e in
          looked,   \* history: commits before the UPDATE of e's transaction ran
          commits,  \* transactions that changed the inbox
          users,    \* users[u]: the row of u
          journal,  \* journal[e]: rows of booking_ended_events made from e
          ledger,   \* the items of the ledger's table, by key
          failed,   \* the event, if any, that the last step failed with an error
          excused   \* history: receives that no handler could do anything about

vars ==
  <<service, queue, receives, jobs, inbox, looked, commits, users, journal, ledger, failed, excused>>

db == <<inbox, looked, commits, users, journal, ledger>>

\* A delivery: new, with the UPDATE of its transaction behind it, or handled
\* and waiting to be deleted from the queue.
New    == [step : {"new"}, msg : Messages, try : 1..MaxReceives]
Looked == [step : {"looked"}, msg : Messages, try : 1..MaxReceives, row : BOOLEAN, at : Nat]
Done   == [step : {"done"}, msg : Messages, try : 1..MaxReceives]

\* The key of the ledger's table: partition event_id, sort emitted_at.
Key(m) == <<m.event, m.emission>>

TypeOK ==
  /\ service \in Services
  /\ queue \in [Messages -> {"unsent", "visible", "hidden", "gone", "dead"}]
  /\ receives \in [Messages -> 0..MaxReceives]
  /\ jobs \subseteq New \cup Looked \cup Done
  /\ inbox \in [Events -> Nat]
  /\ looked \in [Events -> Nat]
  /\ commits \in Nat
  /\ users \in [Users -> {"unknown", "active", "deleted"}]
  /\ journal \in [Events -> Nat]
  /\ ledger \subseteq Events \X Nat
  /\ failed \subseteq Events
  /\ excused \subseteq Messages \X (1..MaxReceives)

Init ==
  /\ service \in Services
  /\ queue = [m \in Messages |-> "unsent"]
  /\ receives = [m \in Messages |-> 0]
  /\ jobs = {}
  /\ inbox = [e \in Events |-> 0]
  /\ looked = [e \in Events |-> 0]
  /\ commits = 0
  /\ users = [u \in Users |-> "unknown"]
  /\ journal = [e \in Events |-> 0]
  /\ ledger = {}
  /\ failed = {}
  /\ excused = {}

--------------------------------------------------------------------------------
\* Helpers

\* The types a service does something about.
Handles(s) ==
  CASE s = "bookings"     -> {"created", "deleted"}
    [] s = "journal"      -> {"created", "deleted", "ended"}
    [] s = "event_ledger" -> Types

\* The service has taken event e in.
Applied(e) ==
  IF service = "event_ledger" THEN \E k \in ledger : k[1] = e ELSE inbox[e] > 0

Delivered(m) == m.to = service

\* A handler is done with the delivery j.
Handled(j) ==
  /\ jobs' = (jobs \ {j}) \cup {[step |-> "done", msg |-> j.msg, try |-> j.try]}
  /\ failed' = {}
  /\ UNCHANGED excused

\* It is done without having changed a row.
Skip(j) == Handled(j) /\ UNCHANGED db

\* The end of a booking of a user the service has not heard of.
TooEarly(e) == e.type = "ended" /\ users[e.user] = "unknown"

\* It rolls back and returns an error: the message stays in the queue.
Fail(j) ==
  /\ jobs' = jobs \ {j}
  /\ failed' = {j.msg.event}
  /\ excused' = IF TooEarly(j.msg.event) THEN excused \cup {<<j.msg, j.try>>} ELSE excused
  /\ UNCHANGED db

\* A transaction that puts event e into the inbox commits.
TakeIn(e) ==
  /\ commits' = commits + 1
  /\ inbox' = [inbox EXCEPT ![e] = commits + 1]

--------------------------------------------------------------------------------
\* SNS and SQS

\* SNS puts a message into the queue, in no order.
Publish(m) ==
  /\ Delivered(m) /\ queue[m] = "unsent"
  /\ Cardinality({n \in Messages : queue[n] # "unsent"}) < MaxMessages
  /\ queue' = [queue EXCEPT ![m] = "visible"]
  /\ failed' = {}
  /\ UNCHANGED <<service, receives, jobs, db, excused>>

\* Mutant of Receive: no maxReceiveCount.
ReceiveAgain(m) ==
  /\ queue[m] = "visible"
  /\ queue' = [queue EXCEPT ![m] = "hidden"]
  /\ receives' = [receives EXCEPT ![m] = @ + 1]
  /\ jobs' = jobs \cup {[step |-> "new", msg |-> m, try |-> receives[m] + 1]}
  /\ failed' = {}
  /\ UNCHANGED <<service, db, excused>>

\* A poll or an invocation takes a message, which hides it from the others.
Receive(m) ==
  /\ queue[m] = "visible" /\ receives[m] < MaxReceives
  /\ queue' = [queue EXCEPT ![m] = "hidden"]
  /\ receives' = [receives EXCEPT ![m] = @ + 1]
  /\ jobs' = jobs \cup {[step |-> "new", msg |-> m, try |-> receives[m] + 1]}
  /\ failed' = {}
  /\ UNCHANGED <<service, db, excused>>

\* The visibility timeout runs out, whatever its worker is doing.
Reappear(m) ==
  /\ queue[m] = "hidden"
  /\ queue' = [queue EXCEPT ![m] = "visible"]
  /\ failed' = {}
  /\ UNCHANGED <<service, receives, jobs, db, excused>>

\* A message received too often goes to the dead-letter queue.
Redrive(m) ==
  /\ queue[m] = "visible" /\ receives[m] = MaxReceives
  /\ queue' = [queue EXCEPT ![m] = "dead"]
  /\ failed' = {}
  /\ UNCHANGED <<service, receives, jobs, db, excused>>

\* DeleteMessages, or a Lambda's answer without the item: SQS may take a
\* receipt that is not the latest, and never one of a dead message.
Acknowledge(j) ==
  /\ j.step = "done"
  /\ jobs' = jobs \ {j}
  /\ failed' = {}
  /\ \/ queue[j.msg] # "dead" /\ queue' = [queue EXCEPT ![j.msg] = "gone"]
     \/ (queue[j.msg] = "dead" \/ j.try < receives[j.msg]) /\ UNCHANGED queue
  /\ UNCHANGED <<service, receives, db, excused>>

\* A delivery comes to nothing: Stop drops the batch, the context expires, the
\* database fails or the process dies, and an open transaction rolls back; or
\* the delete is lost, an error that deleteBatch swallows.
Lose(j) ==
  /\ jobs' = jobs \ {j}
  /\ failed' = {}
  /\ excused' = IF j.step = "done" THEN excused ELSE excused \cup {<<j.msg, j.try>>}
  /\ UNCHANGED <<service, queue, receives, db>>

--------------------------------------------------------------------------------
\* The handlers

\* Mutant of Ignore: the Lambda's default swallows the handled types too.
IgnoreAll(j) ==
  /\ j.step = "new"
  /\ Skip(j)

\* A type the service has no handler for: the Lambda acknowledges the message,
\* the worker leaves it in the queue.
Ignore(j) ==
  /\ j.step = "new" /\ j.msg.event.type \notin Handles(service)
  /\ \/ Skip(j)
     \/ jobs' = jobs \ {j} /\ failed' = {} /\ UNCHANGED <<db, excused>>

\* INSERT of a user, ON CONFLICT DO NOTHING.
InsertUser(u) == users' = [users EXCEPT ![u] = IF @ = "unknown" THEN "active" ELSE @]

\* Mutant of AddUser: the row that is there is set to active.
AddUserRevives(j) ==
  LET e == j.msg.event IN
  /\ service = "bookings" /\ j.step = "new" /\ e.type = "created"
  /\ users' = [users EXCEPT ![e.user] = "active"]
  /\ \/ inbox[e] = 0 /\ TakeIn(e)
     \/ inbox[e] > 0 /\ UNCHANGED <<commits, inbox>>
  /\ UNCHANGED <<looked, journal, ledger>>
  /\ Handled(j)

\* user.created.  bookings inserts the user whether or not the inbox has the
\* event, the journal does not.
AddUser(j) ==
  LET e == j.msg.event IN
  /\ service = "bookings" /\ j.step = "new" /\ e.type = "created"
  /\ InsertUser(e.user)
  /\ \/ inbox[e] = 0 /\ TakeIn(e)
     \/ inbox[e] > 0 /\ UNCHANGED <<commits, inbox>>
  /\ UNCHANGED <<looked, journal, ledger>>
  /\ Handled(j)

SaveUserCreated(j) ==
  LET e == j.msg.event IN
  /\ service = "journal" /\ j.step = "new" /\ e.type = "created"
  /\ \/ inbox[e] > 0 /\ Skip(j)
     \/ /\ inbox[e] = 0
        /\ InsertUser(e.user)
        /\ TakeIn(e)
        /\ UNCHANGED <<looked, journal, ledger>>
        /\ Handled(j)

\* user.deleted, the UPDATE: it finds a user that has not been deleted, or none,
\* and locks what it finds until the commit.
LookForUser(j) ==
  LET e == j.msg.event IN
  /\ service \in {"bookings", "journal"} /\ j.step = "new" /\ e.type = "deleted"
  /\ jobs' = (jobs \ {j}) \cup {[step |-> "looked", msg |-> j.msg, try |-> j.try,
                                 row |-> users[e.user] = "active", at |-> commits]}
  /\ failed' = {}
  /\ UNCHANGED <<db, excused>>

\* Mutant of CommitDelete: the UPDATE is not part of the transaction.
CommitDeleteAlone(j) ==
  LET e == j.msg.event IN
  /\ looked' = [looked EXCEPT ![e] = j.at]
  /\ TakeIn(e)
  /\ UNCHANGED <<users, journal, ledger>>
  /\ Handled(j)

\* user.deleted, the commit of what the UPDATE did.
CommitDelete(j) ==
  LET e == j.msg.event IN
  /\ users' = IF j.row THEN [users EXCEPT ![e.user] = "deleted"] ELSE users
  /\ looked' = [looked EXCEPT ![e] = j.at]
  /\ TakeIn(e)
  /\ UNCHANGED <<journal, ledger>>
  /\ Handled(j)

\* bookings inserts into the inbox last and without ON CONFLICT: an event that
\* is there already violates its unique key.
DeleteUser(j) ==
  /\ service = "bookings" /\ j.step = "looked"
  /\ \/ inbox[j.msg.event] = 0 /\ CommitDelete(j)
     \/ inbox[j.msg.event] > 0 /\ Fail(j)

\* Mutant of SaveUserDeleted: an UPDATE that finds no row is an error.
SaveUserDeletedStrict(j) ==
  /\ service = "journal" /\ j.step = "looked"
  /\ \/ inbox[j.msg.event] = 0 /\ j.row /\ CommitDelete(j)
     \/ inbox[j.msg.event] = 0 /\ ~j.row /\ Fail(j)
     \/ inbox[j.msg.event] > 0 /\ Skip(j)

\* The journal inserts into the inbox first and leaves a known event alone.
SaveUserDeleted(j) ==
  /\ service = "journal" /\ j.step = "looked"
  /\ \/ inbox[j.msg.event] = 0 /\ CommitDelete(j)
     \/ inbox[j.msg.event] > 0 /\ Skip(j)

\* Mutant of SaveBookingEnded: the inbox is not asked.
SaveBookingEndedAgain(j) ==
  LET e == j.msg.event IN
  /\ service = "journal" /\ j.step = "new" /\ e.type = "ended"
  /\ \/ users[e.user] = "unknown" /\ Fail(j)
     \/ /\ users[e.user] # "unknown"
        /\ journal' = [journal EXCEPT ![e] = @ + 1]
        /\ TakeIn(e)
        /\ UNCHANGED <<looked, users, ledger>>
        /\ Handled(j)

\* booking.ended: a row for a user the journal knows, deleted or not.
SaveBookingEnded(j) ==
  LET e == j.msg.event IN
  /\ service = "journal" /\ j.step = "new" /\ e.type = "ended"
  /\ \/ inbox[e] > 0 /\ Skip(j)
     \/ inbox[e] = 0 /\ users[e.user] = "unknown" /\ Fail(j)
     \/ /\ inbox[e] = 0 /\ users[e.user] # "unknown"
        /\ journal' = [journal EXCEPT ![e] = @ + 1]
        /\ TakeIn(e)
        /\ UNCHANGED <<looked, users, ledger>>
        /\ Handled(j)

\* Every event, by PutItem on a key that must not be there yet.
SaveEvent(j) ==
  /\ service = "event_ledger" /\ j.step = "new"
  /\ ledger' = ledger \cup {Key(j.msg)}
  /\ UNCHANGED <<inbox, looked, commits, users, journal>>
  /\ Handled(j)

Handle(j) ==
  /\ \/ Ignore(j) \/ AddUser(j) \/ SaveUserCreated(j) \/ LookForUser(j) \/ DeleteUser(j)
     \/ SaveUserDeleted(j) \/ SaveBookingEnded(j) \/ SaveEvent(j)
  /\ UNCHANGED <<service, queue, receives>>

Next ==
  \/ \E m \in Messages : Publish(m) \/ Receive(m) \/ Reappear(m) \/ Redrive(m)
  \/ \E j \in jobs : Handle(j) \/ Acknowledge(j) \/ Lose(j)

Spec == Init /\ [][Next]_vars

--------------------------------------------------------------------------------
\* Properties

\* A message of a type the service handles leaves its queue by a delete only
\* when the service has taken its event in: ProcessMessages collects what it
\* deletes, the Lambdas report what failed.
AckedIsApplied ==
  \A m \in Messages :
    queue[m] = "gone" /\ m.event.type \in Handles(service) => Applied(m.event)

\* However often booking.ended is delivered, to however many workers at once,
\* the journal has one row for an event it has taken in and none for another.
JournalOncePerEnd ==
  \A e \in Events :
    journal[e] = IF service = "journal" /\ e.type = "ended" /\ inbox[e] > 0 THEN 1 ELSE 0

\* No message order and no redelivery brings a deleted user back.
DeletedStaysDeleted ==
  [][\A u \in Users : users[u] = "deleted" => users'[u] = "deleted"]_vars

\* A user whose deletion was taken in is active only if the UPDATE of each of
\* its deletions ran before the transaction of a creation had committed: messages
\* out of order, or handled at the same time.
ZombieNeedsReordering ==
  \A d \in Events :
    d.type = "deleted" /\ inbox[d] > 0 /\ users[d.user] = "active" =>
      \E c \in Events : c.type = "created" /\ c.user = d.user /\ inbox[c] > looked[d]

\* The dead-letter queue takes nothing that a handler could have taken in.  Of a
\* message that is there although its event is not in the service, each receive is
\* still being worked on, was lost with its worker or its database, or brought the
\* end of a booking before its user was known, which is an error
\* (events.go:140-144 of the journal); no other error of a handler loses an event.
LossNeedsCause ==
  \A m \in Messages :
    queue[m] = "dead" /\ m.event.type \in Handles(service) /\ ~Applied(m.event) =>
      \A n \in 1..MaxReceives :
        <<m, n>> \in excused \/ \E j \in jobs : j.msg = m /\ j.try = n

\* What the README of the broker says of its consumers: they are idempotent.  A
\* handler does not fail because its service has taken the event in already.
\* (Violated: DeleteUser of bookings.)
ConsumersIdempotent ==
  \A e \in failed : ~Applied(e)

================================================================================
