------------------------- MODULE EventConsumer_proofs -------------------------
(***************************************************************************)
(* Theorems about the event consumers, for any events, messages and number *)
(* of receives.  The inductive invariant comes first, then what every step *)
(* does to the projections, then one theorem per property.                 *)
(***************************************************************************)
EXTENDS EventConsumer, TLAPS

--------------------------------------------------------------------------------
\* The inductive invariant

\* Commits are numbered forward.
ClockInv ==
  /\ \A e \in Events : inbox[e] <= commits /\ looked[e] <= commits
  /\ \A j \in jobs : j.step = "looked" => j.at <= commits

\* A delivery that is ready to be deleted was taken in, or nobody handles it.
DoneInv ==
  \A j \in jobs :
    j.step = "done" /\ j.msg.event.type \in Handles(service) => Applied(j.msg.event)

\* A creation that was taken in left a row.
KnownInv ==
  \A c \in Events : c.type = "created" /\ inbox[c] > 0 => users[c.user] # "unknown"

\* Some creation of user u was taken in after commit n.
CreatedAfter(u, n) == \E c \in Events : c.type = "created" /\ c.user = u /\ inbox[c] > n

\* The same in the next state, for a number that is not of the next state.
CreatedAfterNext(u, n) == \E c \in Events : c.type = "created" /\ c.user = u /\ inbox'[c] > n

\* An UPDATE that found no row is overtaken when its user turns active.
LookInv ==
  \A j \in jobs :
    j.step = "looked" /\ ~j.row /\ users[j.msg.event.user] = "active" =>
      CreatedAfter(j.msg.event.user, j.at)

\* What the last one becomes when the transaction commits.
ZombieInv ==
  \A d \in Events :
    d.type = "deleted" /\ inbox[d] > 0 /\ users[d.user] = "active" =>
      CreatedAfter(d.user, looked[d])

\* Only a user.deleted event has an UPDATE to run.
DeleteInv == \A j \in jobs : j.step = "looked" => j.msg.event.type = "deleted"

IInv ==
  TypeOK /\ ClockInv /\ DoneInv /\ AckedIsApplied /\ KnownInv /\ LookInv /\ ZombieInv /\ DeleteInv

--------------------------------------------------------------------------------
\* Types

LEMMA MessageType ==
  ASSUME NEW m \in Messages
  PROVE  /\ m.to \in Services /\ m.event \in Events /\ m.emission \in Nat
         /\ m.event.type \in Types /\ m.event.user \in Users
BY MessagesAssumption, EventsAssumption

LEMMA JobType ==
  ASSUME TypeOK, NEW j \in jobs
  PROVE  /\ j.msg \in Messages /\ j.try \in 1..MaxReceives
         /\ j.step \in {"new", "looked", "done"}
         /\ j.step = "looked" => j.row \in BOOLEAN /\ j.at \in Nat
         /\ [step |-> "done", msg |-> j.msg, try |-> j.try] \in Done
BY DEF TypeOK, New, Looked, Done

\* What the ends of a handler do to the deliveries.
LEMMA HandledType ==
  ASSUME TypeOK, NEW j \in jobs, Handled(j)
  PROVE  /\ jobs' \subseteq New \cup Looked \cup Done /\ failed' \subseteq Events
         /\ excused' \subseteq Messages \X (1..MaxReceives)
BY JobType DEF Handled, TypeOK

\* What a commit does to the inbox.
LEMMA TakeInType ==
  ASSUME TypeOK, NEW e \in Events, TakeIn(e)
  PROVE  inbox' \in [Events -> Nat] /\ commits' \in Nat
BY DEF TakeIn, TypeOK

LEMMA SkipType ==
  ASSUME TypeOK, NEW j \in jobs, Skip(j), UNCHANGED <<service, queue, receives>>
  PROVE  TypeOK'
BY HandledType DEF Skip, TypeOK, db

LEMMA FailType ==
  ASSUME TypeOK, NEW j \in jobs, Fail(j), UNCHANGED <<service, queue, receives>>
  PROVE  TypeOK'
<1>1. j.msg.event \in Events /\ <<j.msg, j.try>> \in Messages \X (1..MaxReceives)
  BY JobType, MessageType
<1>2. excused' \subseteq Messages \X (1..MaxReceives)
  BY <1>1 DEF Fail, TypeOK
<1>3. QED
  BY <1>1, <1>2 DEF Fail, TypeOK, db

LEMMA CommitDeleteType ==
  ASSUME TypeOK, NEW j \in jobs, j.step = "looked", CommitDelete(j),
         UNCHANGED <<service, queue, receives>>
  PROVE  TypeOK'
<1>1. j.msg.event \in Events /\ j.msg.event.user \in Users /\ j.at \in Nat
  BY JobType, MessageType
<1>2. TakeIn(j.msg.event) /\ Handled(j)
  BY DEF CommitDelete
<1>3. looked' \in [Events -> Nat] /\ users' \in [Users -> {"unknown", "active", "deleted"}]
  BY <1>1 DEF CommitDelete, TypeOK
<1> QED
  BY <1>1, <1>2, <1>3, HandledType, TakeInType DEF CommitDelete, TypeOK

LEMMA TypeStep == TypeOK /\ [Next]_vars => TypeOK'
<1> SUFFICES ASSUME TypeOK, [Next]_vars PROVE TypeOK'
  OBVIOUS
<1>1. ASSUME NEW m \in Messages, Publish(m) PROVE TypeOK'
  BY <1>1 DEF Publish, TypeOK, db
<1>2. ASSUME NEW m \in Messages, Receive(m) PROVE TypeOK'
  <2>1. receives[m] + 1 \in 1..MaxReceives
    BY <1>2, BoundsAssumption DEF Receive, TypeOK
  <2>2. [step |-> "new", msg |-> m, try |-> receives[m] + 1] \in New
    BY <2>1 DEF New
  <2>3. jobs' \subseteq New \cup Looked \cup Done
    BY <1>2, <2>2 DEF Receive, TypeOK
  <2>4. receives' \in [Messages -> 0..MaxReceives]
    BY <1>2, <2>1, BoundsAssumption DEF Receive, TypeOK
  <2> QED
    BY <1>2, <2>3, <2>4 DEF Receive, TypeOK, db
<1>3. ASSUME NEW m \in Messages, Reappear(m) PROVE TypeOK'
  BY <1>3 DEF Reappear, TypeOK, db
<1>4. ASSUME NEW m \in Messages, Redrive(m) PROVE TypeOK'
  BY <1>4 DEF Redrive, TypeOK, db
<1>5. ASSUME NEW j \in jobs, Acknowledge(j) PROVE TypeOK'
  BY <1>5 DEF Acknowledge, TypeOK, db
<1>6. ASSUME NEW j \in jobs, Lose(j) PROVE TypeOK'
  <2>1. <<j.msg, j.try>> \in Messages \X (1..MaxReceives)
    BY JobType
  <2>2. excused' \subseteq Messages \X (1..MaxReceives)
    BY <1>6, <2>1 DEF Lose, TypeOK
  <2>3. QED
    BY <1>6, <2>2 DEF Lose, TypeOK, db
<1>7. ASSUME NEW j \in jobs, Handle(j) PROVE TypeOK'
  <2> UNCHANGED <<service, queue, receives>>
    BY <1>7 DEF Handle
  <2> DEFINE e == j.msg.event
  <2>0. j.msg \in Messages /\ e \in Events /\ e.user \in Users
    BY JobType, MessageType
  <2>1. CASE Ignore(j)
    <3>1. CASE Skip(j)
      BY <3>1, SkipType
    <3>2. CASE ~Skip(j)
      BY <2>1, <3>2 DEF Ignore, TypeOK, db
    <3> QED
      BY <3>1, <3>2
  <2>2. CASE AddUser(j)
    <3>1. users' \in [Users -> {"unknown", "active", "deleted"}]
      BY <2>0, <2>2 DEF AddUser, InsertUser, TypeOK
    <3>2. inbox' \in [Events -> Nat] /\ commits' \in Nat
      BY <2>0, <2>2, TakeInType DEF AddUser, InsertUser, TypeOK
    <3>3. Handled(j)
      BY <2>2 DEF AddUser, InsertUser
    <3> QED
      BY <2>2, <3>1, <3>2, <3>3, HandledType DEF AddUser, InsertUser, TypeOK
  <2>3. CASE SaveUserCreated(j)
    <3>1. CASE Skip(j)
      BY <3>1, SkipType
    <3>2. CASE ~Skip(j)
      <4>1. users' \in [Users -> {"unknown", "active", "deleted"}]
        BY <2>0, <2>3, <3>2 DEF SaveUserCreated, InsertUser, TypeOK
      <4>2. TakeIn(e) /\ Handled(j) /\ UNCHANGED <<looked, journal, ledger>>
        BY <2>3, <3>2 DEF SaveUserCreated, InsertUser
      <4> QED
        BY <2>0, <4>1, <4>2, HandledType, TakeInType DEF TypeOK
    <3> QED
      BY <3>1, <3>2
  <2>4. CASE LookForUser(j)
    <3> DEFINE d == [step |-> "looked", msg |-> j.msg, try |-> j.try,
                     row |-> users[e.user] = "active", at |-> commits]
    <3>1. d \in Looked
      BY <2>0, JobType DEF Looked, TypeOK
    <3>2. jobs' = (jobs \ {j}) \cup {d} /\ failed' = {} /\ UNCHANGED <<db, excused>>
      BY <2>4 DEF LookForUser
    <3> HIDE DEF d
    <3> QED
      BY <3>1, <3>2 DEF TypeOK, db
  <2>5. CASE DeleteUser(j)
    BY <2>5, CommitDeleteType, FailType DEF DeleteUser
  <2>6. CASE SaveUserDeleted(j)
    BY <2>6, CommitDeleteType, SkipType DEF SaveUserDeleted
  <2>7. CASE SaveBookingEnded(j)
    <3>1. CASE Skip(j) \/ Fail(j)
      BY <3>1, SkipType, FailType
    <3>2. CASE ~Skip(j) /\ ~Fail(j)
      <4>1. journal' \in [Events -> Nat]
        BY <2>0, <2>7, <3>2 DEF SaveBookingEnded, TypeOK
      <4>2. TakeIn(e) /\ Handled(j) /\ UNCHANGED <<looked, users, ledger>>
        BY <2>7, <3>2 DEF SaveBookingEnded
      <4> QED
        BY <2>0, <4>1, <4>2, HandledType, TakeInType DEF TypeOK
    <3> QED
      BY <3>1, <3>2
  <2>8. CASE SaveEvent(j)
    <3>1. Key(j.msg) \in Events \X Nat
      BY <2>0, MessageType DEF Key
    <3>2. Handled(j)
      BY <2>8 DEF SaveEvent
    <3> QED
      BY <2>8, <3>1, <3>2, HandledType DEF SaveEvent, TypeOK
  <2> QED
    BY <1>7, <2>1, <2>2, <2>3, <2>4, <2>5, <2>6, <2>7, <2>8 DEF Handle
<1>8. CASE UNCHANGED vars
  BY <1>8 DEF vars, TypeOK
<1> QED
  BY <1>1, <1>2, <1>3, <1>4, <1>5, <1>6, <1>7, <1>8 DEF Next

\* Every variable keeps its type.
THEOREM TypeCorrect == Spec => []TypeOK
<1>1. Init => TypeOK
  BY BoundsAssumption DEF Init, TypeOK
<1> QED
  BY <1>1, TypeStep, PTL DEF Spec

--------------------------------------------------------------------------------
\* What a step does to the projections

\* Nothing: a delivery starts, looks, is done without a change or ends.
Quiet ==
  /\ UNCHANGED <<service, inbox, looked, commits, users, journal, ledger>>
  /\ \A k \in jobs' :
       \/ k \in jobs
       \/ k.step = "new"
       \/ k.step = "done" /\ (k.msg.event.type \in Handles(service) => Applied(k.msg.event))
       \/ /\ k.step = "looked" /\ k.msg.event.type = "deleted" /\ k.at = commits
          /\ k.row = (users[k.msg.event.user] = "active")
  /\ \A m \in Messages : queue'[m] = "gone" =>
       queue[m] = "gone" \/ (m.event.type \in Handles(service) => Applied(m.event))

\* The delivery j is handled and its event, new to the inbox, is in it.
Commits(j) ==
  /\ UNCHANGED <<service, queue, ledger>>
  /\ service # "event_ledger"
  /\ inbox[j.msg.event] = 0
  /\ TakeIn(j.msg.event)
  /\ Handled(j)

Created(j) ==
  /\ Commits(j) /\ j.msg.event.type = "created"
  /\ users' = [users EXCEPT ![j.msg.event.user] = IF @ = "unknown" THEN "active" ELSE @]
  /\ UNCHANGED <<looked, journal>>

Deleted(j) ==
  /\ Commits(j) /\ j.step = "looked"
  /\ users' = IF j.row THEN [users EXCEPT ![j.msg.event.user] = "deleted"] ELSE users
  /\ looked' = [looked EXCEPT ![j.msg.event] = j.at]
  /\ UNCHANGED journal

Ended(j) ==
  /\ Commits(j) /\ service = "journal" /\ j.msg.event.type = "ended"
  /\ journal' = [journal EXCEPT ![j.msg.event] = @ + 1]
  /\ UNCHANGED <<users, looked>>

Stored(j) ==
  /\ service = "event_ledger"
  /\ ledger' = ledger \cup {Key(j.msg)}
  /\ Handled(j)
  /\ UNCHANGED <<service, queue, inbox, looked, commits, users, journal>>

LEMMA SkipIsQuiet ==
  ASSUME NEW j \in jobs, Skip(j), UNCHANGED <<service, queue>>,
         j.msg.event.type \in Handles(service) => Applied(j.msg.event)
  PROVE  Quiet
BY DEF Skip, Handled, Quiet, db

LEMMA FailIsQuiet ==
  ASSUME NEW j \in jobs, Fail(j), UNCHANGED <<service, queue>>
  PROVE  Quiet
BY DEF Fail, Quiet, db

\* A service that has an inbox has taken in what is in it.
LEMMA InboxApplied ==
  ASSUME NEW e, service # "event_ledger", inbox[e] > 0
  PROVE  Applied(e)
BY DEF Applied

LEMMA StepKinds ==
  ASSUME IInv, [Next]_vars
  PROVE  Quiet \/ \E j \in jobs : Created(j) \/ Deleted(j) \/ Ended(j) \/ Stored(j)
<1> TypeOK
  BY DEF IInv
<1>1. ASSUME NEW m \in Messages, Publish(m) \/ Reappear(m) \/ Redrive(m) PROVE Quiet
  BY <1>1 DEF Publish, Reappear, Redrive, Quiet, db, TypeOK
<1>2. ASSUME NEW m \in Messages, Receive(m) PROVE Quiet
  BY <1>2 DEF Receive, Quiet, db, TypeOK
<1>3. ASSUME NEW j \in jobs, Acknowledge(j) PROVE Quiet
  <2>1. j.msg.event.type \in Handles(service) => Applied(j.msg.event)
    BY <1>3 DEF Acknowledge, IInv, DoneInv
  <2>2. \A m \in Messages : queue'[m] = "gone" => queue[m] = "gone" \/ m = j.msg
    BY <1>3 DEF Acknowledge, TypeOK
  <2> QED
    BY <1>3, <2>1, <2>2 DEF Acknowledge, Quiet, db
<1>4. ASSUME NEW j \in jobs, Lose(j) PROVE Quiet
  BY <1>4 DEF Lose, Quiet, db
<1>5. ASSUME NEW j \in jobs, Handle(j)
      PROVE  Quiet \/ Created(j) \/ Deleted(j) \/ Ended(j) \/ Stored(j)
  <2> UNCHANGED <<service, queue, receives>>
    BY <1>5 DEF Handle
  <2> DEFINE e == j.msg.event
  <2>0. e \in Events /\ e.user \in Users
    BY JobType, MessageType
  <2>1. CASE Ignore(j)
    <3>1. CASE Skip(j)
      BY <2>1, <3>1, SkipIsQuiet DEF Ignore
    <3>2. CASE ~Skip(j)
      BY <2>1, <3>2 DEF Ignore, Quiet, db
    <3> QED
      BY <3>1, <3>2
  <2>2. CASE AddUser(j)
    <3>1. CASE inbox[e] = 0
      BY <2>2, <3>1 DEF AddUser, InsertUser, Created, Commits
    <3>2. CASE inbox[e] # 0
      <4>1. inbox[e] > 0
        BY <2>0, <3>2 DEF TypeOK
      <4>2. users[e.user] # "unknown"
        BY <2>0, <2>2, <4>1 DEF IInv, KnownInv, AddUser, InsertUser
      <4>3. users' = users
        BY <2>0, <2>2, <4>2 DEF AddUser, InsertUser, TypeOK
      <4>4. Skip(j)
        BY <2>2, <3>2, <4>3 DEF AddUser, InsertUser, Skip, db
      <4> QED
        BY <2>2, <4>1, <4>4, InboxApplied, SkipIsQuiet DEF AddUser, InsertUser
    <3> QED
      BY <3>1, <3>2
  <2>3. CASE SaveUserCreated(j)
    BY <2>3, InboxApplied, SkipIsQuiet DEF SaveUserCreated, InsertUser, Created, Commits
  <2>4. CASE LookForUser(j)
    BY <2>4 DEF LookForUser, Quiet, db
  <2>5. CASE DeleteUser(j)
    BY <2>5, FailIsQuiet DEF DeleteUser, CommitDelete, Deleted, Commits
  <2>6. CASE SaveUserDeleted(j)
    BY <2>6, InboxApplied, SkipIsQuiet DEF SaveUserDeleted, CommitDelete, Deleted, Commits
  <2>7. CASE SaveBookingEnded(j)
    BY <2>7, InboxApplied, SkipIsQuiet, FailIsQuiet DEF SaveBookingEnded, Ended, Commits
  <2>8. CASE SaveEvent(j)
    BY <2>8 DEF SaveEvent, Stored
  <2> QED
    BY <1>5, <2>1, <2>2, <2>3, <2>4, <2>5, <2>6, <2>7, <2>8 DEF Handle
<1>6. CASE UNCHANGED vars
  BY <1>6 DEF vars, Quiet
<1> QED
  BY <1>1, <1>2, <1>3, <1>4, <1>5, <1>6 DEF Next

--------------------------------------------------------------------------------
\* What never goes back

\* What the inbox has it keeps, with its number, and a commit gets the next one.
LEMMA InboxGrows ==
  ASSUME TypeOK, NEW j \in jobs, Commits(j)
  PROVE  /\ commits' = commits + 1 /\ inbox'[j.msg.event] = commits + 1
         /\ \A e \in Events : e # j.msg.event => inbox'[e] = inbox[e]
         /\ \A e \in Events : inbox[e] > 0 => inbox'[e] = inbox[e]
         /\ service' = service /\ commits \in Nat
         /\ \A k \in jobs' : k \in jobs \/ (k.step = "done" /\ k.msg = j.msg)
<1> j.msg.event \in Events
  BY JobType, MessageType
<1> QED
  BY DEF Commits, TakeIn, TypeOK, Handled

\* A creation after commit n stays one.
LEMMA CreatedAfterStays ==
  ASSUME TypeOK, NEW j \in jobs, Commits(j), NEW u, NEW n \in Nat, CreatedAfter(u, n)
  PROVE  CreatedAfterNext(u, n)
<1>1. PICK c \in Events : c.type = "created" /\ c.user = u /\ inbox[c] > n
  BY DEF CreatedAfter
<1>2. inbox[c] > 0
  BY <1>1 DEF TypeOK
<1>3. inbox'[c] > n
  BY <1>1, <1>2, InboxGrows
<1> QED
  BY <1>1, <1>3 DEF CreatedAfterNext

LEMMA AppliedStays ==
  ASSUME IInv, [Next]_vars, NEW e \in Events, Applied(e)
  PROVE  Applied(e)'
<1> TypeOK
  BY DEF IInv
<1>1. CASE Quiet
  BY <1>1 DEF Quiet, Applied
<1>2. ASSUME NEW j \in jobs, Created(j) \/ Deleted(j) \/ Ended(j) PROVE Applied(e)'
  <2>1. Commits(j)
    BY <1>2 DEF Created, Deleted, Ended
  <2>2. inbox[e] > 0
    BY <2>1 DEF Commits, Applied
  <2> QED
    BY <2>1, <2>2, InboxGrows DEF Commits, Applied
<1>3. ASSUME NEW j \in jobs, Stored(j) PROVE Applied(e)'
  BY <1>3 DEF Stored, Applied
<1> QED
  BY <1>1, <1>2, <1>3, StepKinds

\* What is handled was taken in.
LEMMA HandledApplied ==
  ASSUME TypeOK, NEW j \in jobs, Created(j) \/ Deleted(j) \/ Ended(j) \/ Stored(j)
  PROVE  Applied(j.msg.event)' /\ service' = service /\ queue' = queue
         /\ \A k \in jobs' : k \in jobs \/ (k.step = "done" /\ k.msg = j.msg)
<1>1. CASE Created(j) \/ Deleted(j) \/ Ended(j)
  <2>1. Commits(j)
    BY <1>1 DEF Created, Deleted, Ended
  <2>2. inbox'[j.msg.event] > 0
    BY <2>1, InboxGrows
  <2> QED
    BY <2>1, <2>2, InboxGrows DEF Commits, Applied
<1>2. CASE Stored(j)
  <2>1. <<j.msg.event, j.msg.emission>> \in ledger'
    BY <1>2 DEF Stored, Key
  <2>2. <<j.msg.event, j.msg.emission>>[1] = j.msg.event
    OBVIOUS
  <2>3. Applied(j.msg.event)'
    BY <1>2, <2>1, <2>2 DEF Stored, Applied
  <2> QED
    BY <1>2, <2>3 DEF Stored, Handled
<1> QED
  BY <1>1, <1>2

LEMMA AckStep ==
  ASSUME IInv, [Next]_vars
  PROVE  DoneInv' /\ AckedIsApplied'
<1> TypeOK
  BY DEF IInv
<1>0. \A m \in Messages : Applied(m.event) => Applied(m.event)'
  BY MessageType, AppliedStays
<1>1. CASE Quiet
  <2>1. DoneInv'
    <3> SUFFICES ASSUME NEW k \in jobs', k.step = "done",
                        k.msg.event.type \in Handles(service)
                 PROVE  Applied(k.msg.event)'
      BY <1>1 DEF Quiet, DoneInv
    <3>1. Applied(k.msg.event)
      BY <1>1 DEF Quiet, IInv, DoneInv
    <3> QED
      BY <1>1, <3>1 DEF Quiet, Applied
  <2>2. AckedIsApplied'
    <3> SUFFICES ASSUME NEW m \in Messages, queue'[m] = "gone",
                        m.event.type \in Handles(service)
                 PROVE  Applied(m.event)'
      BY <1>1 DEF Quiet, AckedIsApplied
    <3>1. Applied(m.event)
      BY <1>1 DEF Quiet, IInv, AckedIsApplied
    <3> QED
      BY <1>0, <3>1
  <2> QED
    BY <2>1, <2>2
<1>2. ASSUME NEW j \in jobs, Created(j) \/ Deleted(j) \/ Ended(j) \/ Stored(j)
      PROVE  DoneInv' /\ AckedIsApplied'
  <2>1. DoneInv'
    <3> SUFFICES ASSUME NEW k \in jobs', k.step = "done",
                        k.msg.event.type \in Handles(service)
                 PROVE  Applied(k.msg.event)'
      BY <1>2, HandledApplied DEF DoneInv
    <3>1. CASE k \in jobs
      BY <1>0, <3>1, JobType DEF IInv, DoneInv
    <3>2. CASE k.msg = j.msg
      BY <1>2, <3>2, HandledApplied
    <3> QED
      BY <1>2, <3>1, <3>2, HandledApplied
  <2>2. AckedIsApplied'
    BY <1>0, <1>2, HandledApplied DEF IInv, AckedIsApplied
  <2> QED
    BY <2>1, <2>2
<1> QED
  BY <1>1, <1>2, StepKinds

--------------------------------------------------------------------------------
\* The rest of the invariant

LEMMA QuietKeeps ==
  ASSUME IInv, Quiet
  PROVE  ClockInv' /\ KnownInv' /\ LookInv' /\ ZombieInv' /\ DeleteInv'
<1> TypeOK
  BY DEF IInv
<1>1. ClockInv'
  <2>1. \A e \in Events : inbox'[e] <= commits' /\ looked'[e] <= commits'
    BY DEF Quiet, IInv, ClockInv
  <2>2. ASSUME NEW k \in jobs', k.step = "looked" PROVE k.at <= commits'
    <3>1. CASE k \in jobs
      BY <2>2, <3>1 DEF Quiet, IInv, ClockInv
    <3>2. CASE k.at = commits
      BY <3>2 DEF Quiet, TypeOK
    <3> QED
      BY <2>2, <3>1, <3>2 DEF Quiet
  <2> QED
    BY <2>1, <2>2 DEF ClockInv
<1>2. KnownInv'
  BY DEF Quiet, IInv, KnownInv
<1>3. LookInv'
  <2> SUFFICES ASSUME NEW k \in jobs', k.step = "looked", ~k.row,
                      users[k.msg.event.user] = "active"
               PROVE  CreatedAfter(k.msg.event.user, k.at)'
    BY DEF Quiet, LookInv
  <2>1. k \in jobs
    BY DEF Quiet
  <2> QED
    BY <2>1 DEF Quiet, IInv, LookInv, CreatedAfter
<1>4. ZombieInv'
  BY DEF Quiet, IInv, ZombieInv, CreatedAfter
<1>5. DeleteInv'
  BY DEF Quiet, IInv, DeleteInv
<1> QED
  BY <1>1, <1>2, <1>3, <1>4, <1>5

LEMMA CommitKeepsClock ==
  ASSUME IInv, NEW j \in jobs, Created(j) \/ Deleted(j) \/ Ended(j)
  PROVE  ClockInv' /\ DeleteInv'
<1> TypeOK
  BY DEF IInv
<1>1. Commits(j)
  BY DEF Created, Deleted, Ended
<1>2. ASSUME NEW e \in Events PROVE inbox'[e] <= commits'
  <2>1. inbox[e] \in Nat /\ inbox[e] <= commits
    BY DEF IInv, ClockInv, TypeOK
  <2> QED
    BY <1>1, <2>1, InboxGrows
<1>3. ASSUME NEW e \in Events PROVE looked'[e] <= commits'
  <2>1. looked[e] \in Nat /\ looked[e] <= commits
    BY DEF IInv, ClockInv, TypeOK
  <2>2. CASE Created(j) \/ Ended(j)
    BY <1>1, <2>1, <2>2, InboxGrows DEF Created, Ended
  <2>3. CASE Deleted(j)
    <3>1. j.at \in Nat /\ j.at <= commits
      BY <2>3, JobType DEF Deleted, IInv, ClockInv
    <3>2. looked'[e] = looked[e] \/ looked'[e] = j.at
      BY <2>3 DEF Deleted, TypeOK
    <3> QED
      BY <1>1, <2>1, <3>1, <3>2, InboxGrows
  <2> QED
    BY <2>2, <2>3
<1>4. ASSUME NEW k \in jobs', k.step = "looked" PROVE k.at <= commits' /\ k.msg.event.type = "deleted"
  <2>1. k \in jobs
    BY <1>1, <1>4, InboxGrows
  <2>2. k.at \in Nat /\ k.at <= commits /\ k.msg.event.type = "deleted"
    BY <1>4, <2>1, JobType DEF IInv, ClockInv, DeleteInv
  <2> QED
    BY <1>1, <2>2, InboxGrows
<1> QED
  BY <1>2, <1>3, <1>4 DEF ClockInv, DeleteInv

\* A user who is active after a commit was so before, or has just been created.
LEMMA ActiveBefore ==
  ASSUME IInv, NEW j \in jobs, Created(j) \/ Deleted(j) \/ Ended(j), NEW u \in Users,
         users'[u] = "active"
  PROVE  users[u] = "active" \/ (Created(j) /\ u = j.msg.event.user)
<1> j.msg.event.user \in Users
  BY JobType, MessageType DEF IInv
<1> QED
  BY DEF IInv, TypeOK, Created, Deleted, Ended

\* A creation that commits comes after everything that has looked or committed.
LEMMA CreatedIsLast ==
  ASSUME TypeOK, NEW j \in jobs, Created(j), NEW n \in Nat, n <= commits
  PROVE  CreatedAfterNext(j.msg.event.user, n)
<1>1. Commits(j) /\ j.msg.event.type = "created" /\ j.msg.event \in Events
  BY JobType, MessageType DEF Created
<1>2. inbox'[j.msg.event] > n
  BY <1>1, InboxGrows
<1> QED
  BY <1>1, <1>2 DEF CreatedAfterNext

LEMMA CommitKeepsLook ==
  ASSUME IInv, NEW j \in jobs, Created(j) \/ Deleted(j) \/ Ended(j)
  PROVE  LookInv'
<1> TypeOK
  BY DEF IInv
<1>1. Commits(j)
  BY DEF Created, Deleted, Ended
<1> SUFFICES ASSUME NEW k \in jobs', k.step = "looked", ~k.row,
                    users'[k.msg.event.user] = "active"
             PROVE  CreatedAfterNext(k.msg.event.user, k.at)
  BY DEF LookInv, CreatedAfter, CreatedAfterNext
<1>2. k \in jobs
  BY <1>1, InboxGrows
<1>3. k.msg.event.user \in Users /\ k.at \in Nat /\ k.at <= commits
  BY <1>2, JobType, MessageType DEF IInv, ClockInv
<1>4. CASE users[k.msg.event.user] = "active"
  <2>1. CreatedAfter(k.msg.event.user, k.at)
    BY <1>2, <1>4 DEF IInv, LookInv
  <2> QED
    BY <1>1, <1>3, <2>1, CreatedAfterStays
<1>5. CASE Created(j) /\ k.msg.event.user = j.msg.event.user
  BY <1>3, <1>5, CreatedIsLast
<1> QED
  BY <1>3, <1>4, <1>5, ActiveBefore

LEMMA CommitKeepsZombie ==
  ASSUME IInv, NEW j \in jobs, Created(j) \/ Deleted(j) \/ Ended(j)
  PROVE  ZombieInv'
<1> TypeOK
  BY DEF IInv
<1>0. Commits(j) /\ j.msg.event \in Events
  BY JobType, MessageType DEF Created, Deleted, Ended
<1> SUFFICES ASSUME NEW d \in Events, d.type = "deleted", inbox'[d] > 0,
                    users'[d.user] = "active"
             PROVE  CreatedAfterNext(d.user, looked'[d])
  BY DEF ZombieInv, CreatedAfter, CreatedAfterNext
<1>1. d.user \in Users /\ looked[d] \in Nat /\ looked[d] <= commits
  BY EventsAssumption DEF IInv, ClockInv, TypeOK
<1>2. CASE d = j.msg.event
  <2>1. Deleted(j)
    BY <1>2 DEF Created, Ended
  <2>2. looked'[d] = j.at /\ j.at \in Nat /\ ~j.row
    BY <1>1, <1>2, <2>1, JobType DEF Deleted, TypeOK
  <2>3. users[d.user] = "active"
    BY <2>1, <2>2 DEF Deleted
  <2>4. CreatedAfter(d.user, j.at)
    BY <1>2, <2>1, <2>2, <2>3 DEF IInv, LookInv, Deleted
  <2> QED
    BY <1>0, <2>2, <2>4, CreatedAfterStays
<1>3. CASE d # j.msg.event
  <2>1. looked'[d] = looked[d] /\ inbox[d] > 0
    BY <1>0, <1>3, InboxGrows DEF Created, Deleted, Ended, TypeOK
  <2>2. CASE users[d.user] = "active"
    <3>1. CreatedAfter(d.user, looked[d])
      BY <2>1, <2>2 DEF IInv, ZombieInv
    <3> QED
      BY <1>0, <1>1, <2>1, <3>1, CreatedAfterStays
  <2>3. CASE Created(j) /\ d.user = j.msg.event.user
    BY <1>1, <2>1, <2>3, CreatedIsLast
  <2> QED
    BY <1>1, <2>2, <2>3, ActiveBefore
<1> QED
  BY <1>2, <1>3

LEMMA CommitKeepsKnown ==
  ASSUME IInv, NEW j \in jobs, Created(j) \/ Deleted(j) \/ Ended(j)
  PROVE  KnownInv'
<1> TypeOK
  BY DEF IInv
<1>0. Commits(j) /\ j.msg.event \in Events /\ j.msg.event.user \in Users
  BY JobType, MessageType DEF Created, Deleted, Ended
<1>1. \A u \in Users : users[u] # "unknown" => users'[u] # "unknown"
  BY <1>0 DEF Created, Deleted, Ended, TypeOK
<1> SUFFICES ASSUME NEW c \in Events, c.type = "created", inbox'[c] > 0
             PROVE  users'[c.user] # "unknown"
  BY DEF KnownInv
<1>2. c.user \in Users
  BY EventsAssumption
<1>3. CASE c = j.msg.event
  <2>1. Created(j)
    BY <1>3 DEF Deleted, Ended, IInv, DeleteInv
  <2> QED
    BY <1>0, <1>3, <2>1 DEF Created, TypeOK
<1>4. CASE c # j.msg.event
  BY <1>0, <1>1, <1>2, <1>4, InboxGrows DEF IInv, KnownInv
<1> QED
  BY <1>3, <1>4

LEMMA StoredKeeps ==
  ASSUME IInv, NEW j \in jobs, Stored(j)
  PROVE  ClockInv' /\ KnownInv' /\ LookInv' /\ ZombieInv' /\ DeleteInv'
<1>1. UNCHANGED <<inbox, looked, commits, users>>
  BY DEF Stored
<1>2. \A k \in jobs' : k.step = "looked" => k \in jobs
  BY DEF Stored, Handled
<1>3. ClockInv' /\ KnownInv' /\ ZombieInv' /\ DeleteInv'
  BY <1>1, <1>2 DEF IInv, ClockInv, KnownInv, ZombieInv, DeleteInv, CreatedAfter
<1>4. LookInv'
  BY <1>1, <1>2 DEF IInv, LookInv, CreatedAfter
<1> QED
  BY <1>3, <1>4

LEMMA InvStep == IInv /\ [Next]_vars => IInv'
<1> SUFFICES ASSUME IInv, [Next]_vars PROVE IInv'
  OBVIOUS
<1>1. TypeOK'
  BY TypeStep DEF IInv
<1>2. ClockInv' /\ KnownInv' /\ LookInv' /\ ZombieInv' /\ DeleteInv'
  BY StepKinds, QuietKeeps, StoredKeeps, CommitKeepsClock, CommitKeepsLook, CommitKeepsZombie,
     CommitKeepsKnown
<1> QED
  BY <1>1, <1>2, AckStep DEF IInv

LEMMA InvInit == Init => IInv
<1> SUFFICES ASSUME Init PROVE IInv
  OBVIOUS
<1>1. TypeOK
  BY BoundsAssumption DEF Init, TypeOK
<1>2. ClockInv
  BY DEF Init, ClockInv
<1>3. DoneInv /\ AckedIsApplied /\ LookInv /\ DeleteInv
  BY DEF Init, DoneInv, AckedIsApplied, LookInv, DeleteInv
<1>4. KnownInv /\ ZombieInv
  BY DEF Init, KnownInv, ZombieInv
<1> QED
  BY <1>1, <1>2, <1>3, <1>4 DEF IInv

LEMMA Invariant == Spec => []IInv
BY InvInit, InvStep, PTL DEF Spec

--------------------------------------------------------------------------------
\* The properties

\* What leaves a queue by a delete has been taken in by its service.
THEOREM NothingLostByAck == Spec => []AckedIsApplied
BY Invariant, PTL DEF IInv

\* A deleted user is active only after reordering or overlap.
THEOREM ZombiesNeedReordering == Spec => []ZombieNeedsReordering
<1>1. IInv => ZombieNeedsReordering
  BY DEF IInv, ZombieInv, CreatedAfter, ZombieNeedsReordering
<1> QED
  BY <1>1, Invariant, PTL

\* The journal has exactly one row for each end it has taken in.
THEOREM EndsCountedOnce == Spec => []JournalOncePerEnd
<1>1. Init => JournalOncePerEnd
  BY DEF Init, JournalOncePerEnd
<1>2. IInv /\ JournalOncePerEnd /\ [Next]_vars => JournalOncePerEnd'
  <2> SUFFICES ASSUME IInv, JournalOncePerEnd, [Next]_vars PROVE JournalOncePerEnd'
    OBVIOUS
  <2> TypeOK
    BY DEF IInv
  <2>1. CASE Quiet
    BY <2>1 DEF Quiet, JournalOncePerEnd
  <2>2. ASSUME NEW j \in jobs, Created(j) \/ Deleted(j) PROVE JournalOncePerEnd'
    <3>1. Commits(j) /\ UNCHANGED journal /\ j.msg.event.type # "ended"
      BY <2>2 DEF Created, Deleted, IInv, DeleteInv
    <3> QED
      BY <3>1, InboxGrows DEF JournalOncePerEnd
  <2>3. ASSUME NEW j \in jobs, Ended(j) PROVE JournalOncePerEnd'
    <3>1. Commits(j) /\ j.msg.event \in Events /\ inbox[j.msg.event] = 0
      BY <2>3, JobType, MessageType DEF Ended, Commits
    <3>2. journal'[j.msg.event] = 1 /\ inbox'[j.msg.event] > 0
      BY <2>3, <3>1, InboxGrows DEF Ended, JournalOncePerEnd, TypeOK
    <3>3. \A e \in Events : e # j.msg.event => journal'[e] = journal[e]
      BY <2>3 DEF Ended, TypeOK
    <3> QED
      BY <2>3, <3>1, <3>2, <3>3, InboxGrows DEF Ended, JournalOncePerEnd
  <2>4. ASSUME NEW j \in jobs, Stored(j) PROVE JournalOncePerEnd'
    BY <2>4 DEF Stored, JournalOncePerEnd
  <2> QED
    BY <2>1, <2>2, <2>3, <2>4, StepKinds
<1> QED
  BY <1>1, <1>2, Invariant, PTL DEF Spec

\* A deleted user stays deleted, whatever arrives.
THEOREM NoRevival == Spec => DeletedStaysDeleted
<1>1. IInv /\ [Next]_vars => [\A u \in Users : users[u] = "deleted" => users'[u] = "deleted"]_vars
  <2> SUFFICES ASSUME IInv, [Next]_vars, NEW u \in Users, users[u] = "deleted"
               PROVE  users'[u] = "deleted"
    OBVIOUS
  <2> TypeOK
    BY DEF IInv
  <2>1. CASE Quiet
    BY <2>1 DEF Quiet
  <2>2. ASSUME NEW j \in jobs, Created(j) \/ Deleted(j) \/ Ended(j) PROVE users'[u] = "deleted"
    BY <2>2 DEF Created, Deleted, Ended, TypeOK
  <2>3. ASSUME NEW j \in jobs, Stored(j) PROVE users'[u] = "deleted"
    BY <2>3 DEF Stored
  <2> QED
    BY <2>1, <2>2, <2>3, StepKinds
<1> QED
  BY <1>1, Invariant, PTL DEF Spec, DeletedStaysDeleted

--------------------------------------------------------------------------------
\* What the dead-letter queue takes

\* Receive n of message m is being worked on, or is excused.
HasCause(m, n) == <<m, n>> \in excused \/ \E j \in jobs : j.msg = m /\ j.try = n

\* The same in the next state, for a number that is not of the next state.
HasCauseNext(m, n) == <<m, n>> \in excused' \/ \E j \in jobs' : j.msg = m /\ j.try = n

\* The receives of a message of which nothing was taken in all have their cause, and
\* a message is given up after the last one.
CauseInv ==
  /\ \A m \in Messages : queue[m] = "dead" => receives[m] = MaxReceives
  /\ \A m \in Messages :
       m.event.type \in Handles(service) /\ ~Applied(m.event) =>
         \A n \in 1..receives[m] : HasCause(m, n)

\* A delivery goes on, has its cause, was taken in, or is of no interest.
LEMMA DeliveryGoesOn ==
  ASSUME IInv, [Next]_vars, NEW j \in jobs
  PROVE  \/ \E k \in jobs' : k.msg = j.msg /\ k.try = j.try
         \/ <<j.msg, j.try>> \in excused'
         \/ Applied(j.msg.event)'
         \/ j.msg.event.type \notin Handles(service)
<1> DEFINE Goes ==
      \/ \E k \in jobs' : k.msg = j.msg /\ k.try = j.try
      \/ <<j.msg, j.try>> \in excused'
      \/ Applied(j.msg.event)'
      \/ j.msg.event.type \notin Handles(service)
<1>0. TypeOK /\ j.msg.event \in Events
  BY JobType, MessageType DEF IInv
<1>1. ASSUME j \in jobs'
      PROVE  Goes
  BY <1>1
<1>2. ASSUME Applied(j.msg.event)
      PROVE  Goes
  BY <1>0, <1>2, AppliedStays
<1>3. ASSUME NEW m \in Messages, Publish(m) \/ Receive(m) \/ Reappear(m) \/ Redrive(m)
      PROVE  Goes
  BY <1>1, <1>3 DEF Publish, Receive, Reappear, Redrive
<1>4. ASSUME NEW k \in jobs, Acknowledge(k) \/ Lose(k) \/ Handle(k), k # j
      PROVE  Goes
  <2>1. jobs \ {k} \subseteq jobs'
    BY <1>4 DEF Acknowledge, Lose, Handle, Ignore, AddUser, InsertUser, SaveUserCreated,
         LookForUser, DeleteUser, SaveUserDeleted, SaveBookingEnded, SaveEvent, CommitDelete, Skip, Fail, Handled
  <2>2. QED
    BY <1>1, <1>4, <2>1
<1>5. CASE Acknowledge(j) \/ Lose(j)
  <2>1. CASE j.step = "done"
    BY <1>2, <2>1 DEF IInv, DoneInv
  <2>2. CASE j.step # "done"
    BY <1>5, <2>2 DEF Acknowledge, Lose
  <2>3. QED
    BY <2>1, <2>2
<1>6. CASE Handle(j)
  <2>1. ASSUME Handled(j)
        PROVE  Goes
    <3>1. [step |-> "done", msg |-> j.msg, try |-> j.try] \in jobs'
      BY <2>1 DEF Handled
    <3>2. QED
      BY <3>1
  <2>2. CASE LookForUser(j)
    <3> DEFINE d == [step |-> "looked", msg |-> j.msg, try |-> j.try,
                     row |-> users[j.msg.event.user] = "active", at |-> commits]
    <3>1. d \in jobs' /\ d.msg = j.msg /\ d.try = j.try
      BY <2>2 DEF LookForUser
    <3>2. QED
      BY <3>1
  <2>3. CASE Ignore(j)
    BY <2>3 DEF Ignore
  <2>4. CASE DeleteUser(j)
    BY <1>2, <2>1, <2>4, InboxApplied DEF DeleteUser, CommitDelete
  <2>5. CASE SaveBookingEnded(j)
    <3>1. CASE Handled(j)
      BY <2>1, <3>1
    <3>2. CASE ~Handled(j)
      <4>1. Fail(j) /\ TooEarly(j.msg.event)
        BY <2>5, <3>2 DEF SaveBookingEnded, Skip, TooEarly
      <4>2. QED
        BY <4>1 DEF Fail
    <3>3. QED
      BY <3>1, <3>2
  <2>6. CASE AddUser(j) \/ SaveUserCreated(j) \/ SaveUserDeleted(j) \/ SaveEvent(j)
    BY <2>1, <2>6 DEF AddUser, InsertUser, SaveUserCreated, SaveUserDeleted, CommitDelete,
                        SaveEvent, Skip
  <2>7. QED
    BY <1>6, <2>2, <2>3, <2>4, <2>5, <2>6 DEF Handle
<1>7. CASE UNCHANGED vars
  BY <1>1, <1>7 DEF vars
<1>8. QED
  BY <1>3, <1>4, <1>5, <1>6, <1>7 DEF Next

\* What is excused stays so.
LEMMA ExcusesStay ==
  ASSUME [Next]_vars
  PROVE  excused \subseteq excused' /\ service' = service
BY DEF Next, vars, Publish, Receive, Reappear, Redrive, Acknowledge, Lose, Handle, Ignore, AddUser,
     InsertUser, SaveUserCreated, LookForUser, DeleteUser, SaveUserDeleted, SaveBookingEnded, SaveEvent,
     CommitDelete, Skip, Fail, Handled

\* A cause stays a cause until the event is taken in.
LEMMA CauseStays ==
  ASSUME IInv, [Next]_vars, NEW m \in Messages, NEW n, HasCause(m, n),
         m.event.type \in Handles(service), ~Applied(m.event)'
  PROVE  HasCauseNext(m, n)
<1>1. CASE <<m, n>> \in excused
  BY <1>1, ExcusesStay DEF HasCauseNext
<1>2. CASE \E j \in jobs : j.msg = m /\ j.try = n
  <2>1. PICK j \in jobs : j.msg = m /\ j.try = n
    BY <1>2
  <2>2. (\E k \in jobs' : k.msg = m /\ k.try = n) \/ <<m, n>> \in excused'
    BY <2>1, DeliveryGoesOn
  <2>3. QED
    BY <2>2 DEF HasCauseNext
<1>3. QED
  BY <1>1, <1>2 DEF HasCause

\* What a step does to the counts of receives.
LEMMA ReceivesStep ==
  ASSUME IInv, [Next]_vars
  PROVE  /\ \A m \in Messages : queue'[m] = "dead" =>
              receives'[m] = receives[m] /\ (queue[m] = "dead" \/ receives[m] = MaxReceives)
         /\ \A m \in Messages :
              \/ receives'[m] = receives[m]
              \/ receives'[m] = receives[m] + 1 /\ HasCauseNext(m, receives'[m])
<1>0. TypeOK
  BY DEF IInv
<1>1. ASSUME NEW k \in Messages, Receive(k)
      PROVE  /\ receives' = [receives EXCEPT ![k] = @ + 1] /\ queue' = [queue EXCEPT ![k] = "hidden"]
             /\ HasCauseNext(k, receives'[k])
  <2> DEFINE j == [step |-> "new", msg |-> k, try |-> receives[k] + 1]
  <2>1. receives'[k] = receives[k] + 1
    BY <1>0, <1>1 DEF Receive, TypeOK
  <2>2. j \in jobs' /\ j.msg = k /\ j.try = receives'[k]
    BY <1>1, <2>1 DEF Receive
  <2> HIDE DEF j
  <2>3. HasCauseNext(k, receives'[k])
    BY <2>2 DEF HasCauseNext
  <2>4. QED
    BY <1>1, <2>3 DEF Receive
<1>2. ASSUME NEW k \in Messages, Redrive(k)
      PROVE  /\ receives' = receives /\ queue' = [queue EXCEPT ![k] = "dead"]
             /\ receives[k] = MaxReceives
  BY <1>2 DEF Redrive
<1>3. ASSUME NEW k \in Messages, Publish(k) \/ Reappear(k)
      PROVE  receives' = receives /\ queue' = [queue EXCEPT ![k] = "visible"]
  BY <1>3 DEF Publish, Reappear
<1>4. ASSUME NEW j \in jobs, Acknowledge(j) \/ Lose(j) \/ Handle(j)
      PROVE  /\ receives' = receives
             /\ queue' = queue \/ queue' = [queue EXCEPT ![j.msg] = "gone"]
  BY <1>4 DEF Acknowledge, Lose, Handle
<1>5. CASE UNCHANGED vars
  BY <1>5 DEF vars
<1>6. QED
  BY <1>0, <1>1, <1>2, <1>3, <1>4, <1>5 DEF Next, TypeOK

LEMMA CauseStep == IInv /\ CauseInv /\ [Next]_vars => CauseInv'
<1> SUFFICES ASSUME IInv, CauseInv, [Next]_vars
             PROVE  CauseInv'
  OBVIOUS
<1>1. \A m \in Messages : queue'[m] = "dead" => receives'[m] = MaxReceives
  BY ReceivesStep DEF CauseInv
<1>2. ASSUME NEW m \in Messages, m.event.type \in Handles(service)', ~Applied(m.event)',
             NEW n \in 1..receives'[m]
      PROVE  HasCauseNext(m, n)
  <2>1. m.event.type \in Handles(service) /\ ~Applied(m.event)
    BY <1>2, ExcusesStay, MessageType, AppliedStays DEF Handles
  <2>2. receives[m] \in Nat
    BY DEF IInv, TypeOK
  <2>3. CASE n \in 1..receives[m]
    BY <1>2, <2>1, <2>3, CauseStays DEF CauseInv
  <2>4. CASE n \notin 1..receives[m]
    <3>1. receives'[m] = receives[m] + 1 /\ HasCauseNext(m, receives'[m])
      BY <1>2, <2>4, ReceivesStep
    <3>2. n = receives'[m]
      BY <1>2, <2>2, <2>4, <3>1
    <3>3. QED
      BY <3>1, <3>2
  <2>5. QED
    BY <2>3, <2>4
<1>3. QED
  BY <1>1, <1>2 DEF CauseInv, HasCause, HasCauseNext

\* No event is lost to its service but by a cause that the handlers cannot help.
THEOREM NothingLostUnexcused == Spec => []LossNeedsCause
<1>1. Init => CauseInv
  <2> SUFFICES ASSUME Init
               PROVE  CauseInv
    OBVIOUS
  <2>1. \A m \in Messages : queue[m] = "unsent" /\ receives[m] = 0
    BY DEF Init
  <2>2. QED
    BY <2>1 DEF CauseInv
<1>2. CauseInv => LossNeedsCause
  BY DEF CauseInv, LossNeedsCause, HasCause
<1>3. QED
  BY <1>1, <1>2, CauseStep, Invariant, PTL DEF Spec

--------------------------------------------------------------------------------
\* How far the consumers are idempotent

\* Only bookings fails an event it has taken in, and only a user.deleted.
IdempotentBut ==
  \A e \in failed : Applied(e) => service = "bookings" /\ e.type = "deleted"

\* The claim that consumers are idempotent is wrong for DeleteUser of bookings
\* and right for every other handler: journal and ledger never fail an event they
\* have taken in, and bookings fails no user.created.
THEOREM OnlyDeleteUserFails == Spec => []IdempotentBut
<1>1. Init => IdempotentBut
  BY DEF Init, IdempotentBut
<1>2. IInv /\ IdempotentBut /\ [Next]_vars => IdempotentBut'
  <2> SUFFICES ASSUME IInv, IdempotentBut, [Next]_vars
               PROVE  IdempotentBut'
    OBVIOUS
  <2>0. ASSUME failed' = {}
        PROVE  IdempotentBut'
    BY <2>0 DEF IdempotentBut
  <2>1. ASSUME NEW j \in jobs, DeleteUser(j), service' = service
        PROVE  IdempotentBut'
    <3>1. service = "bookings" /\ j.msg.event.type = "deleted"
      BY <2>1 DEF DeleteUser, IInv, DeleteInv
    <3>2. failed' \subseteq {j.msg.event}
      BY <2>1 DEF DeleteUser, CommitDelete, Handled, Fail
    <3>3. QED
      BY <2>1, <3>1, <3>2 DEF IdempotentBut
  <2>2. ASSUME NEW j \in jobs, SaveBookingEnded(j), service' = service
        PROVE  IdempotentBut'
    <3>1. CASE failed' = {}
      BY <2>0, <3>1
    <3>2. CASE failed' # {}
      <4>1. Fail(j) /\ inbox[j.msg.event] = 0 /\ service = "journal"
        BY <2>2, <3>2 DEF SaveBookingEnded, Skip, Handled
      <4>2. failed' = {j.msg.event} /\ inbox' = inbox
        BY <4>1 DEF Fail, db
      <4>3. \A e \in failed' : ~Applied(e)'
        BY <2>2, <4>1, <4>2 DEF Applied
      <4>4. QED
        BY <4>3 DEF IdempotentBut
    <3>3. QED
      BY <3>1, <3>2
  <2>3. ASSUME NEW j \in jobs, Handle(j)
        PROVE  IdempotentBut'
    BY <2>0, <2>1, <2>2, <2>3
    DEF Handle, Ignore, AddUser, InsertUser, SaveUserCreated, LookForUser, SaveUserDeleted,
        CommitDelete, SaveEvent, Skip, Handled
  <2>4. ASSUME NEW m \in Messages, Publish(m) \/ Receive(m) \/ Reappear(m) \/ Redrive(m)
        PROVE  IdempotentBut'
    BY <2>0, <2>4 DEF Publish, Receive, Reappear, Redrive
  <2>5. ASSUME NEW j \in jobs, Acknowledge(j) \/ Lose(j)
        PROVE  IdempotentBut'
    BY <2>0, <2>5 DEF Acknowledge, Lose
  <2>6. CASE UNCHANGED vars
    BY <2>6 DEF vars, IdempotentBut, Applied
  <2>7. QED
    BY <2>3, <2>4, <2>5, <2>6 DEF Next
<1>3. QED
  BY <1>1, <1>2, Invariant, PTL DEF Spec

================================================================================
