---------------------------- MODULE BookingCalendar ----------------------------
(***************************************************************************)
(* The bookings table of the bookings service and the HTTP handlers that   *)
(* write it: POST /bookings (BookingRepository.UpdateBooking) and DELETE   *)
(* /bookings/{id} (DeleteBooking), with the consumer of user events and    *)
(* the clock beside them.                                                  *)
(*                                                                         *)
(* Every SQL statement runs by itself, at READ COMMITTED, so a handler is  *)
(* split where another request's statement may come between.  The upsert   *)
(* is split too: it looks for overlaps in the snapshot it starts from and  *)
(* writes later, and the table has no exclusion constraint to object.      *)
(***************************************************************************)
EXTENDS Naturals

CONSTANTS Refs,      \* booking references (chosen by the clients)
          Users,     \* userrefs
          Requests,  \* HTTP requests that can be in a handler at once
          Slots,     \* requested [from, to] pairs; the service does not order them
          MaxTime,   \* bound of the clock
          MaxWrites  \* bound: upserts that write a row

ASSUME SlotsAssumption == Slots \subseteq [from : Nat, to : Nat]
ASSUME BoundsAssumption == MaxTime \in Nat /\ MaxWrites \in Nat

VARIABLES bookings, \* rows of the bookings table
          used,     \* references with rows in pauses, distances, positions, track
          users,    \* rows of the users table
          calls,    \* requests between two of their statements
          answer,   \* what the last step answered to its client
          now,      \* NOW()
          writes    \* history: upserts that have written so far

vars == <<bookings, used, users, calls, answer, now, writes>>

\* A row; seen and at are history: how many upserts the overlap check that
\* admitted the row had seen, and which upsert wrote it.
Row == [ref : Refs, slot : Slots, owner : Users, seen : 0..MaxWrites, at : 1..MaxWrites]

Update == [kind : {"checked", "clear"}, id : Requests, ref : Refs, slot : Slots,
           user : Users, seen : 0..MaxWrites]
Miss == [kind : {"missed"}, id : Requests, ref : Refs]

Answers == {"none", "accepted", "user not found", "overlap", "started", "not found",
            "failed", "bad request"}

TypeOK ==
  /\ bookings \subseteq Row
  /\ used \subseteq Refs
  /\ users \in [Users -> {"unknown", "active", "deleted"}]
  /\ calls \subseteq Update \cup Miss
  /\ answer \in Answers
  /\ now \in 0..MaxTime
  /\ writes \in 0..MaxWrites

Init ==
  /\ bookings = {}
  /\ used = {}
  /\ users = [u \in Users |-> "unknown"]
  /\ calls = {}
  /\ answer = "none"
  /\ now = 0
  /\ writes = 0

--------------------------------------------------------------------------------
\* Helpers

Idle(r) == \A c \in calls : c.id # r

Answer(a) == answer' = a

\* Mutant of Conflicts: only looks at where the new slot starts.
ConflictsAtStart(b, ref, s) == b.ref # ref /\ b.slot.from <= s.from /\ b.slot.to > s.from

\* Row b stands in the way of giving slot s to ref (the overlap CTE).
Conflicts(b, ref, s) == b.ref # ref /\ b.slot.from < s.to /\ b.slot.to > s.from

\* The id or the body does not parse: the handler answers before any statement.
BadRequest(r) ==
  /\ Idle(r)
  /\ Answer("bad request")
  /\ UNCHANGED <<bookings, used, users, calls, now, writes>>

--------------------------------------------------------------------------------
\* POST /bookings

\* Statement 1: the user must exist and not be deleted.
CheckUser(r, ref, s, u) ==
  /\ Idle(r)
  /\ \/ /\ users[u] = "active"
        /\ calls' = calls \cup {[kind |-> "checked", id |-> r, ref |-> ref, slot |-> s,
                                 user |-> u, seen |-> 0]}
        /\ Answer("none")
     \/ /\ users[u] # "active"
        /\ Answer("user not found")
        /\ UNCHANGED calls
  /\ UNCHANGED <<bookings, used, users, now, writes>>

UpdateBooking(r, ref, s, u) == BadRequest(r) \/ CheckUser(r, ref, s, u)

\* Mutant of LookForOverlap: a booking that exists moves without the second WHERE
\* clause.
LookForOverlapOfNew(c) ==
  /\ c.kind = "checked"
  /\ \/ /\ users[c.user] = "active"
        /\ \/ \E b \in bookings : b.ref = c.ref
           \/ \A b \in bookings : ~Conflicts(b, c.ref, c.slot)
        /\ calls' = (calls \ {c}) \cup {[c EXCEPT !.kind = "clear", !.seen = writes]}
        /\ Answer("none")
     \/ /\ \/ users[c.user] # "active"
           \/ \E b \in bookings : Conflicts(b, c.ref, c.slot)
        /\ calls' = calls \ {c}
        /\ Answer("overlap")
  /\ UNCHANGED <<bookings, used, users, now, writes>>

\* Statement 2 takes its snapshot: no source row for the INSERT when there is an
\* overlap or when the user has been deleted meanwhile.  Both come back as
\* sql.ErrNoRows and are answered as an overlap.
LookForOverlap(c) ==
  /\ c.kind = "checked"
  /\ \/ /\ users[c.user] = "active"
        /\ \A b \in bookings : ~Conflicts(b, c.ref, c.slot)
        /\ calls' = (calls \ {c}) \cup {[c EXCEPT !.kind = "clear", !.seen = writes]}
        /\ Answer("none")
     \/ /\ \/ users[c.user] # "active"
           \/ \E b \in bookings : Conflicts(b, c.ref, c.slot)
        /\ calls' = calls \ {c}
        /\ Answer("overlap")
  /\ UNCHANGED <<bookings, used, users, now, writes>>

\* Mutant of Upsert: the conflicting row takes the new owner too.
UpsertOwner(c) ==
  /\ c.kind = "clear"
  /\ writes < MaxWrites
  /\ bookings' = {b \in bookings : b.ref # c.ref} \cup
                   {[ref |-> c.ref, slot |-> c.slot, owner |-> c.user,
                     seen |-> c.seen, at |-> writes + 1]}
  /\ writes' = writes + 1
  /\ calls' = calls \ {c}
  /\ Answer("accepted")
  /\ UNCHANGED <<used, users, now>>

\* Statement 2 writes: a new row, or ON CONFLICT (booking_reference) the new
\* dates in the row that is there by now, whoever owns it.
Upsert(c) ==
  /\ c.kind = "clear"
  /\ writes < MaxWrites
  /\ LET same == {b \in bookings : b.ref = c.ref}
         new  == [ref |-> c.ref, slot |-> c.slot, owner |-> c.user,
                  seen |-> c.seen, at |-> writes + 1]
     IN bookings' = (bookings \ same) \cup
                      (IF same = {} THEN {new} ELSE {[new EXCEPT !.owner = b.owner] : b \in same})
  /\ writes' = writes + 1
  /\ calls' = calls \ {c}
  /\ Answer("accepted")
  /\ UNCHANGED <<used, users, now>>

--------------------------------------------------------------------------------
\* DELETE /bookings/{id}

\* Mutant of Delete: without the start_date clause.
DeleteStarted(r, ref) ==
  /\ Idle(r)
  /\ LET hit == {b \in bookings : b.ref = ref}
     IN \/ /\ hit # {} /\ ref \notin used
           /\ bookings' = bookings \ hit
           /\ Answer("accepted")
           /\ UNCHANGED calls
        \/ /\ hit # {} /\ ref \in used
           /\ Answer("failed")
           /\ UNCHANGED <<bookings, calls>>
        \/ /\ hit = {}
           /\ calls' = calls \cup {[kind |-> "missed", id |-> r, ref |-> ref]}
           /\ Answer("none")
           /\ UNCHANGED bookings
  /\ UNCHANGED <<used, users, now, writes>>

\* DELETE ... WHERE start_date > NOW().  The foreign keys make it fail when the
\* booking has been paused, ended or tracked.
Delete(r, ref) ==
  /\ Idle(r)
  /\ LET hit == {b \in bookings : b.ref = ref /\ b.slot.from > now}
     IN \/ /\ hit # {} /\ ref \notin used
           /\ bookings' = bookings \ hit
           /\ Answer("accepted")
           /\ UNCHANGED calls
        \/ /\ hit # {} /\ ref \in used
           /\ Answer("failed")
           /\ UNCHANGED <<bookings, calls>>
        \/ /\ hit = {}
           /\ calls' = calls \cup {[kind |-> "missed", id |-> r, ref |-> ref]}
           /\ Answer("none")
           /\ UNCHANGED bookings
  /\ UNCHANGED <<used, users, now, writes>>

DeleteBooking(r, ref) == BadRequest(r) \/ Delete(r, ref)

\* Nothing was deleted: a second statement tells whether it has started.
ExplainMiss(c) ==
  /\ c.kind = "missed"
  /\ Answer(IF \E b \in bookings : b.ref = c.ref /\ b.slot.from <= now
                  THEN "started" ELSE "not found")
  /\ calls' = calls \ {c}
  /\ UNCHANGED <<bookings, used, users, now, writes>>

--------------------------------------------------------------------------------
\* Around the handlers

\* Mutant of Use: the row refers to a booking nobody made.
UseAny(ref) ==
  /\ used' = used \cup {"unknown"}
  /\ Answer("none")
  /\ UNCHANGED <<bookings, users, calls, now, writes>>

\* Pause, end and track requests add rows that reference the booking.
Use(ref) ==
  /\ \E b \in bookings : b.ref = ref
  /\ ref \notin used
  /\ used' = used \cup {ref}
  /\ Answer("none")
  /\ UNCHANGED <<bookings, users, calls, now, writes>>

\* The consumer: INSERT ... ON CONFLICT DO NOTHING.
AddUser(u) ==
  /\ users[u] = "unknown"
  /\ users' = [users EXCEPT ![u] = "active"]
  /\ Answer("none")
  /\ UNCHANGED <<bookings, used, calls, now, writes>>

\* The consumer: UPDATE ... SET deleted = true.  Bookings stay.
DeleteUser(u) ==
  /\ users[u] = "active"
  /\ users' = [users EXCEPT ![u] = "deleted"]
  /\ Answer("none")
  /\ UNCHANGED <<bookings, used, calls, now, writes>>

Tick ==
  /\ now < MaxTime
  /\ now' = now + 1
  /\ Answer("none")
  /\ UNCHANGED <<bookings, used, users, calls, writes>>

Next ==
  \/ \E r \in Requests, ref \in Refs :
       \/ DeleteBooking(r, ref)
       \/ \E s \in Slots, u \in Users : UpdateBooking(r, ref, s, u)
  \/ \E c \in calls : LookForOverlap(c) \/ Upsert(c) \/ ExplainMiss(c)
  \/ \E ref \in Refs : Use(ref)
  \/ \E u \in Users : AddUser(u) \/ DeleteUser(u)
  \/ Tick

Spec == Init /\ [][Next]_vars

--------------------------------------------------------------------------------
\* Properties

\* The instants at which a booking has the vehicle.
Instants(b) == {t \in 0..MaxTime : b.slot.from <= t /\ t < b.slot.to}

\* The vehicle is never promised twice.  ("It is not possible to create a
\* booking that ovelaps another booking", ui/prompt_1.md; bookings.go:103-123.)
NoDoubleBooking ==
  \A a, b \in bookings : a # b => Instants(a) \cap Instants(b) = {}

\* Two bookings overlap only if neither request could see the other's row: each
\* one's overlap check came before the other's write.  Whatever is deleted or
\* moved in between, requests that follow each other never double-book.
OverlapNeedsConcurrency ==
  \A a, b \in bookings :
    a # b /\ Instants(a) \cap Instants(b) # {} => a.seen < b.at /\ b.seen < a.at

\* A row goes only if it had not started when the DELETE ran and nothing refers
\* to it: the history of a used booking is never lost (bookings.go:129).
UsedOrStartedStays ==
  [][\A b \in bookings :
       (\A d \in bookings' : d.ref # b.ref) => b.slot.from > now /\ b.ref \notin used]_vars

\* Moving a booking never hands it to another user, even when two users upsert
\* the same reference at once (bookings.go:115-116).
OwnerKept ==
  [][\A b \in bookings, d \in bookings' : b.ref = d.ref => b.owner = d.owner]_vars
================================================================================
