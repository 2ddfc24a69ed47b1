------------------------------ MODULE BookingTrip ------------------------------
(***************************************************************************)
(* What happens to one booking of the bookings service while the car is    *)
(* out: POST /bookings/{id}/pause, /resume, /track and /end, the route     *)
(* that others read, and the DELETE of the booking itself.                 *)
(*                                                                         *)
(* Only EndBooking runs in a transaction.  The other handlers look the     *)
(* booking up in one statement and act on its id in the next ones, and the *)
(* UPDATE of a resume picks its pause in the snapshot it starts from and   *)
(* locks it later.  Clock and overlap rules are BookingCalendar's.         *)
(***************************************************************************)
EXTENDS Naturals, FiniteSets, Sequences

CONSTANTS Requests,   \* HTTP requests that can be in a handler at once
          MaxPauses,  \* bound: pauses inserted
          MaxEnds,    \* bound: ends committed
          MaxPoints,  \* bound: points stored
          MaxUpload   \* bound: points in the body of one upload

ASSUME RequestsAssumption == IsFiniteSet(Requests)
ASSUME BoundsAssumption ==
  MaxPauses \in Nat /\ MaxEnds \in Nat /\ MaxPoints \in Nat /\ MaxUpload \in Nat \ {0}

VARIABLES booking, \* the row of the booking is there
          pauses,  \* rows of booking_pauses, in the order of paused_at
          ends,    \* rows of distances, each with its booking.ended event in the outbox
          track,   \* number of rows of gps_track_points
          acked,   \* history: points in uploads that were accepted
          calls,   \* requests between two of their statements
          answer   \* what the last step answered to its client

vars == <<booking, pauses, ends, track, acked, calls, answer>>

\* A pause is open while resumed_at IS NULL; seen is history: how many pauses
\* there were when its request saw none open.
Pause == [open : BOOLEAN, seen : 0..MaxPauses]

Found   == [kind : {"pause", "resume"}, id : Requests]
Cleared == [kind : {"cleared"}, id : Requests, seen : 0..MaxPauses]
Claimed == [kind : {"claimed"}, id : Requests, pause : 1..MaxPauses]
Upload  == [kind : {"upload"}, id : Requests, left : 0..MaxUpload, size : 1..MaxUpload]
End     == [kind : {"end"}, id : Requests]

TypeOK ==
  /\ booking \in BOOLEAN
  /\ pauses \in Seq(Pause) /\ Len(pauses) <= MaxPauses
  /\ ends \in 0..MaxEnds
  /\ track \in 0..MaxPoints
  /\ acked \in Nat
  /\ calls \subseteq Found \cup Cleared \cup Claimed \cup Upload \cup End
  /\ answer \in {"none", "accepted", "resumed", "not found", "already paused", "not paused",
                 "failed", "bad request"}

Init ==
  /\ booking = TRUE
  /\ pauses = <<>>
  /\ ends = 0
  /\ track = 0
  /\ acked = 0
  /\ calls = {}
  /\ answer = "none"

--------------------------------------------------------------------------------
\* Helpers

Idle(r) == \A c \in calls : c.id # r

\* The pauses that have not been resumed.
Open == {p \in 1..Len(pauses) : pauses[p].open}

Answer(a) == answer' = a

\* The request of c answers a and is over.
Reply(c, a) ==
  /\ calls' = calls \ {c}
  /\ Answer(a)

\* The request of c goes on as d.
Continue(c, d) ==
  /\ calls' = (calls \ {c}) \cup {d}
  /\ Answer("none")

\* The id or the body does not parse: the handler answers before any statement.
BadRequest(r) ==
  /\ Idle(r)
  /\ Answer("bad request")
  /\ UNCHANGED <<booking, pauses, ends, track, acked, calls>>

--------------------------------------------------------------------------------
\* POST /bookings/{id}/pause

\* Statement 1 of pause, resume and upload: SELECT id FROM bookings.
FindBooking(d) ==
  /\ Idle(d.id)
  /\ \/ booking /\ calls' = calls \cup {d} /\ Answer("none")
     \/ ~booking /\ UNCHANGED calls /\ Answer("not found")
  /\ UNCHANGED <<booking, pauses, ends, track, acked>>

PauseBooking(r) == BadRequest(r) \/ FindBooking([kind |-> "pause", id |-> r])

\* Mutant of CheckPaused: only the latest pause counts.
CheckPausedLatest(c) ==
  /\ c.kind = "pause"
  /\ \/ /\ Len(pauses) \in Open
        /\ Reply(c, "already paused")
     \/ /\ Len(pauses) \notin Open
        /\ Continue(c, [kind |-> "cleared", id |-> c.id, seen |-> Len(pauses)])
  /\ UNCHANGED <<booking, pauses, ends, track, acked>>

\* Statement 2: is there a pause that has not been resumed?
CheckPaused(c) ==
  /\ c.kind = "pause"
  /\ \/ /\ Open # {}
        /\ Reply(c, "already paused")
     \/ /\ Open = {}
        /\ Continue(c, [kind |-> "cleared", id |-> c.id, seen |-> Len(pauses)])
  /\ UNCHANGED <<booking, pauses, ends, track, acked>>

\* Mutant of InsertPause: fk_booking_id without REFERENCES.
InsertPauseNoKey(c) ==
  /\ c.kind = "cleared"
  /\ Len(pauses) < MaxPauses
  /\ pauses' = Append(pauses, [open |-> TRUE, seen |-> c.seen])
  /\ Reply(c, "accepted")
  /\ UNCHANGED <<booking, ends, track, acked>>

\* Statement 3 inserts the pause; the foreign key refuses it when the booking
\* has been deleted meanwhile.
InsertPause(c) ==
  /\ c.kind = "cleared"
  /\ \/ /\ booking
        /\ Len(pauses) < MaxPauses
        /\ pauses' = Append(pauses, [open |-> TRUE, seen |-> c.seen])
        /\ Reply(c, "accepted")
     \/ /\ ~booking
        /\ Reply(c, "failed")
        /\ UNCHANGED pauses
  /\ UNCHANGED <<booking, ends, track, acked>>

--------------------------------------------------------------------------------
\* POST /bookings/{id}/resume

ResumeBooking(r) == BadRequest(r) \/ FindBooking([kind |-> "resume", id |-> r])

\* Statement 2 evaluates its subselect: the open pause with the latest paused_at.
ClaimPause(c) ==
  /\ c.kind = "resume"
  /\ \/ /\ Open = {}
        /\ Reply(c, "not paused")
     \/ \E p \in Open :
          /\ \A q \in Open : q <= p
          /\ Continue(c, [kind |-> "claimed", id |-> c.id, pause |-> p])
  /\ UNCHANGED <<booking, pauses, ends, track, acked>>

\* It then locks that row, and writes it even if another resume did so first:
\* the condition that is checked again is on the id alone.
ClosePause(c) ==
  /\ c.kind = "claimed"
  /\ pauses' = [pauses EXCEPT ![c.pause].open = FALSE]
  /\ Reply(c, "resumed")
  /\ UNCHANGED <<booking, ends, track, acked>>

--------------------------------------------------------------------------------
\* POST /bookings/{id}/track

\* The body holds n points; one without points is as bad as one that is no JSON.
AddTrackPoints(r, n) ==
  \/ n = 0 /\ BadRequest(r)
  \/ n > 0 /\ FindBooking([kind |-> "upload", id |-> r, left |-> n, size |-> n])

\* Mutants of InsertPoint: the loop goes on after an error; it runs once too often.
InsertPointGoesOn(c) ==
  /\ c.kind = "upload"
  /\ c.left > 0
  /\ \/ booking /\ track < MaxPoints /\ track' = track + 1
     \/ UNCHANGED track
  /\ Continue(c, [c EXCEPT !.left = @ - 1])
  /\ UNCHANGED <<booking, pauses, ends, acked>>
InsertPointOnceMore(c) ==
  /\ c.kind = "upload"
  /\ booking
  /\ track < MaxPoints
  /\ track' = track + 1
  /\ Continue(c, [c EXCEPT !.left = @ - 1])
  /\ UNCHANGED <<booking, pauses, ends, acked>>

\* One INSERT per point; an error ends the request and leaves the points before it.
InsertPoint(c) ==
  /\ c.kind = "upload"
  /\ c.left > 0
  /\ \/ /\ booking
        /\ track < MaxPoints
        /\ track' = track + 1
        /\ Continue(c, [c EXCEPT !.left = @ - 1])
     \/ /\ Reply(c, "failed")
        /\ UNCHANGED track
  /\ UNCHANGED <<booking, pauses, ends, acked>>

AcceptUpload(c) ==
  /\ c.kind = "upload"
  /\ c.left = 0
  /\ acked' = acked + c.size
  /\ Reply(c, "accepted")
  /\ UNCHANGED <<booking, pauses, ends, track>>

--------------------------------------------------------------------------------
\* POST /bookings/{id}/end

\* The distance is fixed before the transaction begins: odometer values, or the
\* length of the track that is stored by now.
SettleDistance(r) ==
  /\ Idle(r)
  /\ calls' = calls \cup {[kind |-> "end", id |-> r]}
  /\ Answer("none")
  /\ UNCHANGED <<booking, pauses, ends, track, acked>>

EndBooking(r) == BadRequest(r) \/ SettleDistance(r)

\* The transaction: distance, position and outbox row, or nothing.  It fails on a
\* lost connection, or on the foreign key when a DELETE comes after its SELECT.
CommitEnd(c) ==
  /\ c.kind = "end"
  /\ \/ /\ booking
        /\ ends < MaxEnds
        /\ ends' = ends + 1
        /\ Reply(c, "accepted")
     \/ /\ Reply(c, "failed")
        /\ UNCHANGED ends
     \/ /\ ~booking
        /\ Reply(c, "not found")
        /\ UNCHANGED ends
  /\ UNCHANGED <<booking, pauses, track, acked>>

--------------------------------------------------------------------------------
\* DELETE /bookings/{id}, while the start lies ahead: the foreign keys refuse it
\* when a row refers to the booking.
DeleteBooking ==
  /\ booking
  /\ \/ /\ pauses = <<>> /\ ends = 0 /\ track = 0
        /\ booking' = FALSE
        /\ Answer("accepted")
     \/ /\ ~(pauses = <<>> /\ ends = 0 /\ track = 0)
        /\ Answer("failed")
        /\ UNCHANGED booking
  /\ UNCHANGED <<pauses, ends, track, acked, calls>>

Next ==
  \/ \E r \in Requests :
       \/ PauseBooking(r) \/ ResumeBooking(r) \/ EndBooking(r)
       \/ \E n \in 0..MaxUpload : AddTrackPoints(r, n)
  \/ \E c \in calls :
       \/ CheckPaused(c) \/ InsertPause(c) \/ ClaimPause(c) \/ ClosePause(c)
       \/ InsertPoint(c) \/ AcceptUpload(c) \/ CommitEnd(c)
  \/ DeleteBooking

Spec == Init /\ [][Next]_vars

--------------------------------------------------------------------------------
\* Properties

\* Two pauses are open together only if neither of their requests could see the
\* other's row: a second pause is only accepted in a race (bookings.go:223-238).
OpenPausesRaced ==
  \A p, q \in Open : p # q => pauses[p].seen < q /\ pauses[q].seen < p

\* Races do not pile up: there are never more open pauses than requests that can
\* run at once, however often the booking is paused and resumed.
OpenPausesBounded == Cardinality(Open) <= Cardinality(Requests)

\* A row that refers to the booking has it: neither pause, upload nor end, each
\* looking the booking up before it writes, outlives a DELETE (bookings.go:129).
NoOrphans == ~booking => pauses = <<>> /\ ends = 0 /\ track = 0

\* What an upload was told is stored is stored, even when others fail half-way
\* (bookings.go:342-350).
AcceptedPointsStored == acked <= track
================================================================================
