--------------------------- MODULE BookingTrip_proofs ---------------------------
(***************************************************************************)
(* Proofs about BookingTrip, for any finite set of concurrent requests and *)
(* any bounds.                                                             *)
(***************************************************************************)
EXTENDS BookingTrip, FiniteSetTheorems, TLAPS

--------------------------------------------------------------------------------
\* The inductive invariant

\* A request is in one handler at a time.
OneCall == \A c, d \in calls : c.id = d.id => c = d

\* History runs forward, and a claimed pause exists.
HistoryInv ==
  /\ \A p \in 1..Len(pauses) : pauses[p].seen < p
  /\ \A c \in calls : c.kind = "cleared" => c.seen <= Len(pauses)
  /\ \A c \in calls : c.kind = "claimed" => c.pause <= Len(pauses)

\* A request that saw no open pause is only in a race with the open ones.
ClearedInv == \A c \in calls : c.kind = "cleared" => \A p \in Open : c.seen < p

IInv == TypeOK /\ OneCall /\ HistoryInv /\ ClearedInv /\ OpenPausesRaced /\ NoOrphans

--------------------------------------------------------------------------------
\* Type correctness

\* A call is of its kind.
LEMMA CallType ==
  ASSUME TypeOK, NEW c \in calls
  PROVE  /\ c.id \in Requests
         /\ c.kind = "cleared" => c \in Cleared
         /\ c.kind = "claimed" => c \in Claimed
         /\ c.kind = "upload" => c \in Upload
BY DEF TypeOK, Found, Cleared, Claimed, Upload, End

\* Stays within a bound when it is below it.
LEMMA CountsUp ==
  ASSUME NEW m \in Nat, NEW n \in 0..m, n < m
  PROVE  n + 1 \in 0..m
OBVIOUS

\* How a request that does not end at once goes on.
Started ==
  \E r \in Requests :
    \/ SettleDistance(r)
    \/ \E k \in {"pause", "resume"} : FindBooking([kind |-> k, id |-> r])
    \/ \E n \in 1..MaxUpload :
         FindBooking([kind |-> "upload", id |-> r, left |-> n, size |-> n])

\* The steps of the service, one statement each.
LEMMA Steps ==
  Next => \/ Started \/ DeleteBooking \/ \E r \in Requests : BadRequest(r)
          \/ \E c \in calls :
               \/ CheckPaused(c) \/ InsertPause(c) \/ ClaimPause(c) \/ ClosePause(c)
               \/ InsertPoint(c) \/ AcceptUpload(c) \/ CommitEnd(c)
<1>1. ASSUME NEW r \in Requests, NEW n \in 0..MaxUpload, AddTrackPoints(r, n), ~BadRequest(r)
      PROVE  Started
  <2>1. n \in 1..MaxUpload
    BY <1>1, BoundsAssumption DEF AddTrackPoints
  <2>2. QED
    BY <1>1, <2>1 DEF AddTrackPoints, Started
<1>2. ASSUME NEW r \in Requests, PauseBooking(r) \/ ResumeBooking(r) \/ EndBooking(r),
             ~BadRequest(r)
      PROVE  Started
  BY <1>2, Zenon DEF PauseBooking, ResumeBooking, EndBooking, Started
<1>3. QED
  BY <1>1, <1>2 DEF Next

\* No step takes a variable out of its type.
LEMMA TypeStep == TypeOK /\ HistoryInv /\ [Next]_vars => TypeOK'
<1> SUFFICES ASSUME TypeOK, HistoryInv, [Next]_vars
             PROVE  TypeOK'
  OBVIOUS
<1> DEFINE Calls == Found \cup Cleared \cup Claimed \cup Upload \cup End
           Answers == {"none", "accepted", "resumed", "not found", "already paused",
                       "not paused", "failed", "bad request"}
<1>a. ASSUME UNCHANGED <<booking, pauses, ends, track, acked>>, calls' \subseteq Calls,
             answer' \in Answers
      PROVE  TypeOK'
  BY <1>a DEF TypeOK
<1>b. pauses \in Seq(Pause) /\ Len(pauses) <= MaxPauses /\ Len(pauses) \in Nat
      /\ calls \subseteq Calls
  <2>1. pauses \in Seq(Pause) /\ Len(pauses) <= MaxPauses /\ calls \subseteq Calls
    BY DEF TypeOK
  <2>2. Len(pauses) \in Nat
    BY ONLY <2>1
  <2>3. QED
    BY ONLY <2>1, <2>2
<1>1. ASSUME NEW d \in Calls, FindBooking(d)
      PROVE  TypeOK'
  BY <1>1, <1>a, <1>b DEF FindBooking, Answer
<1>2. ASSUME NEW r \in Requests, SettleDistance(r)
      PROVE  TypeOK'
  <2>1. [kind |-> "end", id |-> r] \in End
    BY DEF End
  <2>2. QED
    BY <1>2, <2>1, <1>a, <1>b DEF SettleDistance, Answer
<1>3. ASSUME NEW c \in calls, CheckPaused(c)
      PROVE  TypeOK'
  <2>1. Len(pauses) \in 0..MaxPauses
    BY ONLY <1>b, BoundsAssumption
  <2>2. [kind |-> "cleared", id |-> c.id, seen |-> Len(pauses)] \in Cleared
    BY <2>1, CallType DEF Cleared
  <2>3. QED
    BY <1>3, <2>2, <1>a, <1>b DEF CheckPaused, Answer, Reply, Continue
<1>4. ASSUME NEW c \in calls, InsertPause(c)
      PROVE  TypeOK'
  <2>1. c.seen \in 0..MaxPauses
    BY <1>4, CallType DEF InsertPause, Cleared
  <2> DEFINE new == [open |-> TRUE, seen |-> c.seen]
  <2>2. new \in Pause
    BY <2>1 DEF Pause
  <2>3. pauses' = pauses \/ (pauses' = Append(pauses, new) /\ Len(pauses) < MaxPauses)
    BY <1>4 DEF InsertPause
  <2> HIDE DEF new
  <2>4. pauses' \in Seq(Pause) /\ Len(pauses') <= MaxPauses
    BY ONLY <2>2, <2>3, <1>b, BoundsAssumption
  <2>5. /\ UNCHANGED <<booking, ends, track, acked>> /\ calls' \subseteq Calls
        /\ answer' \in Answers
    BY <1>4, <1>b DEF InsertPause, Reply, Answer
  <2>6. QED
    BY <2>4, <2>5 DEF TypeOK
<1>5. ASSUME NEW c \in calls, ClaimPause(c)
      PROVE  TypeOK'
  <2>1. ASSUME NEW p \in Open
        PROVE  [kind |-> "claimed", id |-> c.id, pause |-> p] \in Claimed
    <3>1. p \in 1..MaxPauses
      BY <1>b, BoundsAssumption DEF Open
    <3>2. QED
      BY <3>1, CallType DEF Claimed
  <2>2. QED
    BY <1>5, <2>1, <1>a, <1>b DEF ClaimPause, Answer, Reply, Continue
<1>6. ASSUME NEW c \in calls, ClosePause(c)
      PROVE  TypeOK'
  <2>1. c.pause \in 1..Len(pauses)
    <3>1. c.pause \in 1..MaxPauses
      BY <1>6, CallType DEF ClosePause, Claimed
    <3>2. c.pause <= Len(pauses)
      BY <1>6 DEF ClosePause, HistoryInv
    <3>3. QED
      BY ONLY <3>1, <3>2, <1>b, BoundsAssumption
  <2> DEFINE closed == [pauses[c.pause] EXCEPT !.open = FALSE]
  <2>2. closed \in Pause
    <3>1. pauses[c.pause] \in Pause
      BY ONLY <2>1, <1>b
    <3>2. QED
      BY ONLY <3>1 DEF Pause
  <2>3. pauses' = [pauses EXCEPT ![c.pause] = closed]
    BY <1>6 DEF ClosePause
  <2> HIDE DEF closed
  <2>4. pauses' \in Seq(Pause) /\ Len(pauses') <= MaxPauses
    BY ONLY <2>1, <2>2, <2>3, <1>b
  <2>5. /\ UNCHANGED <<booking, ends, track, acked>> /\ calls' \subseteq Calls
        /\ answer' \in Answers
    BY <1>6, <1>b DEF ClosePause, Reply, Answer
  <2>6. QED
    BY <2>4, <2>5 DEF TypeOK
<1>7. ASSUME NEW c \in calls, InsertPoint(c)
      PROVE  TypeOK'
  <2> DEFINE d == [c EXCEPT !.left = @ - 1]
  <2>1. c \in Upload /\ c.left > 0
    BY <1>7, CallType DEF InsertPoint
  <2>2. d \in Upload
    <3>1. c.left - 1 \in 0..MaxUpload
      BY <2>1, BoundsAssumption DEF Upload
    <3>2. QED
      BY <2>1, <3>1 DEF Upload
  <2>3. track' \in 0..MaxPoints
    <3>1. track \in 0..MaxPoints /\ (track' = track \/ (track' = track + 1 /\ track < MaxPoints))
      BY <1>7 DEF InsertPoint, TypeOK
    <3>2. QED
      BY ONLY <3>1, CountsUp, BoundsAssumption
  <2>4. UNCHANGED <<booking, pauses, ends, acked>>
    BY <1>7 DEF InsertPoint
  <2>5. calls' \subseteq calls \cup {d} /\ answer' \in Answers
    BY <1>7 DEF InsertPoint, Reply, Continue, Answer
  <2>6. calls' \subseteq Calls
    BY <2>2, <2>5, <1>b
  <2>7. QED
    BY <2>3, <2>4, <2>5, <2>6 DEF TypeOK
<1>8. ASSUME NEW c \in calls, AcceptUpload(c)
      PROVE  TypeOK'
  <2>1. acked' \in Nat
    <3>1. acked \in Nat /\ c.size \in 1..MaxUpload /\ acked' = acked + c.size
      BY <1>8, CallType DEF AcceptUpload, Upload, TypeOK
    <3>2. QED
      BY ONLY <3>1
  <2>2. /\ UNCHANGED <<booking, pauses, ends, track>> /\ calls' \subseteq Calls
        /\ answer' \in Answers
    BY <1>8, <1>b DEF AcceptUpload, Reply, Answer
  <2>3. QED
    BY <2>1, <2>2 DEF TypeOK
<1>9. ASSUME NEW c \in calls, CommitEnd(c)
      PROVE  TypeOK'
  <2>1. ends' \in 0..MaxEnds
    <3>1. ends \in 0..MaxEnds /\ (ends' = ends \/ (ends' = ends + 1 /\ ends < MaxEnds))
      BY <1>9 DEF CommitEnd, TypeOK
    <3>2. QED
      BY ONLY <3>1, CountsUp, BoundsAssumption
  <2>2. /\ UNCHANGED <<booking, pauses, track, acked>> /\ calls' \subseteq Calls
        /\ answer' \in Answers
    BY <1>9, <1>b DEF CommitEnd, Reply, Answer
  <2>3. QED
    BY <2>1, <2>2 DEF TypeOK
<1>10. CASE DeleteBooking
  <2>1. booking' \in BOOLEAN /\ answer' \in Answers
    BY <1>10 DEF DeleteBooking, Answer, TypeOK
  <2>2. QED
    BY <1>10, <2>1 DEF DeleteBooking, TypeOK
<1>11. CASE (\E r \in Requests : BadRequest(r)) \/ UNCHANGED vars
  <2>1. answer' = answer \/ answer' \in Answers
    BY <1>11 DEF BadRequest, Answer, vars
  <2>2. QED
    BY <1>11, <2>1 DEF BadRequest, vars, TypeOK
<1>12. ASSUME NEW r \in Requests
       PROVE  /\ \A k \in {"pause", "resume"} : [kind |-> k, id |-> r] \in Calls
              /\ \A n \in 1..MaxUpload :
                   [kind |-> "upload", id |-> r, left |-> n, size |-> n] \in Calls
  <2>1. \A n \in 1..MaxUpload : n \in 0..MaxUpload
    BY ONLY BoundsAssumption
  <2>2. QED
    BY <2>1 DEF Found, Upload
<1>13. QED
  BY <1>1, <1>2, <1>3, <1>4, <1>5, <1>6, <1>7, <1>8, <1>9, <1>10, <1>11, <1>12, Steps
  DEF Started

--------------------------------------------------------------------------------
\* Safety

\* A step that inserts no pause, opens none, and adds no call that history is
\* about, keeps the history of pauses.
LEMMA KeepsHistory ==
  ASSUME IInv,
         Len(pauses') = Len(pauses),
         \A p \in 1..Len(pauses) : pauses'[p].seen = pauses[p].seen,
         \A p \in 1..Len(pauses) : pauses'[p].open => pauses[p].open,
         \A c \in calls' : c.kind \in {"cleared", "claimed"} => c \in calls
  PROVE  HistoryInv' /\ ClearedInv' /\ OpenPausesRaced'
<1>1. Open' \subseteq Open
  BY DEF Open
<1>2. HistoryInv'
  BY DEF IInv, HistoryInv
<1>3. ClearedInv'
  BY <1>1 DEF IInv, ClearedInv
<1>4. OpenPausesRaced'
  BY <1>1 DEF IInv, OpenPausesRaced, Open
<1>5. QED
  BY <1>2, <1>3, <1>4

\* Every step preserves the inductive invariant.
LEMMA InvariantStep == IInv /\ [Next]_vars => IInv'
<1> SUFFICES ASSUME IInv, [Next]_vars
             PROVE  IInv'
  OBVIOUS
<1>t. TypeOK'
  BY TypeStep DEF IInv
<1>len. Len(pauses) \in Nat /\ pauses \in Seq(Pause)
  <2>1. pauses \in Seq(Pause)
    BY DEF IInv, TypeOK
  <2>2. QED
    BY ONLY <2>1
<1>seen. \A c \in calls : c.kind = "cleared" => c.seen \in Nat
  BY CallType DEF IInv, Cleared
<1>1. OneCall'
  <2>1. ASSUME NEW d, Idle(d.id), calls' = calls \cup {d}
        PROVE  OneCall'
    BY <2>1 DEF IInv, OneCall, Idle
  <2>2. ASSUME NEW c \in calls, NEW d, d.id = c.id, Continue(c, d)
        PROVE  OneCall'
    BY <2>2 DEF IInv, OneCall, Continue
  <2>3. ASSUME calls' \subseteq calls
        PROVE  OneCall'
    BY <2>3 DEF IInv, OneCall
  <2>4. ASSUME NEW d, FindBooking(d)
        PROVE  OneCall'
    BY <2>1, <2>3, <2>4 DEF FindBooking
  <2>5. ASSUME NEW r \in Requests, SettleDistance(r)
        PROVE  OneCall'
    <3>1. Idle([kind |-> "end", id |-> r].id)
      BY <2>5 DEF SettleDistance
    <3>2. calls' = calls \cup {[kind |-> "end", id |-> r]}
      BY <2>5 DEF SettleDistance
    <3>3. QED
      BY ONLY <2>1, <3>1, <3>2
  <2>6. ASSUME NEW c \in calls, CheckPaused(c)
        PROVE  OneCall'
    BY <2>2, <2>3, <2>6 DEF CheckPaused, Reply
  <2>7. ASSUME NEW c \in calls, ClaimPause(c)
        PROVE  OneCall'
    BY <2>2, <2>3, <2>7 DEF ClaimPause, Reply
  <2>8. ASSUME NEW c \in calls, InsertPoint(c)
        PROVE  OneCall'
    <3>1. [c EXCEPT !.left = @ - 1].id = c.id
      BY <2>8, CallType DEF InsertPoint, IInv, Upload
    <3>2. QED
      BY <2>2, <2>3, <2>8, <3>1 DEF InsertPoint, Reply
  <2>9. ASSUME NEW c \in calls,
               InsertPause(c) \/ ClosePause(c) \/ AcceptUpload(c) \/ CommitEnd(c)
        PROVE  OneCall'
    BY <2>3, <2>9 DEF InsertPause, ClosePause, AcceptUpload, CommitEnd, Reply
  <2>10. CASE DeleteBooking \/ (\E r \in Requests : BadRequest(r)) \/ UNCHANGED vars
    BY <2>3, <2>10 DEF DeleteBooking, BadRequest, vars
  <2>11. QED
    BY <2>4, <2>5, <2>6, <2>7, <2>8, <2>9, <2>10, Steps DEF Started
<1>2. NoOrphans'
  <2> USE DEF IInv, NoOrphans
  <2>1. ASSUME NEW d, FindBooking(d)
        PROVE  NoOrphans'
    BY <2>1 DEF FindBooking
  <2>2. ASSUME NEW c \in calls, CheckPaused(c) \/ ClaimPause(c) \/ AcceptUpload(c)
        PROVE  NoOrphans'
    BY <2>2 DEF CheckPaused, ClaimPause, AcceptUpload
  <2>3. ASSUME NEW c \in calls, InsertPause(c)
        PROVE  NoOrphans'
    BY <2>3 DEF InsertPause
  <2>4. ASSUME NEW c \in calls, ClosePause(c)
        PROVE  NoOrphans'
    <3>1. pauses = <<>> => pauses' = <<>>
      BY <2>4 DEF ClosePause
    <3>2. QED
      BY <2>4, <3>1 DEF ClosePause
  <2>5. ASSUME NEW c \in calls, InsertPoint(c) \/ CommitEnd(c)
        PROVE  NoOrphans'
    <3>1. booking => booking'
      BY <2>5 DEF InsertPoint, CommitEnd
    <3>2. ~booking => UNCHANGED <<pauses, ends, track>>
      BY <2>5 DEF InsertPoint, CommitEnd
    <3>3. QED
      BY <3>1, <3>2
  <2>6. CASE (\E r \in Requests : SettleDistance(r)) \/ DeleteBooking \/ UNCHANGED vars
    BY <2>6 DEF SettleDistance, DeleteBooking, vars
  <2>7. ASSUME NEW r \in Requests, BadRequest(r)
        PROVE  NoOrphans'
    BY <2>7 DEF BadRequest
  <2>8. QED
    BY <2>1, <2>2, <2>3, <2>4, <2>5, <2>6, <2>7, Steps DEF Started
<1>3. HistoryInv' /\ ClearedInv' /\ OpenPausesRaced'
  <2>1. ASSUME NEW c \in calls, CheckPaused(c)
        PROVE  HistoryInv' /\ ClearedInv' /\ OpenPausesRaced'
    <3> DEFINE d == [kind |-> "cleared", id |-> c.id, seen |-> Len(pauses)]
    <3>1. CASE Open # {}
      BY <2>1, <3>1, KeepsHistory DEF CheckPaused, Reply
    <3>2. CASE Open = {}
      <4>1. calls' \subseteq calls \cup {d} /\ pauses' = pauses
        BY <2>1, <3>2 DEF CheckPaused, Continue
      <4>2. Open' = {}
        BY <3>2, <4>1 DEF Open
      <4>3. HistoryInv'
        BY <4>1, <1>len DEF IInv, HistoryInv
      <4>4. QED
        BY <4>2, <4>3 DEF ClearedInv, OpenPausesRaced
    <3>3. QED
      BY <3>1, <3>2
  <2>2. ASSUME NEW c \in calls, InsertPause(c), booking
        PROVE  HistoryInv' /\ ClearedInv' /\ OpenPausesRaced'
    <3> DEFINE n == Len(pauses) + 1
    <3>1. /\ pauses' = Append(pauses, [open |-> TRUE, seen |-> c.seen])
          /\ calls' \subseteq calls /\ c.kind = "cleared"
      BY <2>2 DEF InsertPause, Reply
    <3>2. /\ Len(pauses') = n /\ pauses'[n].seen = c.seen
          /\ \A p \in 1..Len(pauses) : pauses'[p] = pauses[p]
      BY ONLY <3>1, <1>len
    <3>3. c.seen \in Nat /\ c.seen <= Len(pauses)
      BY <3>1, <1>seen DEF IInv, HistoryInv
    <3>4. Open' \subseteq Open \cup {n}
      BY <3>2, <1>len DEF Open
    <3>5. \A p \in 1..Len(pauses) : pauses[p].seen \in Nat /\ pauses[p].seen < p
      <4>1. \A p \in 1..Len(pauses) : pauses[p] \in Pause
        BY ONLY <1>len
      <4>2. QED
        BY <4>1, BoundsAssumption DEF Pause, IInv, HistoryInv
    <3>6. HistoryInv'
      <4>1. \A p \in 1..Len(pauses') : pauses'[p].seen < p
        BY ONLY <3>2, <3>3, <3>5, <1>len
      <4>2. \A d \in calls : d.kind = "claimed" => d.pause \in Nat
        BY CallType, BoundsAssumption DEF IInv, Claimed
      <4>3. QED
        BY <4>1, <4>2, <3>1, <3>2, <1>len, <1>seen DEF IInv, HistoryInv
    <3>7. ClearedInv'
      <4>1. ASSUME NEW d \in calls, d.kind = "cleared", NEW p \in Open'
            PROVE  d.seen < p
        <5>1. CASE p = n
          BY <4>1, <5>1, <1>len, <1>seen DEF IInv, HistoryInv
        <5>2. CASE p \in Open
          BY <4>1, <5>2 DEF IInv, ClearedInv
        <5>3. QED
          BY <3>4, <5>1, <5>2
      <4>2. QED
        BY <3>1, <4>1 DEF ClearedInv
    <3>8. ASSUME NEW p \in Open', NEW q \in Open', p # q
          PROVE  pauses'[p].seen < q
      <4>1. CASE p = n
        <5>1. q \in Open
          BY <3>4, <3>8, <4>1
        <5>2. QED
          BY <3>1, <3>2, <4>1, <5>1 DEF IInv, ClearedInv
      <4>2. CASE p # n /\ q = n
        <5>1. p \in Open
          BY <3>4, <4>2
        <5>2. p \in 1..Len(pauses)
          BY <5>1 DEF Open
        <5>3. QED
          BY ONLY <4>2, <5>2, <3>2, <3>5, <1>len
      <4>3. CASE p # n /\ q # n
        <5>1. p \in Open /\ q \in Open /\ p \in 1..Len(pauses)
          BY <3>4, <4>3 DEF Open
        <5>2. QED
          BY <3>2, <3>8, <5>1 DEF IInv, OpenPausesRaced
      <4>4. QED
        BY <4>1, <4>2, <4>3
    <3>9. QED
      BY <3>6, <3>7, <3>8 DEF OpenPausesRaced
  <2>3. ASSUME NEW c \in calls, ClaimPause(c)
        PROVE  HistoryInv' /\ ClearedInv' /\ OpenPausesRaced'
    <3>1. CASE Open = {}
      BY <2>3, <3>1, KeepsHistory DEF ClaimPause, Reply
    <3>2. ASSUME NEW p \in Open, pauses' = pauses,
                 calls' = (calls \ {c}) \cup {[kind |-> "claimed", id |-> c.id, pause |-> p]}
          PROVE  HistoryInv' /\ ClearedInv' /\ OpenPausesRaced'
      <4>1. p <= Len(pauses)
        BY <1>len DEF Open
      <4>2. HistoryInv'
        BY <3>2, <4>1 DEF IInv, HistoryInv
      <4>3. Open' = Open
        BY <3>2 DEF Open
      <4>4. QED
        BY <3>2, <4>2, <4>3 DEF IInv, ClearedInv, OpenPausesRaced
    <3>3. QED
      BY <2>3, <3>1, <3>2 DEF ClaimPause, Continue
  <2>4. ASSUME NEW c \in calls, ClosePause(c)
        PROVE  HistoryInv' /\ ClearedInv' /\ OpenPausesRaced'
    <3>1. calls' \subseteq calls /\ pauses' = [pauses EXCEPT ![c.pause].open = FALSE]
      BY <2>4 DEF ClosePause, Reply
    <3>2. \A p \in 1..Len(pauses) : pauses[p] \in Pause
      BY ONLY <1>len
    <3>0. c.pause \in 1..Len(pauses)
      <4>1. c.pause \in 1..MaxPauses
        BY <2>4, CallType DEF ClosePause, IInv, Claimed
      <4>2. c.pause <= Len(pauses)
        BY <2>4 DEF ClosePause, IInv, HistoryInv
      <4>3. QED
        BY ONLY <4>1, <4>2, <1>len, BoundsAssumption
    <3> DEFINE closed == [pauses[c.pause] EXCEPT !.open = FALSE]
    <3>3. closed.seen = pauses[c.pause].seen /\ ~closed.open /\ closed \in Pause
      <4>1. pauses[c.pause] \in Pause
        BY <3>0, <3>2
      <4>2. QED
        BY ONLY <4>1 DEF Pause
    <3>4. pauses' = [pauses EXCEPT ![c.pause] = closed]
      BY <3>1
    <3> HIDE DEF closed
    <3>5. /\ Len(pauses') = Len(pauses)
          /\ \A p \in 1..Len(pauses) : pauses'[p] = IF p = c.pause THEN closed ELSE pauses[p]
      BY ONLY <3>0, <3>3, <3>4, <1>len
    <3>6. \A p \in 1..Len(pauses) : /\ pauses'[p].seen = pauses[p].seen
                                    /\ pauses'[p].open => pauses[p].open
      BY ONLY <3>3, <3>5
    <3>7. QED
      BY <3>1, <3>5, <3>6, KeepsHistory
  <2>5. ASSUME pauses' = pauses,
               \A c \in calls' : c.kind \in {"cleared", "claimed"} => c \in calls
        PROVE  HistoryInv' /\ ClearedInv' /\ OpenPausesRaced'
    BY <2>5, KeepsHistory
  <2>6. ASSUME NEW c \in calls, InsertPoint(c)
        PROVE  HistoryInv' /\ ClearedInv' /\ OpenPausesRaced'
    <3>1. [c EXCEPT !.left = @ - 1].kind = "upload"
      BY <2>6, CallType DEF InsertPoint, IInv, Upload
    <3>2. calls' \subseteq calls \cup {[c EXCEPT !.left = @ - 1]} /\ pauses' = pauses
      BY <2>6 DEF InsertPoint, Reply, Continue
    <3>3. QED
      BY <2>5, <3>1, <3>2
  <2>7. ASSUME NEW c \in calls,
               (InsertPause(c) /\ ~booking) \/ AcceptUpload(c) \/ CommitEnd(c)
        PROVE  HistoryInv' /\ ClearedInv' /\ OpenPausesRaced'
    BY <2>5, <2>7 DEF InsertPause, AcceptUpload, CommitEnd, Reply
  <2>8. ASSUME NEW d, d.kind \in {"pause", "resume", "upload"}, FindBooking(d)
        PROVE  HistoryInv' /\ ClearedInv' /\ OpenPausesRaced'
    BY <2>5, <2>8 DEF FindBooking
  <2>9. CASE (\E r \in Requests : SettleDistance(r)) \/ DeleteBooking \/ UNCHANGED vars
    BY <2>5, <2>9 DEF SettleDistance, DeleteBooking, vars
  <2>10. ASSUME NEW r \in Requests, NEW k \in {"pause", "resume"},
                FindBooking([kind |-> k, id |-> r])
         PROVE  HistoryInv' /\ ClearedInv' /\ OpenPausesRaced'
    <3>1. [kind |-> k, id |-> r].kind \in {"pause", "resume", "upload"}
      OBVIOUS
    <3>2. QED
      BY ONLY <2>8, <2>10, <3>1
  <2>11. ASSUME NEW r \in Requests, NEW n \in 1..MaxUpload,
                FindBooking([kind |-> "upload", id |-> r, left |-> n, size |-> n])
         PROVE  HistoryInv' /\ ClearedInv' /\ OpenPausesRaced'
    BY <2>8, <2>11
  <2>12. ASSUME NEW r \in Requests, BadRequest(r)
         PROVE  HistoryInv' /\ ClearedInv' /\ OpenPausesRaced'
    BY <2>5, <2>12 DEF BadRequest
  <2>13. QED
    BY <2>1, <2>2, <2>3, <2>4, <2>6, <2>7, <2>9, <2>10, <2>11, <2>12, Steps DEF Started
<1>4. QED
  BY <1>t, <1>1, <1>2, <1>3 DEF IInv

\* The inductive invariant holds in every reachable state.
THEOREM Invariance == Spec => []IInv
<1>1. Init => IInv
  <2> SUFFICES ASSUME Init
               PROVE  IInv
    OBVIOUS
  <2>1. TypeOK
    BY BoundsAssumption DEF Init, TypeOK
  <2>2. Len(pauses) = 0 /\ calls = {}
    BY DEF Init
  <2>3. OneCall /\ HistoryInv /\ ClearedInv /\ OpenPausesRaced /\ NoOrphans
    BY <2>2 DEF Init, OneCall, HistoryInv, ClearedInv, OpenPausesRaced, NoOrphans, Open
  <2>4. QED
    BY <2>1, <2>3 DEF IInv
<1>2. QED
  BY <1>1, InvariantStep, PTL DEF Spec

\* Every variable keeps its type in every reachable state.
THEOREM TypeCorrect == Spec => []TypeOK
<1>1. IInv => TypeOK
  BY DEF IInv
<1>2. QED
  BY <1>1, Invariance, PTL

\* Two pauses are open at once only after a race.
THEOREM PausesRace == Spec => []OpenPausesRaced
<1>1. IInv => OpenPausesRaced
  BY DEF IInv
<1>2. QED
  BY <1>1, Invariance, PTL

\* No row refers to a deleted booking.
THEOREM RowsHaveBooking == Spec => []NoOrphans
<1>1. IInv => NoOrphans
  BY DEF IInv
<1>2. QED
  BY <1>1, Invariance, PTL

--------------------------------------------------------------------------------
\* The number of open pauses

ClearedIds == {c.id : c \in {d \in calls : d.kind = "cleared"}}

\* While the booking is paused, open pauses and requests about to add one share
\* the places of the requests: nobody is cleared while a pause is open.
BoundInv ==
  Open # {} => Cardinality(Open) + Cardinality(ClearedIds) <= Cardinality(Requests)

\* Both sets are finite.
LEMMA FiniteSides ==
  ASSUME IInv
  PROVE  /\ IsFiniteSet(Open) /\ Cardinality(Open) \in Nat
         /\ IsFiniteSet(ClearedIds) /\ Cardinality(ClearedIds) \in Nat
         /\ Cardinality(ClearedIds) <= Cardinality(Requests)
         /\ Cardinality(Requests) \in Nat
<1>1. Len(pauses) \in Nat
  <2>1. pauses \in Seq(Pause)
    BY DEF IInv, TypeOK
  <2>2. QED
    BY ONLY <2>1
<1>2. IsFiniteSet(1..Len(pauses))
  BY <1>1, FS_Interval
<1>3. IsFiniteSet(Open)
  BY <1>2, FS_Subset DEF Open
<1>4. ClearedIds \subseteq Requests
  BY CallType DEF ClearedIds, IInv
<1>5. IsFiniteSet(ClearedIds) /\ Cardinality(ClearedIds) <= Cardinality(Requests)
  BY <1>4, RequestsAssumption, FS_Subset
<1>6. QED
  BY <1>3, <1>5, RequestsAssumption, FS_CardinalityType

\* A step under which neither side grows keeps the bound.
LEMMA KeepsBound ==
  ASSUME IInv, BoundInv, Open' \subseteq Open, ClearedIds' \subseteq ClearedIds
  PROVE  BoundInv'
<1>1. Cardinality(Open') <= Cardinality(Open) /\ Cardinality(Open') \in Nat
  BY FiniteSides, FS_Subset, FS_CardinalityType
<1>2. Cardinality(ClearedIds') <= Cardinality(ClearedIds) /\ Cardinality(ClearedIds') \in Nat
  BY FiniteSides, FS_Subset, FS_CardinalityType
<1>3. ASSUME Open' # {}
      PROVE  Cardinality(Open') + Cardinality(ClearedIds') <= Cardinality(Requests)
  <2>1. Cardinality(Open) + Cardinality(ClearedIds) <= Cardinality(Requests)
    BY <1>3 DEF BoundInv
  <2>2. QED
    BY <1>1, <1>2, <2>1, FiniteSides
<1>4. QED
  BY <1>3 DEF BoundInv

\* Every step keeps the bound.
LEMMA BoundStep == IInv /\ BoundInv /\ [Next]_vars => BoundInv'
<1> SUFFICES ASSUME IInv, BoundInv, [Next]_vars
             PROVE  BoundInv'
  OBVIOUS
<1>len. Len(pauses) \in Nat /\ pauses \in Seq(Pause)
  <2>1. pauses \in Seq(Pause)
    BY DEF IInv, TypeOK
  <2>2. QED
    BY ONLY <2>1
<1>1. ASSUME NEW c \in calls, InsertPause(c), booking
      PROVE  BoundInv'
  <2> DEFINE n == Len(pauses) + 1
  <2>1. /\ pauses' = Append(pauses, [open |-> TRUE, seen |-> c.seen])
        /\ calls' = calls \ {c} /\ c.kind = "cleared"
    BY <1>1 DEF InsertPause, Reply
  <2>2. /\ Len(pauses') = n /\ pauses'[n].open
        /\ \A p \in 1..Len(pauses) : pauses'[p] = pauses[p]
    BY ONLY <2>1, <1>len
  <2>3. Open' = Open \cup {n} /\ n \notin Open
    BY <2>2, <1>len DEF Open
  <2>4. c.id \in ClearedIds /\ ClearedIds' = ClearedIds \ {c.id}
    BY <2>1 DEF ClearedIds, IInv, OneCall
  <2>5. Cardinality(Open') = Cardinality(Open) + 1
    BY <2>3, FiniteSides, FS_AddElement
  <2>6. Cardinality(ClearedIds') = Cardinality(ClearedIds) - 1
    BY <2>4, FiniteSides, FS_RemoveElement
  <2>7. Open = {} => Cardinality(Open) = 0
    BY FS_EmptySet
  <2>8. Cardinality(Open') + Cardinality(ClearedIds') <= Cardinality(Requests)
    BY <2>5, <2>6, <2>7, FiniteSides DEF BoundInv
  <2>9. QED
    BY <2>8 DEF BoundInv
<1>2. ASSUME NEW c \in calls, CheckPaused(c)
      PROVE  BoundInv'
  <2>1. CASE Open = {}
    <3>1. Open' = {}
      BY <1>2, <2>1 DEF CheckPaused, Open
    <3>2. QED
      BY <3>1 DEF BoundInv
  <2>2. CASE Open # {}
    <3>1. Open' \subseteq Open /\ ClearedIds' \subseteq ClearedIds
      BY <1>2, <2>2 DEF CheckPaused, Reply, Open, ClearedIds
    <3>2. QED
      BY <3>1, KeepsBound
  <2>3. QED
    BY <2>1, <2>2
<1>3. ASSUME UNCHANGED pauses, \A d \in calls' : d.kind = "cleared" => d \in calls
      PROVE  BoundInv'
  BY <1>3, KeepsBound DEF Open, ClearedIds
<1>4. ASSUME NEW c \in calls, ClosePause(c)
      PROVE  BoundInv'
  <2>1. \A p \in 1..Len(pauses) : pauses[p] \in Pause
    BY ONLY <1>len
  <2>2. Len(pauses') = Len(pauses) /\ c.pause \in DOMAIN pauses => ~pauses'[c.pause].open
    BY <1>4, <2>1, <1>len DEF ClosePause, Pause
  <2>3. \A p \in 1..Len(pauses) : p # c.pause => pauses'[p] = pauses[p]
    BY <1>4, <1>len DEF ClosePause
  <2>4. DOMAIN pauses = 1..Len(pauses) /\ Len(pauses') = Len(pauses)
    <3>1. pauses' = [pauses EXCEPT ![c.pause] = [pauses[c.pause] EXCEPT !.open = FALSE]]
      BY <1>4 DEF ClosePause
    <3> DEFINE closed == [pauses[c.pause] EXCEPT !.open = FALSE]
    <3> HIDE DEF closed
    <3>2. QED
      BY ONLY <3>1, <1>len
  <2>5. Open' \subseteq Open
    BY <2>2, <2>3, <2>4 DEF Open
  <2>6. ClearedIds' \subseteq ClearedIds
    BY <1>4 DEF ClosePause, Reply, ClearedIds
  <2>7. QED
    BY <2>5, <2>6, KeepsBound
<1>5. ASSUME NEW c \in calls, InsertPoint(c)
      PROVE  BoundInv'
  <2>1. [c EXCEPT !.left = @ - 1].kind = "upload"
    BY <1>5, CallType DEF InsertPoint, IInv, Upload
  <2>2. QED
    BY <1>3, <1>5, <2>1 DEF InsertPoint, Reply, Continue
<1>6. ASSUME NEW c \in calls,
             ClaimPause(c) \/ (InsertPause(c) /\ ~booking) \/ AcceptUpload(c) \/ CommitEnd(c)
      PROVE  BoundInv'
  <2>1. CASE ClaimPause(c)
    <3>1. /\ UNCHANGED pauses
          /\ \/ calls' = calls \ {c}
             \/ \E p \in Open :
                  calls' = (calls \ {c}) \cup {[kind |-> "claimed", id |-> c.id, pause |-> p]}
      BY <2>1 DEF ClaimPause, Reply, Continue
    <3>2. ASSUME NEW d \in calls', d \notin calls
          PROVE  d.kind = "claimed"
      BY ONLY <3>1, <3>2
    <3>3. QED
      BY <1>3, <3>1, <3>2
  <2>2. CASE InsertPause(c) /\ ~booking
    BY <1>3, <2>2 DEF InsertPause, Reply
  <2>3. CASE AcceptUpload(c) \/ CommitEnd(c)
    BY <1>3, <2>3 DEF AcceptUpload, CommitEnd, Reply
  <2>4. QED
    BY <1>6, <2>1, <2>2, <2>3
<1>7. ASSUME NEW d, d.kind \in {"pause", "resume", "upload"}, FindBooking(d)
      PROVE  BoundInv'
  BY <1>3, <1>7 DEF FindBooking
<1>8. ASSUME NEW r \in Requests, NEW k \in {"pause", "resume"},
             FindBooking([kind |-> k, id |-> r])
      PROVE  BoundInv'
  <2>1. [kind |-> k, id |-> r].kind \in {"pause", "resume", "upload"}
    OBVIOUS
  <2>2. QED
    BY ONLY <1>7, <1>8, <2>1
<1>9. ASSUME NEW r \in Requests, NEW n \in 1..MaxUpload,
             FindBooking([kind |-> "upload", id |-> r, left |-> n, size |-> n])
      PROVE  BoundInv'
  BY <1>7, <1>9
<1>10. CASE (\E r \in Requests : SettleDistance(r)) \/ DeleteBooking \/ UNCHANGED vars
  BY <1>3, <1>10 DEF SettleDistance, DeleteBooking, vars
<1>11. ASSUME NEW r \in Requests, BadRequest(r)
       PROVE  BoundInv'
  BY <1>3, <1>11 DEF BadRequest
<1>12. QED
  BY <1>1, <1>2, <1>4, <1>5, <1>6, <1>8, <1>9, <1>10, <1>11, Steps DEF Started

\* There are never more open pauses than requests that run at once.
THEOREM PausesBounded == Spec => []OpenPausesBounded
<1>1. Init => BoundInv
  BY DEF Init, BoundInv, Open
<1>2. Spec => []BoundInv
  BY <1>1, BoundStep, Invariance, PTL DEF Spec
<1>3. IInv /\ BoundInv => OpenPausesBounded
  <2> SUFFICES ASSUME IInv, BoundInv
               PROVE  Cardinality(Open) <= Cardinality(Requests)
    BY DEF OpenPausesBounded
  <2>1. CASE Open = {}
    BY <2>1, FiniteSides, FS_EmptySet
  <2>2. CASE Open # {}
    BY <2>2, FiniteSides DEF BoundInv
  <2>3. QED
    BY <2>1, <2>2
<1>4. QED
  BY <1>2, <1>3, Invariance, PTL

--------------------------------------------------------------------------------
\* Points that were accepted

\* The stored points fall into those of accepted uploads and, for each request,
\* those of its upload under way, which has stored what is no longer left.
Split(done, own) ==
  /\ done \subseteq 1..track /\ Cardinality(done) = acked
  /\ own \in [Requests -> SUBSET (1..track)]
  /\ \A r \in Requests : own[r] \cap done = {}
  /\ \A r, q \in Requests : r # q => own[r] \cap own[q] = {}
  /\ \A c \in calls : c.kind = "upload" => Cardinality(own[c.id]) + c.left = c.size

PointsInv ==
  \E done \in SUBSET (1..track), own \in [Requests -> SUBSET (1..track)] : Split(done, own)

\* A split makes the invariant.
LEMMA SplitSuffices ==
  ASSUME NEW done, NEW own, Split(done, own)'
  PROVE  PointsInv'
BY DEF Split, PointsInv

\* Points are numbered; what is drawn from them is finite.
LEMMA FinitePoints ==
  ASSUME TypeOK
  PROVE  /\ track \in Nat /\ acked \in Nat
         /\ IsFiniteSet(1..track) /\ Cardinality(1..track) = track
         /\ \A S \in SUBSET (1..track) : IsFiniteSet(S) /\ Cardinality(S) \in Nat
<1>1. track \in Nat /\ acked \in Nat
  <2>1. track \in 0..MaxPoints /\ acked \in Nat
    BY DEF TypeOK
  <2>2. QED
    BY ONLY <2>1, BoundsAssumption
<1>2. IsFiniteSet(1..track) /\ Cardinality(1..track) = track
  BY <1>1, FS_Interval
<1>3. QED
  BY <1>1, <1>2, FS_Subset, FS_CardinalityType

\* Steps that store, accept and begin nothing leave the split as it is.
LEMMA KeepsSplit ==
  ASSUME PointsInv, UNCHANGED <<track, acked>>,
         \A c \in calls' : c.kind = "upload" => c \in calls
  PROVE  PointsInv'
<1>1. PICK done \in SUBSET (1..track), own \in [Requests -> SUBSET (1..track)] : Split(done, own)
  BY DEF PointsInv
<1>2. Split(done, own)'
  BY <1>1 DEF Split
<1>3. QED
  BY <1>2, SplitSuffices

\* An upload that begins has stored nothing.
LEMMA BeginSplits ==
  ASSUME TypeOK, PointsInv, NEW r \in Requests, NEW n \in 1..MaxUpload,
         FindBooking([kind |-> "upload", id |-> r, left |-> n, size |-> n])
  PROVE  PointsInv'
<1> DEFINE d == [kind |-> "upload", id |-> r, left |-> n, size |-> n]
<1>1. CASE UNCHANGED calls
  BY <1>1, KeepsSplit DEF FindBooking
<1>2. CASE Idle(r) /\ calls' = calls \cup {d}
  <2>1. PICK done \in SUBSET (1..track), own \in [Requests -> SUBSET (1..track)] : Split(done, own)
    BY DEF PointsInv
  <2> DEFINE own2 == [own EXCEPT ![r] = {}]
  <2>2. /\ own2 \in [Requests -> SUBSET (1..track)]
        /\ own2[r] = {} /\ \A q \in Requests : q # r => own2[q] = own[q]
    BY <2>1
  <2>3. UNCHANGED <<track, acked>>
    BY DEF FindBooking
  <2>4. n \in Nat /\ d.id = r /\ d.left = n /\ d.size = n
    BY BoundsAssumption
  <2> HIDE DEF own2
  <2>5. \A c \in calls' : c.kind = "upload" => Cardinality(own2[c.id]) + c.left = c.size
    <3> SUFFICES ASSUME NEW c \in calls', c.kind = "upload"
                 PROVE  Cardinality(own2[c.id]) + c.left = c.size
      OBVIOUS
    <3>1. CASE c = d
      BY <2>2, <2>4, <3>1, FS_EmptySet
    <3>2. CASE c # d
      <4>1. c \in calls /\ c.id # r /\ c.id \in Requests
        BY <1>2, <3>2, CallType DEF Idle
      <4>2. QED
        BY <2>1, <2>2, <4>1 DEF Split
    <3>3. QED
      BY <3>1, <3>2
  <2>6. /\ \A q \in Requests : own2[q] \cap done = {}
        /\ \A q, p \in Requests : p # q => own2[q] \cap own2[p] = {}
    BY <2>1, <2>2 DEF Split
  <2>7. Split(done, own2)'
    BY <2>1, <2>2, <2>3, <2>5, <2>6 DEF Split
  <2>8. QED
    BY <2>7, SplitSuffices
<1>3. QED
  BY <1>1, <1>2 DEF FindBooking

\* A point that is stored becomes its upload's.
LEMMA InsertSplits ==
  ASSUME IInv, PointsInv, NEW c \in calls, InsertPoint(c)
  PROVE  PointsInv'
<1> DEFINE d == [c EXCEPT !.left = @ - 1]
<1>0. c \in Upload /\ c.id \in Requests /\ TypeOK
  BY CallType DEF InsertPoint, IInv
<1>1. CASE Reply(c, "failed") /\ UNCHANGED track
  BY <1>1, KeepsSplit DEF InsertPoint, Reply
<1>2. CASE track' = track + 1 /\ Continue(c, d)
  <2>1. PICK done \in SUBSET (1..track), own \in [Requests -> SUBSET (1..track)] : Split(done, own)
    BY DEF PointsInv
  <2> PICK new \in {track + 1} : TRUE
    OBVIOUS
  <2> DEFINE own2 == [own EXCEPT ![c.id] = own[c.id] \cup {new}]
  <2>2. track \in Nat /\ 1..track' = (1..track) \cup {new} /\ new \notin 1..track
    BY <1>0, <1>2, FinitePoints
  <2>3. /\ own2 \in [Requests -> SUBSET (1..track')]
        /\ own2[c.id] = own[c.id] \cup {new}
        /\ \A q \in Requests : q # c.id => own2[q] = own[q]
    BY <1>0, <2>1, <2>2
  <2>4. acked' = acked /\ calls' = (calls \ {c}) \cup {d}
    BY <1>2 DEF InsertPoint, Continue
  <2>5. /\ d.id = c.id /\ d.left = c.left - 1 /\ d.size = c.size
        /\ c.left \in Nat /\ c.size \in Nat /\ c.kind = "upload"
    BY <1>0, BoundsAssumption DEF Upload
  <2>6. Cardinality(own2[c.id]) = Cardinality(own[c.id]) + 1 /\ Cardinality(own[c.id]) \in Nat
    <3>1. own[c.id] \in SUBSET (1..track)
      BY <1>0, <2>1
    <3>2. IsFiniteSet(own[c.id]) /\ Cardinality(own[c.id]) \in Nat /\ new \notin own[c.id]
      BY <1>0, <2>2, <3>1, FinitePoints
    <3>3. Cardinality(own[c.id] \cup {new}) = Cardinality(own[c.id]) + 1
      BY <3>2, FS_AddElement
    <3> HIDE DEF own2
    <3>4. QED
      BY <2>3, <3>2, <3>3
  <2> HIDE DEF own2, d
  <2>7. \A e \in calls' : e.kind = "upload" => Cardinality(own2[e.id]) + e.left = e.size
    <3> SUFFICES ASSUME NEW e \in calls', e.kind = "upload"
                 PROVE  Cardinality(own2[e.id]) + e.left = e.size
      OBVIOUS
    <3>1. CASE e = d
      <4>1. Cardinality(own[c.id]) + c.left = c.size
        BY <2>1, <2>5 DEF Split
      <4>2. QED
        BY <2>5, <2>6, <3>1, <4>1
    <3>2. CASE e # d
      <4>1. e \in calls /\ e # c
        BY <2>4, <3>2
      <4>2. e.id # c.id /\ e.id \in Requests
        BY <1>0, <4>1, CallType DEF IInv, OneCall
      <4>3. QED
        BY <2>1, <2>3, <4>1, <4>2 DEF Split
    <3>3. QED
      BY <3>1, <3>2
  <2>8. /\ \A q \in Requests : own2[q] \cap done = {}
        /\ \A q, p \in Requests : p # q => own2[q] \cap own2[p] = {}
    <3>1. \A q \in Requests : own[q] \subseteq 1..track
      BY <2>1
    <3>2. QED
      BY <2>1, <2>2, <2>3, <3>1 DEF Split
  <2>9. done \subseteq 1..track'
    BY <2>1, <2>2
  <2>10. Split(done, own2)'
    BY <2>1, <2>3, <2>4, <2>7, <2>8, <2>9 DEF Split
  <2>11. QED
    BY <2>10, SplitSuffices
<1>3. QED
  BY <1>1, <1>2 DEF InsertPoint

\* The points of an upload that is accepted, all that were in its body, join the
\* accepted ones.
LEMMA AcceptSplits ==
  ASSUME IInv, PointsInv, NEW c \in calls, AcceptUpload(c)
  PROVE  PointsInv'
<1>0. c \in Upload /\ c.id \in Requests /\ TypeOK /\ c.kind = "upload"
  BY CallType DEF AcceptUpload, IInv
<1>1. PICK done \in SUBSET (1..track), own \in [Requests -> SUBSET (1..track)] : Split(done, own)
  BY DEF PointsInv
<1> DEFINE done2 == done \cup own[c.id]
           own2 == [own EXCEPT ![c.id] = {}]
<1>2. /\ own2 \in [Requests -> SUBSET (1..track)]
      /\ own2[c.id] = {} /\ \A q \in Requests : q # c.id => own2[q] = own[q]
  BY <1>0, <1>1
<1>3. UNCHANGED track /\ acked' = acked + c.size /\ calls' = calls \ {c}
  BY DEF AcceptUpload, Reply
<1>4. done2 \subseteq 1..track /\ Cardinality(done2) = acked + c.size
  <2>1. /\ own[c.id] \in SUBSET (1..track) /\ done \cap own[c.id] = {} /\ Cardinality(done) = acked
        /\ Cardinality(own[c.id]) + c.left = c.size /\ c.left = 0
    BY <1>0, <1>1 DEF Split, AcceptUpload
  <2>2. /\ IsFiniteSet(done) /\ IsFiniteSet(own[c.id]) /\ acked \in Nat
        /\ Cardinality(own[c.id]) \in Nat
    BY <1>0, <1>1, <2>1, FinitePoints
  <2>3. Cardinality(done2) = Cardinality(done) + Cardinality(own[c.id]) - Cardinality({})
    BY <2>1, <2>2, FS_Union
  <2>4. Cardinality(done2) = acked + c.size
    <3> HIDE DEF done2
    <3>1. QED
      BY <2>1, <2>2, <2>3, FS_EmptySet
  <2>5. QED
    BY <1>1, <2>1, <2>4
<1> HIDE DEF own2
<1>5. \A e \in calls' : e.kind = "upload" => Cardinality(own2[e.id]) + e.left = e.size
  <2> SUFFICES ASSUME NEW e \in calls, e # c, e.kind = "upload"
               PROVE  Cardinality(own2[e.id]) + e.left = e.size
    BY <1>3
  <2>1. e.id # c.id /\ e.id \in Requests
    BY <1>0, CallType DEF IInv, OneCall
  <2>2. QED
    BY <1>1, <1>2, <2>1 DEF Split
<1>6. /\ \A q \in Requests : own2[q] \cap done2 = {}
      /\ \A q, p \in Requests : p # q => own2[q] \cap own2[p] = {}
  BY <1>0, <1>1, <1>2 DEF Split
<1> HIDE DEF done2
<1>7. Split(done2, own2)'
  BY <1>2, <1>3, <1>4, <1>5, <1>6 DEF Split
<1>8. QED
  BY <1>7, SplitSuffices

\* Every step leaves a split.
LEMMA PointsStep == IInv /\ PointsInv /\ [Next]_vars => PointsInv'
<1> SUFFICES ASSUME IInv, PointsInv, [Next]_vars
             PROVE  PointsInv'
  OBVIOUS
<1>0. TypeOK
  BY DEF IInv
<1>1. ASSUME NEW r \in Requests, NEW k \in {"pause", "resume"},
             FindBooking([kind |-> k, id |-> r])
      PROVE  PointsInv'
  <2> DEFINE d == [kind |-> k, id |-> r]
  <2>1. calls' \subseteq calls \cup {d} /\ UNCHANGED <<track, acked>>
    BY <1>1 DEF FindBooking
  <2>2. \A c \in calls' : c.kind = "upload" => c \in calls
    BY ONLY <2>1, k \in {"pause", "resume"}
  <2>3. QED
    BY <2>1, <2>2, KeepsSplit
<1>2. ASSUME NEW r \in Requests, NEW n \in 1..MaxUpload,
             FindBooking([kind |-> "upload", id |-> r, left |-> n, size |-> n])
      PROVE  PointsInv'
  BY <1>0, <1>2, BeginSplits
<1>3. ASSUME NEW c \in calls, CheckPaused(c) \/ InsertPause(c) \/ CommitEnd(c) \/ ClosePause(c)
      PROVE  PointsInv'
  <2> DEFINE d == [kind |-> "cleared", id |-> c.id, seen |-> Len(pauses)]
  <2>1. CASE CheckPaused(c)
    <3>1. calls' \subseteq calls \cup {d} /\ UNCHANGED <<track, acked>>
      BY <2>1 DEF CheckPaused, Reply, Continue
    <3>2. \A e \in calls' : e.kind = "upload" => e \in calls
      BY ONLY <3>1
    <3>3. QED
      BY <3>1, <3>2, KeepsSplit
  <2>2. CASE InsertPause(c) \/ CommitEnd(c) \/ ClosePause(c)
    <3>1. calls' \subseteq calls /\ UNCHANGED <<track, acked>>
      BY <2>2 DEF InsertPause, CommitEnd, ClosePause, Reply
    <3>2. QED
      BY <3>1, KeepsSplit
  <2>3. QED
    BY <1>3, <2>1, <2>2
<1>4. ASSUME NEW c \in calls, ClaimPause(c)
      PROVE  PointsInv'
  <2>1. /\ UNCHANGED <<track, acked>>
        /\ \/ calls' = calls \ {c}
           \/ \E p \in Open :
                calls' = (calls \ {c}) \cup {[kind |-> "claimed", id |-> c.id, pause |-> p]}
    BY <1>4 DEF ClaimPause, Reply, Continue
  <2>2. \A e \in calls' : e.kind = "upload" => e \in calls
    BY ONLY <2>1
  <2>3. QED
    BY <2>1, <2>2, KeepsSplit
<1>5. ASSUME NEW c \in calls, InsertPoint(c)
      PROVE  PointsInv'
  BY <1>5, InsertSplits
<1>6. ASSUME NEW c \in calls, AcceptUpload(c)
      PROVE  PointsInv'
  BY <1>6, AcceptSplits
<1>7. CASE (\E r \in Requests : SettleDistance(r)) \/ DeleteBooking \/ UNCHANGED vars
  BY <1>7, KeepsSplit DEF SettleDistance, DeleteBooking, vars
<1>8. ASSUME NEW r \in Requests, BadRequest(r)
      PROVE  PointsInv'
  BY <1>8, KeepsSplit DEF BadRequest
<1>9. QED
  BY <1>1, <1>2, <1>3, <1>4, <1>5, <1>6, <1>7, <1>8, Steps DEF Started

\* What an upload was told is stored is stored.
THEOREM AcceptedStored == Spec => []AcceptedPointsStored
<1>1. Init => PointsInv
  <2> SUFFICES ASSUME Init
               PROVE  PointsInv
    OBVIOUS
  <2> DEFINE none == [r \in Requests |-> {}]
  <2>1. none \in [Requests -> SUBSET (1..track)] /\ {} \in SUBSET (1..track)
    OBVIOUS
  <2>2. Split({}, none)
    BY <2>1, FS_EmptySet DEF Init, Split
  <2>3. QED
    BY <2>1, <2>2 DEF PointsInv
<1>2. Spec => []PointsInv
  BY <1>1, PointsStep, Invariance, PTL DEF Spec
<1>3. IInv /\ PointsInv => AcceptedPointsStored
  <2> SUFFICES ASSUME TypeOK, PointsInv
               PROVE  acked <= track
    BY DEF IInv, AcceptedPointsStored
  <2>1. PICK done \in SUBSET (1..track), own \in [Requests -> SUBSET (1..track)] : Split(done, own)
    BY DEF PointsInv
  <2>2. Cardinality(done) <= Cardinality(1..track) /\ Cardinality(done) = acked
    BY <2>1, FinitePoints, FS_Subset DEF Split
  <2>3. QED
    BY <2>2, FinitePoints
<1>4. QED
  BY <1>2, <1>3, Invariance, PTL

--------------------------------------------------------------------------------
\* One request at a time

\* A set of at most one element has no two.
LEMMA AtMostOne ==
  ASSUME NEW S, IsFiniteSet(S), Cardinality(S) <= 1, NEW p \in S, NEW q \in S
  PROVE  p = q
<1> SUFFICES ASSUME p # q
             PROVE  FALSE
  OBVIOUS
<1>1. IsFiniteSet({q}) /\ Cardinality({q}) = 1
  BY FS_Singleton
<1>2. IsFiniteSet({q} \cup {p}) /\ Cardinality({q} \cup {p}) = 2
  <2>1. p \notin {q}
    OBVIOUS
  <2>2. IsFiniteSet({q} \cup {p}) /\ Cardinality({q} \cup {p}) = Cardinality({q}) + 1
    BY ONLY <1>1, <2>1, FS_AddElement
  <2>3. QED
    BY ONLY <1>1, <2>2
<1>3. {q} \cup {p} \subseteq S
  OBVIOUS
<1>4. Cardinality({q} \cup {p}) <= Cardinality(S) /\ Cardinality(S) \in Nat
  BY <1>3, FS_Subset, FS_CardinalityType
<1>5. QED
  BY <1>2, <1>4

\* A service that serves one request at a time never has two pauses open, however
\* often a booking is paused, resumed and ended: the second pause needs a race.
THEOREM OneByOneOnePause ==
  ASSUME \A r, s \in Requests : r = s
  PROVE  Spec => [](\A p, q \in Open : p = q)
<1>1. Cardinality(Requests) <= 1
  <2>1. CASE Requests = {}
    BY <2>1, FS_EmptySet
  <2>2. CASE Requests # {}
    <3>1. PICK r \in Requests : Requests = {r}
      BY <2>2
    <3>2. Cardinality({r}) = 1
      BY FS_Singleton
    <3>3. Cardinality(Requests) = 1
      BY ONLY <3>1, <3>2
    <3>4. QED
      BY ONLY <3>3
  <2>3. QED
    BY <2>1, <2>2
<1>2. IInv /\ OpenPausesBounded => \A p, q \in Open : p = q
  <2> SUFFICES ASSUME IInv, OpenPausesBounded, NEW p \in Open, NEW q \in Open
               PROVE  p = q
    OBVIOUS
  <2>1. IsFiniteSet(Open) /\ Cardinality(Open) <= 1
    BY <1>1, FiniteSides DEF OpenPausesBounded
  <2>2. QED
    BY <2>1, AtMostOne
<1>3. QED
  BY <1>2, Invariance, PausesBounded, PTL

================================================================================
