------------------------- MODULE BookingCalendar_proofs -------------------------
(***************************************************************************)
(* Proofs about BookingCalendar, for any sets of references, users, slots  *)
(* and concurrent requests.                                                *)
(***************************************************************************)
EXTENDS BookingCalendar, TLAPS

--------------------------------------------------------------------------------
\* The inductive invariant

\* UNIQUE (booking_reference), kept by the upsert.
UniqueRefs == \A a, b \in bookings : a.ref = b.ref => a = b

\* History runs forward.
HistoryInv ==
  /\ \A b \in bookings : b.at <= writes /\ b.seen <= writes
  /\ \A c \in calls : c.kind = "clear" => c.seen <= writes

\* A request that found its slot free is only in the way of rows written since.
ClearInv ==
  \A c \in calls : c.kind = "clear" =>
    \A b \in bookings : b.at <= c.seen => ~Conflicts(b, c.ref, c.slot)

\* So is a row, once written.
RowInv ==
  \A a, b \in bookings : b.at <= a.seen => ~Conflicts(b, a.ref, a.slot)

IInv == TypeOK /\ UniqueRefs /\ HistoryInv /\ ClearInv /\ RowInv

--------------------------------------------------------------------------------
\* Type correctness

\* A counter below its bound may be incremented.
LEMMA CountsUp ==
  ASSUME NEW m \in Nat, NEW n \in 0..m, n < m
  PROVE  n + 1 \in 0..m /\ n + 1 \in 1..m
OBVIOUS

\* No step takes a variable out of its type.
LEMMA TypeStep == TypeOK /\ [Next]_vars => TypeOK'
<1> SUFFICES ASSUME TypeOK, [Next]_vars
             PROVE  TypeOK'
  OBVIOUS
<1> USE BoundsAssumption DEF TypeOK, Answers, Answer
<1>1. ASSUME NEW r \in Requests, NEW ref \in Refs, Delete(r, ref)
      PROVE  TypeOK'
  <2>1. [kind |-> "missed", id |-> r, ref |-> ref] \in Miss
    BY DEF Miss
  <2>2. bookings' \subseteq bookings /\ UNCHANGED <<used, users, now, writes>>
    BY <1>1 DEF Delete
  <2>3. calls' \subseteq calls \cup Miss
    BY <1>1, <2>1 DEF Delete
  <2>4. answer' \in Answers
    BY <1>1 DEF Delete
  <2>5. QED
    BY <2>2, <2>3, <2>4
<1>2. ASSUME NEW r \in Requests, NEW ref \in Refs, NEW s \in Slots, NEW u \in Users,
             CheckUser(r, ref, s, u)
      PROVE  TypeOK'
  <2>0. 0 \in 0..MaxWrites
    BY ONLY BoundsAssumption
  <2>1. [kind |-> "checked", id |-> r, ref |-> ref, slot |-> s, user |-> u, seen |-> 0]
          \in Update
    BY <2>0 DEF Update
  <2>2. QED
    BY <1>2, <2>1 DEF CheckUser
<1>3. ASSUME NEW c \in calls, LookForOverlap(c)
      PROVE  TypeOK'
  <2>1. c \in Update
    BY <1>3 DEF LookForOverlap, Update, Miss
  <2>2. [c EXCEPT !.kind = "clear", !.seen = writes] \in Update
    BY <2>1 DEF Update
  <2>3. QED
    BY <1>3, <2>2 DEF LookForOverlap
<1>4. ASSUME NEW c \in calls, Upsert(c)
      PROVE  TypeOK'
  <2>1. c \in Update
    BY <1>4 DEF Upsert, Update, Miss
  <2> DEFINE new == [ref |-> c.ref, slot |-> c.slot, owner |-> c.user,
                     seen |-> c.seen, at |-> writes + 1]
  <2>2. writes + 1 \in 0..MaxWrites /\ writes + 1 \in 1..MaxWrites
    <3>1. writes \in 0..MaxWrites /\ writes < MaxWrites
      BY <1>4 DEF Upsert
    <3>2. QED
      BY ONLY <3>1, CountsUp, BoundsAssumption
  <2>3. new \in Row /\ \A b \in Row : [new EXCEPT !.owner = b.owner] \in Row
    BY <2>1, <2>2 DEF Row, Update
  <2> DEFINE same == {b \in bookings : b.ref = c.ref}
             moved == {[new EXCEPT !.owner = b.owner] : b \in same}
  <2>a. bookings' = (bookings \ same) \cup (IF same = {} THEN {new} ELSE moved)
    BY <1>4 DEF Upsert
  <2>b. moved \subseteq Row
    BY <2>3
  <2>4. bookings' \subseteq Row
    BY <2>3, <2>a, <2>b
  <2>5. writes' \in 0..MaxWrites
    BY <1>4, <2>2 DEF Upsert
  <2>6. calls' \subseteq calls /\ UNCHANGED <<used, users, now>> /\ answer' \in Answers
    BY <1>4 DEF Upsert
  <2>7. QED
    BY <2>4, <2>5, <2>6
<1>5. ASSUME NEW c \in calls, ExplainMiss(c)
      PROVE  TypeOK'
  BY <1>5 DEF ExplainMiss
<1>6. ASSUME NEW ref \in Refs, Use(ref)
      PROVE  TypeOK'
  BY <1>6 DEF Use
<1>7. ASSUME NEW u \in Users, AddUser(u) \/ DeleteUser(u)
      PROVE  TypeOK'
  BY <1>7 DEF AddUser, DeleteUser
<1>8. CASE Tick
  <2>1. now' \in 0..MaxTime
    <3>1. now \in 0..MaxTime /\ now < MaxTime /\ now' = now + 1
      BY <1>8 DEF Tick
    <3>2. QED
      BY ONLY <3>1, CountsUp, BoundsAssumption
  <2>2. QED
    BY <1>8, <2>1 DEF Tick
<1>9. CASE UNCHANGED vars
  BY <1>9 DEF vars
<1>10. ASSUME NEW r \in Requests, BadRequest(r)
       PROVE  TypeOK'
  BY <1>10 DEF BadRequest
<1>11. QED
  BY <1>1, <1>2, <1>3, <1>4, <1>5, <1>6, <1>7, <1>8, <1>9, <1>10
  DEF Next, UpdateBooking, DeleteBooking

\* Every variable keeps its type in every reachable state.
THEOREM TypeCorrect == Spec => []TypeOK
<1>1. Init => TypeOK
  BY BoundsAssumption DEF Init, TypeOK, Answers
<1>2. QED
  BY <1>1, TypeStep, PTL DEF Spec

--------------------------------------------------------------------------------
\* Safety

\* Two bookings that have the vehicle at the same instant conflict in the sense
\* of the overlap CTE, whichever of them is the candidate.
LEMMA SharedInstantConflicts ==
  ASSUME TypeOK, NEW a \in bookings, NEW b \in bookings, a.ref # b.ref,
         Instants(a) \cap Instants(b) # {}
  PROVE  Conflicts(b, a.ref, a.slot)
<1>1. a.slot.from \in Nat /\ a.slot.to \in Nat /\ b.slot.from \in Nat /\ b.slot.to \in Nat
  BY SlotsAssumption DEF TypeOK, Row
<1>2. PICK t \in 0..MaxTime : /\ a.slot.from <= t /\ t < a.slot.to
                              /\ b.slot.from <= t /\ t < b.slot.to
  BY DEF Instants
<1>3. QED
  BY <1>1, <1>2, BoundsAssumption DEF Conflicts

\* Every step preserves the inductive invariant.
LEMMA InvariantStep == IInv /\ [Next]_vars => IInv'
<1> SUFFICES ASSUME IInv, [Next]_vars
             PROVE  IInv'
  OBVIOUS
<1>0. TypeOK'
  BY TypeStep DEF IInv
<1> USE DEF IInv
<1>1. ASSUME NEW c \in calls, LookForOverlap(c)
      PROVE  IInv'
  <2> DEFINE d == [c EXCEPT !.kind = "clear", !.seen = writes]
  <2>1. c \in Update
    BY <1>1 DEF LookForOverlap, Update, Miss, TypeOK
  <2>2. d.kind = "clear" /\ d.seen = writes /\ d.ref = c.ref /\ d.slot = c.slot
    BY <2>1 DEF Update
  <2>3. \A b \in bookings : b.at <= writes
    BY DEF HistoryInv
  <2>4. calls' \subseteq calls \cup {d}
    BY <1>1 DEF LookForOverlap
  <2>5. d \in calls' \ calls => \A b \in bookings : ~Conflicts(b, c.ref, c.slot)
    BY <1>1 DEF LookForOverlap
  <2>6. UniqueRefs' /\ RowInv'
    BY <1>1 DEF LookForOverlap, UniqueRefs, RowInv, Conflicts
  <2>7. HistoryInv'
    <3>1. writes \in Nat /\ UNCHANGED <<bookings, writes>>
      BY <1>1, BoundsAssumption DEF LookForOverlap, TypeOK
    <3>2. ASSUME NEW x \in calls', x.kind = "clear"
          PROVE  x.seen <= writes
      <4>1. CASE x \in calls
        BY <3>2, <4>1 DEF HistoryInv
      <4>2. CASE x = d
        BY <2>2, <3>1, <4>2
      <4>3. QED
        BY <2>4, <4>1, <4>2
    <3>3. QED
      BY <3>1, <3>2 DEF HistoryInv
  <2>8. ClearInv'
    BY <1>1, <2>2, <2>4, <2>5 DEF LookForOverlap, ClearInv, Conflicts
  <2>9. QED
    BY <1>0, <2>6, <2>7, <2>8
<1>2. ASSUME NEW c \in calls, Upsert(c)
      PROVE  IInv'
  <2>1. c \in Update
    BY <1>2 DEF Upsert, Update, Miss, TypeOK
  <2>2. PICK n \in bookings' :
          /\ n.ref = c.ref /\ n.slot = c.slot /\ n.seen = c.seen /\ n.at = writes + 1
          /\ \A b \in bookings' : b = n \/ (b \in bookings /\ b.ref # c.ref)
    <3> DEFINE same == {b \in bookings : b.ref = c.ref}
               new == [ref |-> c.ref, slot |-> c.slot, owner |-> c.user,
                       seen |-> c.seen, at |-> writes + 1]
    <3>1. bookings' = (bookings \ same) \cup
                        (IF same = {} THEN {new}
                         ELSE {[new EXCEPT !.owner = b.owner] : b \in same})
      BY <1>2 DEF Upsert
    <3>2. CASE same = {}
      BY <3>1, <3>2
    <3>3. CASE same # {}
      <4>1. PICK b \in same : same = {b}
        BY <3>3 DEF UniqueRefs
      <4> DEFINE n == [new EXCEPT !.owner = b.owner]
      <4>2. bookings' = (bookings \ same) \cup {n}
        BY <3>1, <3>3, <4>1
      <4>3. n.ref = c.ref /\ n.slot = c.slot /\ n.seen = c.seen /\ n.at = writes + 1
        OBVIOUS
      <4>4. QED
        BY <4>2, <4>3
    <3>4. QED
      BY <3>2, <3>3
  <2>3. writes' = writes + 1 /\ calls' \subseteq calls /\ writes \in Nat
    BY <1>2 DEF Upsert, TypeOK
  <2>4. \A b \in bookings : b.at \in Nat /\ b.seen \in Nat
    BY DEF TypeOK, Row
  <2>5. c.seen \in Nat /\ c.seen <= writes
    BY <1>2, <2>1 DEF HistoryInv, Update, Upsert
  <2>6. UniqueRefs'
    BY <2>2 DEF UniqueRefs
  <2>7. HistoryInv'
    <3>1. \A d \in calls : d.kind = "clear" => d.seen \in Nat
      BY DEF TypeOK, Update, Miss
    <3>2. QED
      BY <2>2, <2>3, <2>4, <2>5, <3>1 DEF HistoryInv
  <2>8. ClearInv'
    <3>1. \A d \in calls : d.kind = "clear" => d.seen \in Nat /\ d.seen <= writes
      BY DEF TypeOK, Update, Miss, HistoryInv
    <3>2. QED
      BY <2>2, <2>3, <3>1 DEF ClearInv, Conflicts
  <2>9. RowInv'
    <3>1. \A b \in bookings : b.at <= c.seen => ~Conflicts(b, c.ref, c.slot)
      BY <1>2 DEF ClearInv, Upsert
    <3>2. ASSUME NEW a \in bookings', NEW b \in bookings', b.at <= a.seen
          PROVE  ~Conflicts(b, a.ref, a.slot)
      <4>1. CASE b = n
        <5>1. a.seen <= writes
          BY <2>2, <2>5 DEF HistoryInv
        <5>2. QED
          BY <2>2, <2>3, <2>4, <2>5, <3>2, <4>1, <5>1
      <4>2. CASE b # n /\ a = n
        BY <2>2, <3>1, <3>2, <4>2
      <4>3. CASE b # n /\ a # n
        BY <2>2, <3>2, <4>3 DEF RowInv
      <4>4. QED
        BY <4>1, <4>2, <4>3
    <3>3. QED
      BY <3>2 DEF RowInv, Conflicts
  <2>10. QED
    BY <1>0, <2>6, <2>7, <2>8, <2>9
<1>3. ASSUME bookings' \subseteq bookings, writes' = writes,
             \A c \in calls' : c.kind = "clear" => c \in calls
      PROVE  IInv'
  <2>1. UniqueRefs' /\ HistoryInv'
    BY <1>3 DEF UniqueRefs, HistoryInv
  <2>2. ClearInv' /\ RowInv'
    BY <1>3 DEF ClearInv, RowInv, Conflicts
  <2>3. QED
    BY <1>0, <2>1, <2>2
<1>4. ASSUME NEW r \in Requests, NEW ref \in Refs,
             Delete(r, ref) \/ \E s \in Slots, u \in Users : CheckUser(r, ref, s, u)
      PROVE  IInv'
  <2>1. bookings' \subseteq bookings /\ writes' = writes
    BY <1>4 DEF Delete, CheckUser
  <2>2. ASSUME NEW x \in calls' \ calls
        PROVE  x.kind # "clear"
    <3>1. CASE Delete(r, ref)
      BY <2>2, <3>1 DEF Delete
    <3>2. ASSUME NEW s \in Slots, NEW u \in Users, CheckUser(r, ref, s, u)
          PROVE  x.kind # "clear"
      <4>1. x = [kind |-> "checked", id |-> r, ref |-> ref, slot |-> s, user |-> u,
                 seen |-> 0]
        BY <2>2, <3>2 DEF CheckUser
      <4>2. QED
        BY ONLY <4>1
    <3>3. QED
      BY <1>4, <3>1, <3>2
  <2>3. QED
    BY <1>3, <2>1, <2>2
<1>5. ASSUME NEW c \in calls, ExplainMiss(c)
      PROVE  IInv'
  BY <1>3, <1>5 DEF ExplainMiss
<1>6. CASE (\E ref \in Refs : Use(ref)) \/ (\E u \in Users : AddUser(u) \/ DeleteUser(u))
           \/ Tick \/ UNCHANGED vars
  BY <1>3, <1>6 DEF Use, AddUser, DeleteUser, Tick, vars
<1>7. ASSUME NEW r \in Requests, BadRequest(r)
      PROVE  IInv'
  BY <1>3, <1>7 DEF BadRequest
<1>8. QED
  BY <1>1, <1>2, <1>4, <1>5, <1>6, <1>7 DEF Next, UpdateBooking, DeleteBooking

\* The inductive invariant holds in every reachable state.
THEOREM Invariance == Spec => []IInv
<1>1. Init => IInv
  BY BoundsAssumption
  DEF Init, IInv, TypeOK, Answers, UniqueRefs, HistoryInv, ClearInv, RowInv
<1>2. QED
  BY <1>1, InvariantStep, PTL DEF Spec

\* Bookings overlap only when their requests raced: each check ran before the
\* other's write.
THEOREM OverlapOnlyByRace == Spec => []OverlapNeedsConcurrency
<1>1. IInv => OverlapNeedsConcurrency
  <2> SUFFICES ASSUME IInv, NEW a \in bookings, NEW b \in bookings,
                      a # b, Instants(a) \cap Instants(b) # {}
               PROVE  a.seen < b.at /\ b.seen < a.at
    BY DEF OverlapNeedsConcurrency
  <2>1. a.ref # b.ref
    BY DEF IInv, UniqueRefs
  <2>2. Conflicts(b, a.ref, a.slot) /\ Conflicts(a, b.ref, b.slot)
    BY <2>1, SharedInstantConflicts DEF IInv
  <2>3. a.at \in Nat /\ a.seen \in Nat /\ b.at \in Nat /\ b.seen \in Nat
    BY DEF IInv, TypeOK, Row
  <2>4. QED
    BY <2>2, <2>3 DEF IInv, RowInv
<1>2. QED
  BY <1>1, Invariance, PTL

\* What a DELETE may remove, for any number of requests.
THEOREM DeletesAreSafe == Spec => UsedOrStartedStays
<1>1. ASSUME IInv, [Next]_vars, NEW b \in bookings, \A d \in bookings' : d.ref # b.ref
      PROVE  b.slot.from > now /\ b.ref \notin used
  <2>1. ASSUME NEW c \in calls, Upsert(c)
        PROVE  FALSE
    <3> DEFINE same == {x \in bookings : x.ref = c.ref}
               new == [ref |-> c.ref, slot |-> c.slot, owner |-> c.user,
                       seen |-> c.seen, at |-> writes + 1]
    <3>1. bookings' = (bookings \ same) \cup
                        (IF same = {} THEN {new}
                         ELSE {[new EXCEPT !.owner = x.owner] : x \in same})
      BY <2>1 DEF Upsert
    <3>2. b.ref = c.ref
      BY <1>1, <3>1
    <3>3. b \in same /\ same # {}
      BY <3>2
    <3>4. [new EXCEPT !.owner = b.owner] \in bookings'
      BY <3>1, <3>3
    <3>5. [new EXCEPT !.owner = b.owner].ref = b.ref
      BY <3>2
    <3>6. QED
      BY <1>1, <3>4, <3>5
  <2>2. ASSUME NEW r \in Requests, NEW ref \in Refs, Delete(r, ref)
        PROVE  b.slot.from > now /\ b.ref \notin used
    BY <1>1, <2>2 DEF Delete
  <2>3. ASSUME bookings' = bookings
        PROVE  FALSE
    BY <1>1, <2>3
  <2>4. QED
    BY <1>1, <2>1, <2>2, <2>3
    DEF Next, UpdateBooking, DeleteBooking, BadRequest, CheckUser, LookForOverlap, ExplainMiss,
        Use, AddUser, DeleteUser, Tick, vars
<1>2. IInv /\ [Next]_vars =>
        [\A b \in bookings :
           (\A d \in bookings' : d.ref # b.ref) => b.slot.from > now /\ b.ref \notin used]_vars
  BY <1>1
<1>3. QED
  BY <1>2, Invariance, PTL DEF Spec, UsedOrStartedStays

\* Moving a booking leaves its owner, for any interleaving of upserts.
THEOREM OwnersKept == Spec => OwnerKept
<1>1. ASSUME IInv, [Next]_vars, NEW b \in bookings, NEW d \in bookings', b.ref = d.ref
      PROVE  b.owner = d.owner
  <2>1. ASSUME d \in bookings
        PROVE  b.owner = d.owner
    BY <1>1, <2>1 DEF IInv, UniqueRefs
  <2>2. ASSUME NEW c \in calls, Upsert(c), d \notin bookings
        PROVE  b.owner = d.owner
    <3> DEFINE same == {x \in bookings : x.ref = c.ref}
               new == [ref |-> c.ref, slot |-> c.slot, owner |-> c.user,
                       seen |-> c.seen, at |-> writes + 1]
    <3>1. bookings' = (bookings \ same) \cup
                        (IF same = {} THEN {new}
                         ELSE {[new EXCEPT !.owner = x.owner] : x \in same})
      BY <2>2 DEF Upsert
    <3>2. d = new \/ \E x \in same : d = [new EXCEPT !.owner = x.owner]
      BY <2>2, <3>1
    <3>3. d.ref = c.ref
      BY <3>2
    <3>4. b \in same
      BY <1>1, <3>3
    <3>5. PICK x \in same : d = [new EXCEPT !.owner = x.owner]
      BY <2>2, <3>1, <3>4
    <3>6. x = b
      BY <1>1, <3>4 DEF IInv, UniqueRefs
    <3>7. QED
      BY <3>5, <3>6
  <2>3. d \in bookings \/ \E c \in calls : Upsert(c)
    BY <1>1
    DEF Next, UpdateBooking, DeleteBooking, BadRequest, Delete, CheckUser, LookForOverlap,
        ExplainMiss, Use, AddUser, DeleteUser, Tick, vars
  <2>4. QED
    BY <2>1, <2>2, <2>3
<1>2. IInv /\ [Next]_vars =>
        [\A b \in bookings, d \in bookings' : b.ref = d.ref => b.owner = d.owner]_vars
  BY <1>1
<1>3. QED
  BY <1>2, Invariance, PTL DEF Spec, OwnerKept

--------------------------------------------------------------------------------
\* One request at a time

\* Nothing is written between the overlap check of a request and its own write,
\* and each write makes one row.
OneByOneInv ==
  /\ \A c, d \in calls : c = d
  /\ \A c \in calls : c.kind = "clear" => c.seen = writes
  /\ \A b \in bookings : b.at = b.seen + 1
  /\ \A a, b \in bookings : a.at = b.at => a = b

\* With one request, the call that was begun is the only one.
LEMMA OnlyCall ==
  ASSUME TypeOK, \A r, s \in Requests : r = s, NEW r \in Requests, Idle(r)
  PROVE  calls = {}
BY DEF TypeOK, Update, Miss, Idle

\* A step of the service while it serves one request at a time.
LEMMA OneByOneStep ==
  ASSUME \A r, s \in Requests : r = s
  PROVE  IInv /\ OneByOneInv /\ [Next]_vars => OneByOneInv'
<1> SUFFICES ASSUME IInv, OneByOneInv, [Next]_vars
             PROVE  OneByOneInv'
  OBVIOUS
<1>0. TypeOK
  BY DEF IInv
<1>1. ASSUME bookings' \subseteq bookings, writes' = writes,
             \A c, d \in calls' : c = d,
             \A c \in calls' : c.kind = "clear" => c \in calls \/ c.seen = writes
      PROVE  OneByOneInv'
  BY <1>1 DEF OneByOneInv
<1>2. ASSUME NEW r \in Requests, NEW ref \in Refs, Delete(r, ref)
      PROVE  OneByOneInv'
  <2>1. calls = {}
    BY <1>0, <1>2, OnlyCall DEF Delete
  <2>2. bookings' \subseteq bookings /\ writes' = writes
    BY <1>2 DEF Delete
  <2>3. calls' \subseteq {[kind |-> "missed", id |-> r, ref |-> ref]}
    BY <1>2, <2>1 DEF Delete
  <2>4. QED
    BY <1>1, <2>2, <2>3
<1>3. ASSUME NEW r \in Requests, NEW ref \in Refs, NEW s \in Slots, NEW u \in Users,
             CheckUser(r, ref, s, u)
      PROVE  OneByOneInv'
  <2>1. calls = {}
    BY <1>0, <1>3, OnlyCall DEF CheckUser
  <2>2. UNCHANGED <<bookings, writes>>
    BY <1>3 DEF CheckUser
  <2>3. calls' \subseteq {[kind |-> "checked", id |-> r, ref |-> ref, slot |-> s, user |-> u,
                           seen |-> 0]}
    BY <1>3, <2>1 DEF CheckUser
  <2>4. QED
    BY <1>1, <2>2, <2>3
<1>4. ASSUME NEW c \in calls, LookForOverlap(c)
      PROVE  OneByOneInv'
  <2> DEFINE d == [c EXCEPT !.kind = "clear", !.seen = writes]
  <2>1. c \in Update
    BY <1>0, <1>4 DEF LookForOverlap, Update, Miss, TypeOK
  <2>2. d.seen = writes
    BY <2>1 DEF Update
  <2>3. calls = {c}
    BY DEF OneByOneInv
  <2>4. calls' \subseteq {d} /\ UNCHANGED <<bookings, writes>>
    BY <1>4, <2>3 DEF LookForOverlap
  <2> HIDE DEF d
  <2>5. QED
    BY <1>1, <2>2, <2>4
<1>5. ASSUME NEW c \in calls, Upsert(c)
      PROVE  OneByOneInv'
  <2> DEFINE same == {b \in bookings : b.ref = c.ref}
             new == [ref |-> c.ref, slot |-> c.slot, owner |-> c.user,
                     seen |-> c.seen, at |-> writes + 1]
  <2>1. bookings' = (bookings \ same) \cup
                      (IF same = {} THEN {new} ELSE {[new EXCEPT !.owner = b.owner] : b \in same})
    BY <1>5 DEF Upsert
  <2>2. PICK n \in bookings' : /\ n.seen = c.seen /\ n.at = writes + 1
                              /\ \A b \in bookings' : b = n \/ b \in bookings
    <3>1. CASE same = {}
      BY <2>1, <3>1
    <3>2. CASE same # {}
      <4>1. PICK b \in same : same = {b}
        BY <3>2 DEF IInv, UniqueRefs
      <4>2. bookings' = (bookings \ same) \cup {[new EXCEPT !.owner = b.owner]}
        BY <2>1, <4>1
      <4>3. /\ [new EXCEPT !.owner = b.owner].seen = c.seen
            /\ [new EXCEPT !.owner = b.owner].at = writes + 1
        OBVIOUS
      <4>4. QED
        BY <4>2, <4>3
    <3>3. QED
      BY <3>1, <3>2
  <2>3. c.seen = writes /\ calls' = {}
    BY <1>5 DEF Upsert, OneByOneInv
  <2>4. \A b \in bookings : b.at \in Nat /\ b.at <= writes
    BY <1>0 DEF IInv, HistoryInv, TypeOK, Row
  <2>5. writes \in Nat
    BY <1>0 DEF TypeOK
  <2>6. \A b \in bookings' : b.at = b.seen + 1
    BY <2>2, <2>3 DEF OneByOneInv
  <2>7. \A a, b \in bookings' : a.at = b.at => a = b
    BY <2>2, <2>4, <2>5 DEF OneByOneInv
  <2>8. QED
    BY <2>3, <2>6, <2>7 DEF OneByOneInv
<1>6. ASSUME NEW c \in calls, ExplainMiss(c)
      PROVE  OneByOneInv'
  BY <1>1, <1>6 DEF ExplainMiss, OneByOneInv
<1>7. CASE (\E ref \in Refs : Use(ref)) \/ (\E u \in Users : AddUser(u) \/ DeleteUser(u))
           \/ Tick \/ UNCHANGED vars
  BY <1>1, <1>7 DEF Use, AddUser, DeleteUser, Tick, vars, OneByOneInv
<1>8. ASSUME NEW r \in Requests, BadRequest(r)
      PROVE  OneByOneInv'
  BY <1>8 DEF BadRequest, OneByOneInv
<1>9. QED
  BY <1>2, <1>3, <1>4, <1>5, <1>6, <1>7, <1>8 DEF Next, UpdateBooking, DeleteBooking

\* A service that serves one request at a time never promises the vehicle twice,
\* whatever is moved and deleted between: what NoDoubleBooking misses is a lock,
\* and a test that sends its requests one by one cannot see it.
THEOREM OneByOneNeverDoubleBooks ==
  ASSUME \A r, s \in Requests : r = s
  PROVE  Spec => []NoDoubleBooking
<1>1. Init => OneByOneInv
  BY DEF Init, OneByOneInv
<1>2. IInv /\ OneByOneInv => NoDoubleBooking
  <2> SUFFICES ASSUME IInv, OneByOneInv, NEW a \in bookings, NEW b \in bookings, a # b,
                      Instants(a) \cap Instants(b) # {}
               PROVE  FALSE
    BY DEF NoDoubleBooking
  <2>1. a.ref # b.ref
    BY DEF IInv, UniqueRefs
  <2>2. Conflicts(b, a.ref, a.slot) /\ Conflicts(a, b.ref, b.slot)
    BY <2>1, SharedInstantConflicts DEF IInv
  <2>3. ~(b.at <= a.seen) /\ ~(a.at <= b.seen)
    BY <2>2 DEF IInv, RowInv
  <2>4. a.at \in Nat /\ a.seen \in Nat /\ b.at \in Nat /\ b.seen \in Nat
    BY DEF IInv, TypeOK, Row
  <2>5. a.at = a.seen + 1 /\ b.at = b.seen + 1 /\ a.at # b.at
    BY DEF OneByOneInv
  <2>6. QED
    BY <2>3, <2>4, <2>5
<1>3. QED
  BY <1>1, <1>2, OneByOneStep, Invariance, PTL DEF Spec

================================================================================
