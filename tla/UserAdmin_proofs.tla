---------------------------- MODULE UserAdmin_proofs ----------------------------
(***************************************************************************)
(* Proofs about UserAdmin, for any people, founders and concurrent         *)
(* requests.                                                               *)
(***************************************************************************)
EXTENDS UserAdmin, FiniteSetTheorems, TLAPS

--------------------------------------------------------------------------------
\* The inductive invariant

\* History runs forward.
SeenInv == \A c \in calls : c.seen <= changes

\* While nobody has changed a user since its check, a request that may write
\* leaves an admin.
ClearInv ==
  \A c \in calls :
    c.kind = "clear" /\ c.op # "promote" /\ c.seen = changes /\ c.user \in Admins
      => \E a \in Admins : a # c.user

IInv == TypeOK /\ SeenInv /\ ClearInv /\ NoAdminNeedsRace

--------------------------------------------------------------------------------
\* Type correctness

\* A counter below its bound may be incremented.
LEMMA CountsUp ==
  ASSUME NEW m \in Nat, NEW n \in 0..m, n < m
  PROVE  n + 1 \in 0..m
OBVIOUS

\* What a transaction that writes a user does to the counter and the answer.
LEMMA ChangeType == TypeOK /\ Change => changes' \in 0..MaxChanges /\ answer' \in Answers
  BY CountsUp, BoundsAssumption DEF TypeOK, Change, Answer, Answers

\* What it does to the outbox.
LEMMA RecordType ==
  ASSUME TypeOK, NEW u \in Users, NEW type \in {"created", "deleted", "restored"},
         Record(u, type)
  PROVE  outbox' \in [Users -> Seq({"created", "deleted", "restored"})]
<1> DEFINE T == {"created", "deleted", "restored"}
<1>1. outbox \in [Users -> Seq(T)]
  BY DEF TypeOK
<1>2. Append(outbox[u], type) \in Seq(T)
  BY <1>1
<1>3. outbox' = [outbox EXCEPT ![u] = Append(outbox[u], type)]
  BY DEF Record
<1>4. QED
  BY ONLY <1>1, <1>2, <1>3

\* A refused request.
LEMMA RefuseType ==
  ASSUME TypeOK, NEW c \in calls, NEW a \in Answers, Refuse(c, a), UNCHANGED tokens
  PROVE  TypeOK'
  BY DEF TypeOK, Refuse, Answer

\* No step takes a variable out of its type.
LEMMA TypeStep == TypeOK /\ [Next]_vars => TypeOK'
<1> SUFFICES ASSUME TypeOK, [Next]_vars
             PROVE  TypeOK'
  OBVIOUS
<1>0. "none" \in Answers /\ "last admin" \in Answers /\ "own role" \in Answers
      /\ "exists" \in Answers /\ "not found" \in Answers
      /\ "accepted" \in Answers /\ "failed" \in Answers
  BY DEF Answers
<1>1. ASSUME NEW u \in Users, Login(u) \/ Expire(u) \/ UpdateUser(u)
      PROVE  TypeOK'
  BY <1>0, <1>1 DEF Login, Expire, UpdateUser, BadRequest, SetNames, TypeOK, Answer
<1>2. ASSUME NEW u \in Users, CreateUser(u)
      PROVE  TypeOK'
  <2>1. CASE Answer("failed") /\ UNCHANGED <<user, outbox, changes>>
    BY <1>0, <1>2, <2>1 DEF CreateUser, TypeOK, Answer
  <2>2. CASE user' = [user EXCEPT ![u] = "active"] /\ Record(u, "created") /\ Change
    <3>1. outbox' \in [Users -> Seq({"created", "deleted", "restored"})]
      BY <2>2, RecordType
    <3>2. QED
      BY <1>2, <2>2, <3>1, ChangeType DEF CreateUser, TypeOK
  <2>3. QED
    BY <1>2, <2>1, <2>2 DEF CreateUser
<1>3. ASSUME NEW u \in Users, RestoreUser(u)
      PROVE  TypeOK'
  <2>1. CASE Answer("not found") /\ UNCHANGED <<user, outbox, changes>>
    BY <1>0, <1>3, <2>1 DEF RestoreUser, TypeOK, Answer
  <2>2. CASE user' = [user EXCEPT ![u] = "active"] /\ Record(u, "restored") /\ Change
    <3>1. outbox' \in [Users -> Seq({"created", "deleted", "restored"})]
      BY <2>2, RecordType
    <3>2. QED
      BY <1>3, <2>2, <3>1, ChangeType DEF RestoreUser, TypeOK
  <2>3. QED
    BY <1>3, <2>1, <2>2 DEF RestoreUser
<1>4. ASSUME NEW r \in Requests, NEW u \in Users, StartDelete(r, u)
      PROVE  TypeOK'
  <2>1. [kind |-> IF u \in Admins THEN "count" ELSE "clear", op |-> "delete", id |-> r,
         user |-> u, seen |-> changes] \in Call
    BY DEF Call, TypeOK
  <2>2. QED
    BY <1>0, <1>4, <2>1 DEF StartDelete, Begin, TypeOK, Answer
<1>5. ASSUME NEW r \in Requests, NEW u \in Users, NEW caller \in Users,
             NEW op \in {"promote", "demote"}, StartRole(r, caller, u, op)
      PROVE  TypeOK'
  <2>1. [kind |-> IF op = "demote" THEN "count" ELSE "clear", op |-> op, id |-> r,
         user |-> u, seen |-> changes] \in Call
    BY DEF Call, TypeOK
  <2>2. QED
    BY <1>0, <1>5, <2>1 DEF StartRole, OwnRole, Begin, TypeOK, Answer
<1>6. ASSUME NEW c \in calls, CountAdmins(c)
      PROVE  TypeOK'
  <2>1. [c EXCEPT !.kind = "clear", !.seen = changes] \in Call
    BY DEF Call, TypeOK
  <2>2. CASE Refuse(c, "last admin")
    BY <1>0, <1>6, <2>2, RefuseType DEF CountAdmins
  <2>3. CASE /\ Continue(c, [c EXCEPT !.kind = "clear", !.seen = changes])
             /\ UNCHANGED <<user, admin, outbox, changes, stale>>
    BY <1>0, <1>6, <2>1, <2>3 DEF CountAdmins, Continue, TypeOK, Answer
  <2>4. QED
    BY <1>6, <2>2, <2>3 DEF CountAdmins
<1>7. ASSUME NEW c \in calls, DeleteRow(c)
      PROVE  TypeOK'
  <2>1. CASE Refuse(c, "not found")
    BY <1>0, <1>7, <2>1, RefuseType DEF DeleteRow
  <2>2. CASE ~Refuse(c, "not found")
    <3>1. c.user \in Users
      BY DEF TypeOK, Call
    <3>2. outbox' \in [Users -> Seq({"created", "deleted", "restored"})]
      BY <1>7, <2>2, <3>1, RecordType DEF DeleteRow
    <3>3. changes' \in 0..MaxChanges /\ answer' \in Answers
      BY <1>7, <2>2, ChangeType DEF DeleteRow
    <3>4. stale' \in BOOLEAN
      BY <1>7, <2>2 DEF DeleteRow, Decided, TypeOK
    <3>5. user' \in [Users -> {"absent", "active", "deleted"}]
      BY <1>7, <2>2 DEF DeleteRow, TypeOK
    <3>6. calls' \subseteq Call /\ admin' \subseteq Users /\ tokens' \subseteq Users
      BY <1>7, <2>2 DEF DeleteRow, TypeOK
    <3>7. QED
      BY <3>2, <3>3, <3>4, <3>5, <3>6 DEF TypeOK
  <2>3. QED
    BY <2>1, <2>2
<1>8. ASSUME NEW c \in calls, SetRole(c)
      PROVE  TypeOK'
  <2>1. CASE Refuse(c, "not found")
    BY <1>0, <1>8, <2>1, RefuseType DEF SetRole
  <2>2. CASE ~Refuse(c, "not found")
    <3>1. c.user \in Users
      BY DEF TypeOK, Call
    <3>2. changes' \in 0..MaxChanges /\ answer' \in Answers
      BY <1>8, <2>2, ChangeType DEF SetRole
    <3>3. stale' \in BOOLEAN
      BY <1>8, <2>2 DEF SetRole, Decided, TypeOK
    <3>4. admin' \subseteq Users
      BY <1>8, <2>2, <3>1 DEF SetRole, TypeOK
    <3>5. calls' \subseteq Call /\ UNCHANGED <<user, outbox, tokens>>
      BY <1>8, <2>2 DEF SetRole, TypeOK
    <3>6. QED
      BY <3>2, <3>3, <3>4, <3>5 DEF TypeOK
  <2>3. QED
    BY <2>1, <2>2
<1>9. CASE UNCHANGED vars
  BY <1>9 DEF vars, TypeOK
<1>10. QED
  BY <1>1, <1>2, <1>3, <1>4, <1>5, <1>6, <1>7, <1>8, <1>9 DEF Next

\* Initially every variable has its type.
LEMMA TypeInit == Init => TypeOK
<1> SUFFICES ASSUME Init
             PROVE  TypeOK
  OBVIOUS
<1>1. <<>> \in Seq({"created", "deleted", "restored"})
  OBVIOUS
<1>2. outbox \in [Users -> Seq({"created", "deleted", "restored"})]
  BY <1>1 DEF Init
<1>3. 0 \in 0..MaxChanges
  BY BoundsAssumption
<1>4. QED
  BY <1>2, <1>3, FoundersAssumption DEF Init, TypeOK, Answers

\* Every variable keeps its type (users.go, the whole of the admin requests).
THEOREM TypeCorrect == Spec => []TypeOK
<1>1. QED
  BY TypeInit, TypeStep, PTL DEF Spec

--------------------------------------------------------------------------------
\* The last admin

\* A set that was counted to more than one has somebody else.
LEMMA SomebodyElse ==
  ASSUME NEW S, IsFiniteSet(S), Cardinality(S) > 1, NEW u
  PROVE  \E a \in S : a # u
<1>1. SUFFICES ASSUME S \subseteq {u}
               PROVE  FALSE
  OBVIOUS
<1>2. IsFiniteSet({u}) /\ Cardinality({u}) = 1
  BY FS_Singleton
<1>3. Cardinality(S) <= 1 /\ Cardinality(S) \in Nat
  BY <1>1, <1>2, FS_Subset, FS_CardinalityType
<1>4. QED
  BY <1>3

\* A step that writes no user: the requests it leaves on their way are old, or
\* have just looked.
LEMMA Looking ==
  ASSUME IInv, UNCHANGED <<user, admin, changes, stale>>,
         \A d \in calls' \ calls :
           /\ d.seen = changes
           /\ d.kind = "clear" /\ d.op # "promote" /\ d.user \in Admins =>
                \E a \in Admins : a # d.user
  PROVE  SeenInv' /\ ClearInv' /\ NoAdminNeedsRace'
<1>1. Admins' = Admins
  BY DEF Admins
<1>2. SeenInv'
  BY DEF IInv, SeenInv, TypeOK
<1>3. ClearInv'
  BY <1>1 DEF IInv, ClearInv
<1>4. NoAdminNeedsRace'
  BY <1>1 DEF IInv, NoAdminNeedsRace
<1>5. QED
  BY <1>2, <1>3, <1>4

\* A step that writes a user outdates every request on its way.
LEMMA Writing ==
  ASSUME IInv, Change, calls' \subseteq calls
  PROVE  SeenInv' /\ ClearInv'
<1>1. changes \in Nat /\ changes' = changes + 1
  BY BoundsAssumption DEF IInv, TypeOK, Change
<1>2. \A d \in calls' : d.seen \in Nat /\ d.seen <= changes
  BY BoundsAssumption DEF IInv, TypeOK, SeenInv, Call
<1>3. \A d \in calls' : d.seen <= changes' /\ d.seen # changes'
  BY <1>1, <1>2
<1>4. QED
  BY <1>3 DEF SeenInv, ClearInv

\* Taking away the right of one user, decided as the code decides.
LEMMA Removing ==
  ASSUME IInv, NEW c \in calls, c.kind = "clear", c.op # "promote", Decided(c),
         Admins \ {c.user} \subseteq Admins'
  PROVE  NoAdminNeedsRace'
<1>1. CASE c.user \notin Admins
  BY <1>1 DEF Decided, IInv, NoAdminNeedsRace
<1>2. CASE c.user \in Admins /\ c.seen = changes
  BY <1>2 DEF IInv, ClearInv, NoAdminNeedsRace
<1>3. CASE c.user \in Admins /\ c.seen # changes
  BY <1>3 DEF Decided, NoAdminNeedsRace
<1>4. QED
  BY <1>1, <1>2, <1>3

\* No step breaks the inductive invariant.
LEMMA InvariantStep == IInv /\ [Next]_vars => IInv'
<1> SUFFICES ASSUME IInv, [Next]_vars
             PROVE  SeenInv' /\ ClearInv' /\ NoAdminNeedsRace'
  BY TypeStep DEF IInv
<1>1. ASSUME NEW u \in Users, Login(u) \/ Expire(u) \/ UpdateUser(u)
      PROVE  SeenInv' /\ ClearInv' /\ NoAdminNeedsRace'
  BY <1>1, Looking DEF Login, Expire, UpdateUser, BadRequest, SetNames
<1>2. ASSUME NEW u \in Users, CreateUser(u) \/ RestoreUser(u)
      PROVE  SeenInv' /\ ClearInv' /\ NoAdminNeedsRace'
  <2>1. CASE UNCHANGED <<user, outbox, changes>>
    BY <1>2, <2>1, Looking DEF CreateUser, RestoreUser
  <2>2. CASE user' = [user EXCEPT ![u] = "active"] /\ Change
    <3>1. Admins \subseteq Admins' /\ stale' = stale /\ calls' = calls
      BY <1>2, <2>2 DEF CreateUser, RestoreUser, Admins, IInv, TypeOK
    <3>2. NoAdminNeedsRace'
      BY <3>1 DEF IInv, NoAdminNeedsRace
    <3>3. QED
      BY <2>2, <3>1, <3>2, Writing
  <2>3. QED
    BY <1>2, <2>1, <2>2 DEF CreateUser, RestoreUser
<1>3. ASSUME NEW r \in Requests, NEW u \in Users, StartDelete(r, u)
      PROVE  SeenInv' /\ ClearInv' /\ NoAdminNeedsRace'
  <2> DEFINE d == [kind |-> IF u \in Admins THEN "count" ELSE "clear", op |-> "delete",
                   id |-> r, user |-> u, seen |-> changes]
  <2>1. calls' = calls \cup {d} /\ UNCHANGED <<user, admin, changes, stale>>
    BY <1>3 DEF StartDelete, Begin
  <2>2. d.seen = changes /\ (d.kind = "clear" => d.user \notin Admins)
    OBVIOUS
  <2> HIDE DEF d
  <2>3. QED
    BY <2>1, <2>2, Looking
<1>4. ASSUME NEW r \in Requests, NEW u \in Users, NEW caller \in Users,
             NEW op \in {"promote", "demote"}, StartRole(r, caller, u, op)
      PROVE  SeenInv' /\ ClearInv' /\ NoAdminNeedsRace'
  <2> DEFINE d == [kind |-> IF op = "demote" THEN "count" ELSE "clear", op |-> op, id |-> r,
                   user |-> u, seen |-> changes]
  <2>1. calls' \subseteq calls \cup {d} /\ UNCHANGED <<user, admin, changes, stale>>
    BY <1>4 DEF StartRole, OwnRole, Begin
  <2>2. d.seen = changes /\ (d.kind = "clear" => d.op = "promote")
    OBVIOUS
  <2> HIDE DEF d
  <2>3. QED
    BY <2>1, <2>2, Looking
<1>5. ASSUME NEW c \in calls, CountAdmins(c)
      PROVE  SeenInv' /\ ClearInv' /\ NoAdminNeedsRace'
  <2>1. CASE Refuse(c, "last admin")
    BY <2>1, Looking DEF Refuse
  <2>2. CASE /\ Cardinality(Admins) > 1
             /\ Continue(c, [c EXCEPT !.kind = "clear", !.seen = changes])
             /\ UNCHANGED <<user, admin, outbox, changes, stale>>
    <3> DEFINE d == [c EXCEPT !.kind = "clear", !.seen = changes]
    <3>1. calls' \subseteq calls \cup {d} /\ UNCHANGED <<user, admin, changes, stale>>
      BY <2>2 DEF Continue
    <3>2. d.seen = changes
      BY DEF IInv, TypeOK, Call
    <3>3. IsFiniteSet(Admins)
      BY UsersAssumption, FS_Subset DEF IInv, TypeOK, Admins
    <3> HIDE DEF d
    <3>4. \E a \in Admins : a # d.user
      BY <2>2, <3>3, SomebodyElse
    <3>5. QED
      BY <3>1, <3>2, <3>4, Looking
  <2>3. QED
    BY <1>5, <2>1, <2>2 DEF CountAdmins
<1>6. ASSUME NEW c \in calls, DeleteRow(c)
      PROVE  SeenInv' /\ ClearInv' /\ NoAdminNeedsRace'
  <2>1. CASE Refuse(c, "not found")
    BY <2>1, Looking DEF Refuse
  <2>2. CASE ~Refuse(c, "not found")
    <3>1. Admins \ {c.user} \subseteq Admins'
      BY <1>6, <2>2 DEF DeleteRow, Admins, IInv, TypeOK
    <3>2. NoAdminNeedsRace'
      BY <1>6, <2>2, <3>1, Removing DEF DeleteRow
    <3>3. Change /\ calls' \subseteq calls
      BY <1>6, <2>2 DEF DeleteRow
    <3>4. QED
      BY <3>2, <3>3, Writing
  <2>3. QED
    BY <2>1, <2>2
<1>7. ASSUME NEW c \in calls, SetRole(c)
      PROVE  SeenInv' /\ ClearInv' /\ NoAdminNeedsRace'
  <2>1. CASE Refuse(c, "not found")
    BY <2>1, Looking DEF Refuse
  <2>2. CASE ~Refuse(c, "not found") /\ c.op = "promote"
    <3>1. Admins \subseteq Admins' /\ stale' = stale
      BY <1>7, <2>2 DEF SetRole, Admins
    <3>2. NoAdminNeedsRace'
      BY <3>1 DEF IInv, NoAdminNeedsRace
    <3>3. Change /\ calls' \subseteq calls
      BY <1>7, <2>2 DEF SetRole
    <3>4. QED
      BY <3>2, <3>3, Writing
  <2>3. CASE ~Refuse(c, "not found") /\ c.op # "promote"
    <3>1. c.kind = "clear" /\ c.op = "demote"
      BY <1>7, <2>3 DEF SetRole, IInv, TypeOK, Call
    <3>2. Admins \ {c.user} \subseteq Admins'
      BY <1>7, <2>3 DEF SetRole, Admins
    <3>3. NoAdminNeedsRace'
      BY <1>7, <2>3, <3>1, <3>2, Removing DEF SetRole
    <3>4. Change /\ calls' \subseteq calls
      BY <1>7, <2>3 DEF SetRole
    <3>5. QED
      BY <3>3, <3>4, Writing
  <2>4. QED
    BY <2>1, <2>2, <2>3
<1>8. CASE UNCHANGED vars
  BY <1>8, Looking DEF vars
<1>9. QED
  BY <1>1, <1>2, <1>3, <1>4, <1>5, <1>6, <1>7, <1>8 DEF Next

\* The inductive invariant holds throughout.
LEMMA Invariance == Spec => []IInv
<1>1. Init => IInv
  <2>1. ASSUME Init
        PROVE  Admins # {}
    BY <2>1, FoundersAssumption DEF Init, Admins
  <2>2. QED
    BY <2>1, TypeInit DEF Init, IInv, SeenInv, ClearInv, NoAdminNeedsRace
<1>2. QED
  BY <1>1, InvariantStep, PTL DEF Spec

\* The last admin is only lost to a request that decided before another change of
\* a user was committed (users.go:79-99, 339-350).
THEOREM LastAdminLostByRace == Spec => []NoAdminNeedsRace
<1>1. IInv => NoAdminNeedsRace
  BY DEF IInv
<1>2. QED
  BY <1>1, Invariance, PTL

--------------------------------------------------------------------------------
\* Roles of deleted users

\* A deleted user keeps the role of the day of the DELETE (users.go:354).
THEOREM RolesFrozen == Spec => DeletedKeepRole
<1>1. ASSUME TypeOK, [Next]_vars, NEW u \in Users, user[u] = "deleted"
      PROVE  u \in admin' <=> u \in admin
  <2>1. ASSUME NEW c \in calls, SetRole(c)
        PROVE  u \in admin' <=> u \in admin
    BY <1>1, <2>1 DEF SetRole, Refuse
  <2>2. CASE UNCHANGED vars
    BY <2>2 DEF vars
  <2>3. CASE admin' = admin
    BY <2>3
  <2>4. QED
    BY <1>1, <2>1, <2>2, <2>3
       DEF Next, Login, Expire, CreateUser, UpdateUser, BadRequest, SetNames, RestoreUser,
           StartDelete, StartRole, CountAdmins, Refuse, DeleteRow
<1>2. TypeOK /\ [Next]_vars =>
        [\A u \in Users : user[u] = "deleted" => (u \in admin' <=> u \in admin)]_vars
  BY <1>1
<1>3. QED
  BY <1>2, TypeCorrect, PTL DEF Spec, DeletedKeepRole

--------------------------------------------------------------------------------
\* The events of a user

\* What a sequence of events says of one user, and what it must not say.
Types == {"created", "deleted", "restored"}
Says(s, state) == state = "deleted" <=> s # <<>> /\ s[Len(s)] = "deleted"
Lawful(s) ==
  \A i \in 1..Len(s) :
    /\ s[i] = "created" => i = 1
    /\ i > 1 => (s[i] = "restored" <=> s[i - 1] = "deleted")

\* Nothing was ever recorded about a user who has no row.
EventsInv ==
  \A u \in Users :
    /\ user[u] = "absent" => outbox[u] = <<>>
    /\ Says(outbox[u], user[u])
    /\ Lawful(outbox[u])

\* One more event of the right kind.
LEMMA Appended ==
  ASSUME NEW s \in Seq(Types), NEW state, NEW t \in Types, Says(s, state), Lawful(s),
         t = "created" => s = <<>>,
         t = "restored" => state = "deleted",
         t = "deleted" => state # "deleted"
  PROVE  /\ Lawful(Append(s, t))
         /\ Append(s, t) # <<>>
         /\ Append(s, t)[Len(Append(s, t))] = t
<1> DEFINE n == Append(s, t)
<1>1. Len(n) = Len(s) + 1 /\ n[Len(n)] = t /\ Len(s) \in Nat
  OBVIOUS
<1>2. \A i \in 1..Len(s) : n[i] = s[i]
  OBVIOUS
<1>3. s = <<>> <=> Len(s) = 0
  OBVIOUS
<1> HIDE DEF n
<1>4. ASSUME NEW i \in 1..Len(n)
      PROVE  /\ n[i] = "created" => i = 1
             /\ i > 1 => (n[i] = "restored" <=> n[i - 1] = "deleted")
  <2>1. CASE i \in 1..Len(s)
    <3>1. i > 1 => i - 1 \in 1..Len(s)
      BY <1>1, <2>1
    <3>2. n[i] = s[i] /\ (i > 1 => n[i - 1] = s[i - 1])
      BY <1>2, <2>1, <3>1
    <3>3. QED
      BY <2>1, <3>2 DEF Lawful
  <2>2. CASE i = Len(s) + 1
    <3>1. n[i] = t
      BY <1>1, <2>2
    <3>2. CASE i = 1
      BY <3>2
    <3>3. CASE i > 1
      <4>1. i - 1 = Len(s) /\ Len(s) \in 1..Len(s) /\ s # <<>>
        BY <1>1, <1>3, <2>2, <3>3
      <4>2. n[i - 1] = s[Len(s)]
        BY <1>2, <4>1
      <4>3. n[i - 1] = "deleted" <=> state = "deleted"
        BY <4>1, <4>2 DEF Says
      <4>4. QED
        BY <3>1, <4>1, <4>3 DEF Types
    <3>4. QED
      BY <1>1, <3>2, <3>3
  <2>3. QED
    BY <1>1, <2>1, <2>2
<1>5. Lawful(n)
  BY <1>4 DEF Lawful
<1>6. n # <<>>
  BY <1>1 DEF n
<1>7. QED
  BY <1>1, <1>5, <1>6 DEF n

\* A transaction that records its change keeps the events in step with the rows.
LEMMA Recorded ==
  ASSUME TypeOK, EventsInv, NEW u \in Users, NEW t \in Types, Record(u, t),
         NEW state \in {"active", "deleted"}, user' = [user EXCEPT ![u] = state],
         t = "created" => user[u] = "absent",
         t = "restored" => user[u] = "deleted",
         t = "deleted" => user[u] # "deleted",
         t = "deleted" <=> state = "deleted"
  PROVE  EventsInv'
<1>1. outbox \in [Users -> Seq(Types)] /\ user \in [Users -> {"absent", "active", "deleted"}]
  BY DEF TypeOK, Types
<1>2. outbox' = [outbox EXCEPT ![u] = Append(outbox[u], t)]
  BY DEF Record
<1>3. outbox'[u] = Append(outbox[u], t) /\ user'[u] = state
  BY <1>1, <1>2
<1>4. /\ Lawful(outbox'[u])
      /\ outbox'[u] # <<>>
      /\ outbox'[u][Len(outbox'[u])] = t
  BY <1>1, <1>3, Appended DEF EventsInv
<1>5. ASSUME NEW v \in Users, v # u
      PROVE  outbox'[v] = outbox[v] /\ user'[v] = user[v]
  BY <1>1, <1>2, <1>5
<1>6. ASSUME NEW v \in Users
      PROVE  /\ user'[v] = "absent" => outbox'[v] = <<>>
             /\ Says(outbox'[v], user'[v])
             /\ Lawful(outbox'[v])
  <2>1. CASE v = u
    BY <1>3, <1>4, <2>1 DEF Says
  <2>2. CASE v # u
    BY <1>5, <2>2 DEF EventsInv
  <2>3. QED
    BY <2>1, <2>2
<1>7. QED
  BY <1>6 DEF EventsInv

\* No step lets them part.
LEMMA EventsStep == TypeOK /\ EventsInv /\ [Next]_vars => EventsInv'
<1> SUFFICES ASSUME TypeOK, EventsInv, [Next]_vars
             PROVE  EventsInv'
  OBVIOUS
<1>0. ASSUME UNCHANGED <<user, outbox>>
      PROVE  EventsInv'
  BY <1>0 DEF EventsInv
<1>1. ASSUME NEW u \in Users, CreateUser(u)
      PROVE  EventsInv'
  BY <1>0, <1>1, Recorded DEF CreateUser, Types
<1>2. ASSUME NEW u \in Users, RestoreUser(u)
      PROVE  EventsInv'
  BY <1>0, <1>2, Recorded DEF RestoreUser, Types
<1>3. ASSUME NEW c \in calls, DeleteRow(c)
      PROVE  EventsInv'
  <2>1. c.user \in Users
    BY DEF TypeOK, Call
  <2>2. QED
    BY <1>0, <1>3, <2>1, Recorded DEF DeleteRow, Refuse, Types
<1>4. CASE UNCHANGED vars
  BY <1>0, <1>4 DEF vars
<1>5. QED
  BY <1>0, <1>1, <1>2, <1>3, <1>4
     DEF Next, Login, Expire, UpdateUser, BadRequest, SetNames, StartDelete, StartRole,
         CountAdmins, SetRole, Refuse

\* The events about a user say how the user stands, and never say a change twice
\* (users.go:57, 115, 153).
THEOREM EventsTell == Spec => []EventsTellState
<1>1. Init => EventsInv
  BY FoundersAssumption DEF Init, EventsInv, Says, Lawful
<1>2. EventsInv => EventsTellState
  BY DEF EventsInv, EventsTellState, Says, Lawful
<1>3. QED
  BY <1>1, <1>2, EventsStep, TypeCorrect, PTL DEF Spec

--------------------------------------------------------------------------------
\* One request at a time

\* Somebody is an admin, and there is at most one delete or change of role on its
\* way: if it may write, it leaves somebody else.
OneByOneInv ==
  /\ Admins # {}
  /\ \A c, d \in calls : c = d
  /\ \A c \in calls : c.kind = "clear" /\ c.op # "promote" => \E a \in Admins : a # c.user

\* The request that begins is the only one.
LEMMA OnlyCall ==
  ASSUME TypeOK, \A r, s \in Requests : r = s, NEW r \in Requests, Idle(r)
  PROVE  calls = {}
BY DEF TypeOK, Call, Idle

\* A step that takes no right away, and leaves at most the request d on its way.
LEMMA NobodyLeaves ==
  ASSUME OneByOneInv, Admins \subseteq Admins', NEW d, calls' \subseteq {d},
         d \in calls' /\ d.kind = "clear" /\ d.op # "promote" => \E a \in Admins : a # d.user
  PROVE  OneByOneInv'
BY DEF OneByOneInv

\* A step of the service while it serves one such request at a time.
LEMMA OneByOneStep ==
  ASSUME \A r, s \in Requests : r = s
  PROVE  TypeOK /\ OneByOneInv /\ [Next]_vars => OneByOneInv'
<1> SUFFICES ASSUME TypeOK, OneByOneInv, [Next]_vars
             PROVE  OneByOneInv'
  OBVIOUS
<1>0. ASSUME Admins \subseteq Admins', calls' \subseteq calls
      PROVE  OneByOneInv'
  BY <1>0 DEF OneByOneInv
<1>1. ASSUME NEW u \in Users, Login(u) \/ Expire(u) \/ UpdateUser(u)
      PROVE  OneByOneInv'
  BY <1>0, <1>1 DEF Login, Expire, UpdateUser, BadRequest, SetNames, Admins
<1>2. ASSUME NEW u \in Users, CreateUser(u) \/ RestoreUser(u)
      PROVE  OneByOneInv'
  <2>1. Admins \subseteq Admins'
    BY <1>2 DEF CreateUser, RestoreUser, Admins, TypeOK
  <2>2. calls' = calls
    BY <1>2 DEF CreateUser, RestoreUser
  <2>3. QED
    BY <1>0, <2>1, <2>2
<1>3. ASSUME NEW r \in Requests, NEW u \in Users, StartDelete(r, u)
      PROVE  OneByOneInv'
  <2> DEFINE d == [kind |-> IF u \in Admins THEN "count" ELSE "clear", op |-> "delete",
                   id |-> r, user |-> u, seen |-> changes]
  <2>1. calls = {}
    BY <1>3, OnlyCall DEF StartDelete
  <2>2. calls' \subseteq {d} /\ Admins' = Admins
    BY <1>3, <2>1 DEF StartDelete, Begin, Admins
  <2>3. d.user = u /\ (d.kind = "clear" => u \notin Admins)
    OBVIOUS
  <2> HIDE DEF d
  <2>4. d.kind = "clear" => \E a \in Admins : a # d.user
    BY <2>3 DEF OneByOneInv
  <2>5. QED
    BY <2>2, <2>4, NobodyLeaves
<1>4. ASSUME NEW r \in Requests, NEW u \in Users, NEW caller \in Users,
             NEW op \in {"promote", "demote"}, StartRole(r, caller, u, op)
      PROVE  OneByOneInv'
  <2> DEFINE d == [kind |-> IF op = "demote" THEN "count" ELSE "clear", op |-> op, id |-> r,
                   user |-> u, seen |-> changes]
  <2>1. calls = {}
    BY <1>4, OnlyCall DEF StartRole
  <2>2. calls' \subseteq {d} /\ Admins' = Admins
    BY <1>4, <2>1 DEF StartRole, OwnRole, Begin, Admins
  <2>3. d.kind = "clear" => d.op = "promote"
    OBVIOUS
  <2> HIDE DEF d
  <2>4. QED
    BY <2>2, <2>3, NobodyLeaves
<1>5. ASSUME NEW c \in calls, CountAdmins(c)
      PROVE  OneByOneInv'
  <2>1. CASE Refuse(c, "last admin")
    BY <1>0, <2>1 DEF Refuse, Admins
  <2>2. CASE /\ Cardinality(Admins) > 1
             /\ Continue(c, [c EXCEPT !.kind = "clear", !.seen = changes])
             /\ UNCHANGED <<user, admin, outbox, changes, stale>>
    <3> DEFINE d == [c EXCEPT !.kind = "clear", !.seen = changes]
    <3>1. calls' \subseteq {d} /\ Admins' = Admins
      BY <2>2 DEF Continue, OneByOneInv, Admins
    <3>2. IsFiniteSet(Admins)
      BY UsersAssumption, FS_Subset DEF TypeOK, Admins
    <3> HIDE DEF d
    <3>3. \E a \in Admins : a # d.user
      BY <2>2, <3>2, SomebodyElse
    <3>4. QED
      BY <3>1, <3>3, NobodyLeaves
  <2>3. QED
    BY <1>5, <2>1, <2>2 DEF CountAdmins
<1>6. ASSUME NEW c \in calls, DeleteRow(c) \/ SetRole(c)
      PROVE  OneByOneInv'
  <2>1. CASE Refuse(c, "not found")
    BY <1>0, <2>1 DEF Refuse, Admins
  <2>2. CASE ~Refuse(c, "not found") /\ c.op # "promote"
    <3>1. c.kind = "clear" /\ (c.op = "delete" \/ c.op = "demote")
      BY <1>6, <2>2 DEF DeleteRow, SetRole, TypeOK, Call
    <3>2. Admins \ {c.user} \subseteq Admins'
      BY <1>6, <2>2 DEF DeleteRow, SetRole, Admins, TypeOK
    <3>3. calls' = {}
      BY <1>6, <2>2 DEF DeleteRow, SetRole, OneByOneInv
    <3>4. QED
      BY <3>1, <3>2, <3>3 DEF OneByOneInv
  <2>3. CASE ~Refuse(c, "not found") /\ c.op = "promote"
    <3>1. Admins \subseteq Admins'
      BY <1>6, <2>3 DEF DeleteRow, SetRole, Admins
    <3>2. calls' \subseteq calls
      BY <1>6, <2>3 DEF DeleteRow, SetRole
    <3>3. QED
      BY <1>0, <3>1, <3>2
  <2>4. QED
    BY <2>1, <2>2, <2>3
<1>7. CASE UNCHANGED vars
  BY <1>0, <1>7 DEF vars, Admins
<1>8. QED
  BY <1>1, <1>2, <1>3, <1>4, <1>5, <1>6, <1>7 DEF Next

\* While deletes and changes of role are served one at a time, there is always an
\* admin, whoever is created and restored in the middle of one: the count of
\* admins is right, and only races get past it (users.go:79-99, 339-350).
THEOREM OneByOneKeepsAdmin ==
  ASSUME \A r, s \in Requests : r = s
  PROVE  Spec => [](Admins # {})
<1>1. Init => OneByOneInv
  <2>1. Init => Admins # {}
    BY FoundersAssumption DEF Init, Admins
  <2>2. QED
    BY <2>1 DEF Init, OneByOneInv
<1>2. OneByOneInv => Admins # {}
  BY DEF OneByOneInv
<1>3. QED
  BY <1>1, <1>2, OneByOneStep, TypeCorrect, PTL DEF Spec

================================================================================
