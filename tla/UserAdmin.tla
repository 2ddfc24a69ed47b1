------------------------------- MODULE UserAdmin -------------------------------
(***************************************************************************)
(* The users table of the authentication service and the admin requests    *)
(* that write it: create, delete and restore, each with its event in the   *)
(* outbox, change of role and change of names, which record none.          *)
(*                                                                         *)
(* Each handler is one transaction at READ COMMITTED: every statement has  *)
(* its own snapshot, so what a check found may have changed before the     *)
(* UPDATE.  The UPDATE locks its row until the commit and repeats only the *)
(* conditions of its own WHERE, so UPDATE, outbox row and commit are one   *)
(* step here.                                                              *)
(***************************************************************************)
EXTENDS Naturals, FiniteSets, Sequences

CONSTANTS Users,     \* people, by user_ref; their names and addresses are left out
          Founders,  \* admins put into the table when the service was installed
          Requests,  \* HTTP requests that can be in a handler at once
          MaxChanges \* bound: transactions that write a user

ASSUME UsersAssumption == IsFiniteSet(Users)
ASSUME FoundersAssumption == Founders \subseteq Users /\ Founders # {}
ASSUME BoundsAssumption == MaxChanges \in Nat

VARIABLES user,    \* user[u]: no row, or deleted_at IS NULL or not
          admin,   \* users whose role_id is admin's, deleted ones included
          outbox,  \* outbox[u]: types of the events recorded about u, in order
          tokens,  \* users who hold a JWT that says admin
          calls,   \* requests between two of their statements
          answer,  \* what the last step answered to its client
          changes, \* history: transactions that wrote a user
          stale    \* history: the last right of an admin was taken away by a
                   \* request that decided before another change

vars == <<user, admin, outbox, tokens, calls, answer, changes, stale>>

\* A request on its way: it has still to count the admins, or only to write.
\* seen is history: how many changes its last check had seen.
Call == [kind : {"count", "clear"}, op : {"delete", "promote", "demote"}, id : Requests,
         user : Users, seen : 0..MaxChanges]

Answers == {"none", "accepted", "last admin", "own role", "exists", "not found",
            "failed"}

TypeOK ==
  /\ user \in [Users -> {"absent", "active", "deleted"}]
  /\ admin \subseteq Users
  /\ outbox \in [Users -> Seq({"created", "deleted", "restored"})]
  /\ tokens \subseteq Users
  /\ calls \subseteq Call
  /\ answer \in Answers
  /\ changes \in 0..MaxChanges
  /\ stale \in BOOLEAN

Init ==
  /\ user = [u \in Users |-> IF u \in Founders THEN "active" ELSE "absent"]
  /\ admin = Founders
  /\ outbox = [u \in Users |-> <<>>]
  /\ tokens = {}
  /\ calls = {}
  /\ answer = "none"
  /\ changes = 0
  /\ stale = FALSE

--------------------------------------------------------------------------------
\* Helpers

\* The rows that the service's own count of admins counts.
Admins == {u \in admin : user[u] = "active"}

Idle(r) == \A c \in calls : c.id # r

Answer(a) == answer' = a

\* A request of an admin's token begins, or goes on as d.
Begin(d) == calls' = calls \cup {d} /\ Answer("none")
Continue(c, d) == calls' = (calls \ {c}) \cup {d} /\ Answer("none")

\* The request of c answers a and is over; nothing is written.
Refuse(c, a) ==
  /\ calls' = calls \ {c}
  /\ Answer(a)
  /\ UNCHANGED <<user, admin, outbox, changes, stale>>

\* A transaction that writes a user commits.
Change ==
  /\ changes < MaxChanges
  /\ changes' = changes + 1
  /\ Answer("accepted")

Record(u, type) == outbox' = [outbox EXCEPT ![u] = Append(@, type)]

\* Request c, if it takes a right from an admin, decided on what it saw then.
Decided(c) == stale' = IF c.user \in Admins THEN c.seen # changes ELSE stale

--------------------------------------------------------------------------------
\* Tokens

\* LoginComplete puts the role that it reads into a JWT valid for 24 hours.
Login(u) ==
  /\ u \in Admins
  /\ tokens' = tokens \cup {u}
  /\ Answer("none")
  /\ UNCHANGED <<user, admin, outbox, calls, changes, stale>>

Expire(u) ==
  /\ u \in tokens
  /\ tokens' = tokens \ {u}
  /\ Answer("none")
  /\ UNCHANGED <<user, admin, outbox, calls, changes, stale>>

--------------------------------------------------------------------------------
\* POST /users, POST /users/{id}/restore and PATCH /users/{id}

\* Somebody else has the username or the email; deleted users keep theirs.
NameTaken(u) == \E v \in Users \ {u} : user[v] # "absent"

\* A name that is taken breaks the INSERT, and the client is told an error.
CreateUser(u) ==
  /\ tokens # {}
  /\ user[u] = "absent"
  /\ \/ /\ user' = [user EXCEPT ![u] = "active"]
        /\ Record(u, "created")
        /\ Change
     \/ /\ NameTaken(u)
        /\ Answer("failed")
        /\ UNCHANGED <<user, outbox, changes>>
  /\ UNCHANGED <<admin, tokens, calls, stale>>

\* UPDATE ... SET username, email WHERE deleted_at IS NULL: one statement, no
\* event, and here a name that is taken has an answer of its own.
SetNames(u) ==
  /\ tokens # {}
  /\ \/ user[u] = "active" /\ Answer("accepted")
     \/ user[u] = "active" /\ NameTaken(u) /\ Answer("exists")
     \/ user[u] # "active" /\ Answer("not found")
  /\ UNCHANGED <<user, admin, outbox, tokens, calls, changes, stale>>

\* The id or the body of this request, or of another one here, does not parse: an
\* error, before any statement.
BadRequest ==
  /\ tokens # {}
  /\ Answer("failed")
  /\ UNCHANGED <<user, admin, outbox, tokens, calls, changes, stale>>

UpdateUser(u) == BadRequest \/ SetNames(u)

\* UPDATE ... WHERE deleted_at IS NOT NULL.  The role is the one of before.
RestoreUser(u) ==
  /\ tokens # {}
  /\ \/ /\ user[u] = "deleted"
        /\ user' = [user EXCEPT ![u] = "active"]
        /\ Record(u, "restored")
        /\ Change
     \/ /\ user[u] # "deleted"
        /\ Answer("not found")
        /\ UNCHANGED <<user, outbox, changes>>
  /\ UNCHANGED <<admin, tokens, calls, stale>>

--------------------------------------------------------------------------------
\* DELETE /users/{id}

\* Statement 1: is it an admin?  Only then are the admins counted.
StartDelete(r, u) ==
  /\ tokens # {}
  /\ Idle(r)
  /\ Begin([kind |-> IF u \in Admins THEN "count" ELSE "clear", op |-> "delete", id |-> r,
            user |-> u, seen |-> changes])
  /\ UNCHANGED <<user, admin, outbox, tokens, changes, stale>>

\* Mutant of DeleteRow: without deleted_at IS NULL.
DeleteRowAgain(c) ==
  /\ c.kind = "clear" /\ c.op = "delete"
  /\ UNCHANGED <<admin, tokens>>
  /\ \/ /\ user[c.user] # "absent"
        /\ user' = [user EXCEPT ![c.user] = "deleted"]
        /\ Record(c.user, "deleted")
        /\ Change
        /\ Decided(c)
        /\ calls' = calls \ {c}
     \/ user[c.user] = "absent" /\ Refuse(c, "not found")

\* UPDATE ... SET deleted_at = NOW() WHERE deleted_at IS NULL, and its event.
DeleteRow(c) ==
  /\ c.kind = "clear" /\ c.op = "delete"
  /\ UNCHANGED <<admin, tokens>>
  /\ \/ /\ user[c.user] = "active"
        /\ user' = [user EXCEPT ![c.user] = "deleted"]
        /\ Record(c.user, "deleted")
        /\ Change
        /\ Decided(c)
        /\ calls' = calls \ {c}
     \/ user[c.user] # "active" /\ Refuse(c, "not found")

--------------------------------------------------------------------------------
\* PATCH /users/{id}/role

\* Nobody changes their own role.
OwnRole(caller, u) == caller = u /\ Answer("own role") /\ UNCHANGED calls

\* Mutant of StartRole: the handler takes any role from the body.
StartRoleOther(r, caller, u, op) ==
  /\ caller \in tokens
  /\ Idle(r)
  /\ caller # u
  /\ Begin([kind |-> "clear", op |-> "other", id |-> r, user |-> u, seen |-> changes])
  /\ UNCHANGED <<user, admin, outbox, tokens, changes, stale>>

\* The caller is who the token says; a demotion goes on to count the admins, a
\* promotion to the UPDATE.
StartRole(r, caller, u, op) ==
  /\ caller \in tokens
  /\ Idle(r)
  /\ \/ /\ caller # u
        /\ Begin([kind |-> IF op = "demote" THEN "count" ELSE "clear", op |-> op, id |-> r,
                  user |-> u, seen |-> changes])
     \/ OwnRole(caller, u)
  /\ UNCHANGED <<user, admin, outbox, tokens, changes, stale>>

\* UPDATE ... SET role_id WHERE deleted_at IS NULL.  There is no event for it.
SetRole(c) ==
  /\ c.kind = "clear" /\ c.op # "delete"
  /\ UNCHANGED tokens
  /\ \/ /\ user[c.user] = "active"
        /\ admin' = IF c.op = "promote" THEN admin \cup {c.user} ELSE admin \ {c.user}
        /\ Change
        /\ IF c.op = "demote" THEN Decided(c) ELSE UNCHANGED stale
        /\ calls' = calls \ {c}
        /\ UNCHANGED <<user, outbox>>
     \/ user[c.user] # "active" /\ Refuse(c, "not found")

--------------------------------------------------------------------------------
\* The check of both

\* Mutant of CountAdmins: adminCount < 1.
CountAdminsBelowOne(c) ==
  /\ c.kind = "count"
  /\ UNCHANGED tokens
  /\ \/ Cardinality(Admins) < 1 /\ Refuse(c, "last admin")
     \/ /\ Cardinality(Admins) >= 1
        /\ Continue(c, [c EXCEPT !.kind = "clear", !.seen = changes])
        /\ UNCHANGED <<user, admin, outbox, changes, stale>>

\* SELECT COUNT(*) of the admins that are not deleted.
CountAdmins(c) ==
  /\ c.kind = "count"
  /\ UNCHANGED tokens
  /\ \/ Cardinality(Admins) <= 1 /\ Refuse(c, "last admin")
     \/ /\ Cardinality(Admins) > 1
        /\ Continue(c, [c EXCEPT !.kind = "clear", !.seen = changes])
        /\ UNCHANGED <<user, admin, outbox, changes, stale>>

Next ==
  \/ \E u \in Users : Login(u) \/ Expire(u) \/ CreateUser(u) \/ UpdateUser(u) \/ RestoreUser(u)
  \/ \E r \in Requests, u \in Users :
       \/ StartDelete(r, u)
       \/ \E caller \in Users, op \in {"promote", "demote"} : StartRole(r, caller, u, op)
  \/ \E c \in calls : CountAdmins(c) \/ DeleteRow(c) \/ SetRole(c)

Spec == Init /\ [][Next]_vars

--------------------------------------------------------------------------------
\* Properties

\* The last admin is only lost to a race: to a delete or a demotion that decided
\* before another change of a user was committed (users.go:79-99, 339-350).
\* Requests that follow each other never get there, restores and promotions
\* between them included.
NoAdminNeedsRace == Admins = {} => stale

\* The events about a user tell a consumer that applies them in order how the
\* user stands, and no two requests record the same change: created comes first,
\* restored always and only after deleted (users.go:57, 115, 153).
EventsTellState ==
  \A u \in Users :
    LET s == outbox[u] IN
    /\ user[u] = "deleted" <=> s # <<>> /\ s[Len(s)] = "deleted"
    /\ \A i \in 1..Len(s) :
         /\ s[i] = "created" => i = 1
         /\ i > 1 => (s[i] = "restored" <=> s[i - 1] = "deleted")

\* A promotion on its way does not reach a user who is deleted before it: a
\* deleted user comes back with the role of the day of the DELETE (users.go:354).
DeletedKeepRole ==
  [][\A u \in Users : user[u] = "deleted" => (u \in admin' <=> u \in admin)]_vars
================================================================================
