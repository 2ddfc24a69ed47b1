--------------------------------- MODULE Login ---------------------------------
(***************************************************************************)
(* Login of the authentication service: a security token that is mailed    *)
(* opens a registration of a passkey, a passkey opens an assertion, and    *)
(* LoginComplete turns either into a JWT.  Every handler is a sequence of  *)
(* single statements without a transaction, so calls interleave between    *)
(* any two of them and may end after any of them.                          *)
(*                                                                         *)
(* A DELETE of a user is soft: its tokens, sessions and passkeys stay.     *)
(***************************************************************************)
EXTENDS Naturals, FiniteSets

CONSTANTS Users,
          Calls,     \* requests served at the same time
          Codes,     \* six-digit codes of security tokens; they can repeat
          Sessions,  \* session ids (uuid.New(), never repeated)
          Keys,      \* credential ids of authenticators
          MaxTokens  \* bound: tokens issued for a user

ASSUME CallsAssumption == IsFiniteSet(Calls)
ASSUME CodesAssumption == IsFiniteSet(Codes)
ASSUME NobodyAssumption == "nobody" \notin Users
ASSUME MaxTokensAssumption == MaxTokens \in Nat

VARIABLES active,   \* active[u]: deleted_at IS NULL
          fresh,    \* fresh[u]: codes with an unused, unexpired row
          session,  \* "unused", the session_type, or "gone" (deleted or expired)
          owner,    \* user_ref of a session
          allowed,  \* passkeys a session was begun with (its data)
          keys,     \* keys[u]: rows of passkeys
          pc,       \* where each call is
          user,     \* the user it serves
          sid,      \* LoginComplete: the session id
          reg,      \* LoginComplete: the session it read is a registration
          seen,     \* passkeys it read
          key,      \* LoginComplete: the credential it accepted
          issued,   \* history: tokens created for u
          opened,   \* history: registrations opened for u
          had,      \* history: users that have had a passkey
          cut,      \* history: users with a registration that ended between its statements
          awake,    \* history: c's user was active since c read its session
          valid,    \* history: passkeys of c's user since c read its session
          rivals,   \* history: passkeys stored for c's user since c's DELETE
          met       \* met[k]: rivals of the call that stored k

tables == <<active, fresh, session, owner, allowed, keys>>
locals == <<pc, user, sid, reg, seen, key>>
counts == <<issued, opened, had, cut>>
spans == <<awake, valid, rivals, met>>
vars == <<tables, locals, counts, spans>>

Steps == {"idle", "keys", "token", "assertion", "verify", "registration", "delete",
          "user", "reread", "replace", "store", "jwt"}

\* Every session has an owner, and every call that is being served a user.
TypeOK ==
  /\ active \in [Users -> BOOLEAN]
  /\ fresh \in [Users -> SUBSET Codes]
  /\ session \in [Sessions -> {"unused", "assertion", "registration", "gone"}]
  /\ owner \in [Sessions -> Users \cup {"nobody"}]
  /\ allowed \in [Sessions -> SUBSET Keys]
  /\ keys \in [Users -> SUBSET Keys]
  /\ pc \in [Calls -> Steps]
  /\ user \in [Calls -> Users \cup {"nobody"}]
  /\ sid \in [Calls -> Sessions \cup {"nobody"}]
  /\ reg \in [Calls -> BOOLEAN]
  /\ seen \in [Calls -> SUBSET Keys]
  /\ key \in [Calls -> Keys \cup {"nobody"}]
  /\ issued \in [Users -> 0..MaxTokens]
  /\ opened \in [Users -> Nat]
  /\ had \in SUBSET Users
  /\ cut \in SUBSET Users
  /\ awake \in [Calls -> BOOLEAN]
  /\ valid \in [Calls -> SUBSET Keys]
  /\ rivals \in [Calls -> SUBSET Keys]
  /\ met \in [Keys -> SUBSET Keys]
  /\ \A s \in Sessions : session[s] # "unused" => owner[s] \in Users
  /\ \A c \in Calls : pc[c] # "idle" => user[c] \in Users
  /\ \A c \in Calls : pc[c] = "delete" => sid[c] \in {s \in Sessions : session[s] # "unused"}

Init ==
  /\ active = [u \in Users |-> TRUE]
  /\ fresh = [u \in Users |-> {}]
  /\ session = [s \in Sessions |-> "unused"]
  /\ owner = [s \in Sessions |-> "nobody"]
  /\ allowed = [s \in Sessions |-> {}]
  /\ keys = [u \in Users |-> {}]
  /\ pc = [c \in Calls |-> "idle"]
  /\ user = [c \in Calls |-> "nobody"]
  /\ sid = [c \in Calls |-> "nobody"]
  /\ reg = [c \in Calls |-> FALSE]
  /\ seen = [c \in Calls |-> {}]
  /\ key = [c \in Calls |-> "nobody"]
  /\ issued = [u \in Users |-> 0]
  /\ opened = [u \in Users |-> 0]
  /\ had = {}
  /\ cut = {}
  /\ awake = [c \in Calls |-> FALSE]
  /\ valid = [c \in Calls |-> {}]
  /\ rivals = [c \in Calls |-> {}]
  /\ met = [k \in Keys |-> {}]

--------------------------------------------------------------------------------
\* Helpers

At(c, step) == pc[c] = step

\* The call goes on with another step.
GoOn(c, step) == pc' = [pc EXCEPT ![c] = step]

\* The call is answered, and what it knew is gone with it.
Return(c) ==
  /\ pc' = [pc EXCEPT ![c] = "idle"]
  /\ user' = [user EXCEPT ![c] = "nobody"]
  /\ sid' = [sid EXCEPT ![c] = "nobody"]
  /\ reg' = [reg EXCEPT ![c] = FALSE]
  /\ seen' = [seen EXCEPT ![c] = {}]
  /\ key' = [key EXCEPT ![c] = "nobody"]
  /\ awake' = [awake EXCEPT ![c] = FALSE]
  /\ valid' = [valid EXCEPT ![c] = {}]
  /\ rivals' = [rivals EXCEPT ![c] = {}]
  /\ UNCHANGED met

\* Mutant of OpenSession: the row has no user_ref.
OpenSessionOfNobody(c, s, type) ==
  /\ session[s] = "unused"
  /\ session' = [session EXCEPT ![s] = type]
  /\ allowed' = [allowed EXCEPT ![s] = seen[c]]
  /\ UNCHANGED owner

\* StoreWebAuthnSession under a new id.
OpenSession(c, s, type) ==
  /\ session[s] = "unused"
  /\ session' = [session EXCEPT ![s] = type]
  /\ owner' = [owner EXCEPT ![s] = user[c]]
  /\ allowed' = [allowed EXCEPT ![s] = seen[c]]

--------------------------------------------------------------------------------
\* LoginBegin and ResetLogin

\* The first statement of a request with an email: it finds a user that is not
\* deleted, or the request is over.
FindByEmail(c, u, step) ==
  /\ At(c, "idle")
  /\ active[u]
  /\ user' = [user EXCEPT ![c] = u]
  /\ GoOn(c, step)
  /\ UNCHANGED <<tables, sid, reg, seen, key, counts, spans>>

LoginBegin(c, u) == FindByEmail(c, u, "keys")

\* Straight to a new token, whatever passkeys there are.
ResetLogin(c, u) == FindByEmail(c, u, "token")

\* GetPasskeys of LoginBegin: without one the user is mailed a token.
LookForKeys(c) ==
  /\ At(c, "keys")
  /\ seen' = [seen EXCEPT ![c] = keys[user[c]]]
  /\ GoOn(c, IF keys[user[c]] = {} THEN "token" ELSE "assertion")
  /\ UNCHANGED <<tables, user, sid, reg, key, counts, spans>>

\* CreateSecurityToken; the mail that follows changes nothing here.
IssueToken(c, code) ==
  /\ At(c, "token")
  /\ issued[user[c]] < MaxTokens
  /\ issued' = [issued EXCEPT ![user[c]] = @ + 1]
  /\ fresh' = [fresh EXCEPT ![user[c]] = @ \cup {code}]
  /\ Return(c)
  /\ UNCHANGED <<active, session, owner, allowed, keys, opened, had, cut>>

\* BeginLogin and StoreWebAuthnSession.
OpenAssertion(c, s) ==
  /\ At(c, "assertion")
  /\ OpenSession(c, s, "assertion")
  /\ Return(c)
  /\ UNCHANGED <<active, fresh, keys, counts>>

--------------------------------------------------------------------------------
\* VerifyToken

VerifyToken(c, u) == FindByEmail(c, u, "verify")

\* Mutant of ConsumeToken: used_at is not set.
ConsumeTokenAgain(c, code) ==
  /\ At(c, "verify")
  /\ code \in fresh[user[c]]
  /\ GoOn(c, "registration")
  /\ UNCHANGED <<tables, user, sid, reg, seen, key, counts, spans>>

\* VerifyAndConsumeToken: one UPDATE that asks and marks, on every row with the
\* code.  A code that matches none is an error, as an abandoned call is.
ConsumeToken(c, code) ==
  /\ At(c, "verify")
  /\ code \in fresh[user[c]]
  /\ fresh' = [fresh EXCEPT ![user[c]] = @ \ {code}]
  /\ GoOn(c, "registration")
  /\ UNCHANGED <<active, session, owner, allowed, keys, user, sid, reg, seen, key, counts, spans>>

\* BeginRegistration and StoreWebAuthnSession.
OpenRegistration(c, s) ==
  /\ At(c, "registration")
  /\ OpenSession(c, s, "registration")
  /\ opened' = [opened EXCEPT ![user[c]] = @ + 1]
  /\ Return(c)
  /\ UNCHANGED <<active, fresh, keys, issued, had, cut>>

--------------------------------------------------------------------------------
\* LoginComplete

\* GetWebAuthnSession; from here on the call is about the owner of the session.
ReadSession(c, s) ==
  /\ At(c, "idle")
  /\ session[s] \in {"assertion", "registration"}
  /\ sid' = [sid EXCEPT ![c] = s]
  /\ reg' = [reg EXCEPT ![c] = session[s] = "registration"]
  /\ user' = [user EXCEPT ![c] = owner[s]]
  /\ awake' = [awake EXCEPT ![c] = active[owner[s]]]
  /\ valid' = [valid EXCEPT ![c] = keys[owner[s]]]
  /\ GoOn(c, "delete")
  /\ UNCHANGED <<tables, seen, key, counts, rivals, met>>

\* DeleteWebAuthnSession does not look at how many rows it deleted.
DeleteSession(c) ==
  /\ At(c, "delete")
  /\ session' = [session EXCEPT ![sid[c]] = "gone"]
  /\ GoOn(c, "user")
  /\ UNCHANGED <<active, fresh, owner, allowed, keys, user, sid, reg, seen, key, counts, spans>>

\* Mutant of FindByRef: a deleted user is found as well.
FindByRefDeleted(c) ==
  /\ At(c, "user")
  /\ GoOn(c, "reread")
  /\ UNCHANGED <<tables, user, sid, reg, seen, key, counts, spans>>

\* FindByRef of a user that is not deleted.
FindByRef(c) ==
  /\ At(c, "user")
  /\ active[user[c]]
  /\ GoOn(c, "reread")
  /\ UNCHANGED <<tables, user, sid, reg, seen, key, counts, spans>>

\* GetPasskeys once more.
RereadKeys(c) ==
  /\ At(c, "reread")
  /\ seen' = [seen EXCEPT ![c] = keys[user[c]]]
  /\ GoOn(c, "replace")
  /\ UNCHANGED <<tables, user, sid, reg, key, counts, spans>>

\* Mutant of ValidateLogin: what the session was begun with is good enough.
ValidateLoginOld(c, k) ==
  /\ At(c, "replace")
  /\ ~reg[c]
  /\ k \in allowed[sid[c]]
  /\ key' = [key EXCEPT ![c] = k]
  /\ GoOn(c, "jwt")
  /\ UNCHANGED <<tables, user, sid, reg, seen, counts, spans>>

\* ValidateLogin: the credential is one the session was begun with, and all of
\* those still belong to the user.
ValidateLogin(c, k) ==
  /\ At(c, "replace")
  /\ ~reg[c]
  /\ k \in allowed[sid[c]]
  /\ allowed[sid[c]] \subseteq seen[c]
  /\ key' = [key EXCEPT ![c] = k]
  /\ GoOn(c, "jwt")
  /\ UNCHANGED <<tables, user, sid, reg, seen, counts, spans>>

\* Mutant of ReplaceKeys: the old passkeys are kept.
ReplaceKeysNever(c) ==
  /\ At(c, "replace")
  /\ reg[c]
  /\ rivals' = [rivals EXCEPT ![c] = {}]
  /\ GoOn(c, "store")
  /\ UNCHANGED <<tables, user, sid, reg, seen, key, counts, awake, valid, met>>

\* CreateCredential accepts the response, and DeletePasskeys.
ReplaceKeys(c) ==
  /\ At(c, "replace")
  /\ reg[c]
  /\ keys' = [keys EXCEPT ![user[c]] = {}]
  /\ rivals' = [rivals EXCEPT ![c] = {}]
  /\ GoOn(c, "store")
  /\ UNCHANGED <<active, fresh, session, owner, allowed, user, sid, reg, seen, key, counts,
                 awake, valid, met>>

\* StorePasskey; a credential id that is in the table is an error.
StoreKey(c, k) ==
  /\ At(c, "store")
  /\ \A u \in Users : k \notin keys[u]
  /\ LET of == {d \in Calls : user[d] = user[c]}
     IN /\ valid' = [d \in Calls |-> valid[d] \cup (IF d \in of THEN {k} ELSE {})]
        /\ rivals' = [d \in Calls |-> rivals[d] \cup (IF d \in of \ {c} THEN {k} ELSE {})]
  /\ keys' = [keys EXCEPT ![user[c]] = @ \cup {k}]
  /\ key' = [key EXCEPT ![c] = k]
  /\ met' = [met EXCEPT ![k] = rivals[c]]
  /\ had' = had \cup {user[c]}
  /\ GoOn(c, "jwt")
  /\ UNCHANGED <<active, fresh, session, owner, allowed, user, sid, reg, seen, issued, opened,
                 cut, awake>>

\* generateJWT and the answer.
Answer(c) ==
  /\ At(c, "jwt")
  /\ Return(c)
  /\ UNCHANGED <<tables, counts>>

--------------------------------------------------------------------------------
\* What happens beside the calls

\* An error, a response that does not verify, the end of the process or of the
\* request: the statements so far stay.
GiveUp(c) ==
  /\ pc[c] # "idle"
  /\ cut' = IF At(c, "store") THEN cut \cup {user[c]} ELSE cut
  /\ Return(c)
  /\ UNCHANGED <<tables, issued, opened, had>>

\* Ten minutes after the last token with this code was made; five minutes after
\* the session was.
ExpireToken(u, code) ==
  /\ code \in fresh[u]
  /\ fresh' = [fresh EXCEPT ![u] = @ \ {code}]
  /\ UNCHANGED <<active, session, owner, allowed, keys, locals, counts, spans>>

ExpireSession(s) ==
  /\ session[s] \in {"assertion", "registration"}
  /\ session' = [session EXCEPT ![s] = "gone"]
  /\ UNCHANGED <<active, fresh, owner, allowed, keys, locals, counts, spans>>

\* Mutant of DeleteUser: the passkeys go with the user.
DeleteUserKeys(u) ==
  /\ active[u]
  /\ active' = [active EXCEPT ![u] = FALSE]
  /\ keys' = [keys EXCEPT ![u] = {}]
  /\ UNCHANGED <<fresh, session, owner, allowed, locals, counts, spans>>

DeleteUser(u) ==
  /\ active[u]
  /\ active' = [active EXCEPT ![u] = FALSE]
  /\ UNCHANGED <<fresh, session, owner, allowed, keys, locals, counts, spans>>

RestoreUser(u) ==
  /\ ~active[u]
  /\ active' = [active EXCEPT ![u] = TRUE]
  /\ awake' = [c \in Calls |-> awake[c] \/ user[c] = u]
  /\ UNCHANGED <<fresh, session, owner, allowed, keys, locals, counts, valid, rivals, met>>

--------------------------------------------------------------------------------
\* Specification

Begin(c) ==
  \/ \E u \in Users : LoginBegin(c, u) \/ ResetLogin(c, u) \/ VerifyToken(c, u)
  \/ LookForKeys(c)
  \/ \E code \in Codes : IssueToken(c, code) \/ ConsumeToken(c, code)
  \/ \E s \in Sessions : OpenAssertion(c, s) \/ OpenRegistration(c, s)

Complete(c) ==
  \/ \E s \in Sessions : ReadSession(c, s)
  \/ DeleteSession(c) \/ FindByRef(c) \/ RereadKeys(c) \/ ReplaceKeys(c) \/ Answer(c)
  \/ \E k \in Keys : ValidateLogin(c, k) \/ StoreKey(c, k)

Beside ==
  \/ \E u \in Users : DeleteUser(u) \/ RestoreUser(u) \/ \E code \in Codes : ExpireToken(u, code)
  \/ \E s \in Sessions : ExpireSession(s)

Next == Beside \/ \E c \in Calls : Begin(c) \/ Complete(c) \/ GiveUp(c)

Spec == Init /\ [][Next]_vars

--------------------------------------------------------------------------------
\* Properties

\* A token opens one registration, however many calls hold its code at once
\* (users.go:256-273): no user has more registrations than tokens.
RegistrationNeedsToken == \A u \in Users : opened[u] <= issued[u]

\* A registration replaces: two passkeys of a user need two registrations of
\* which one stored its key between the other's two statements (login.go:213-221).
PasskeysNeedRace ==
  \A u \in Users : \A k, l \in keys[u] : k # l => k \in met[l] \/ l \in met[k]

\* A user who has had a passkey is only without one in the middle of a
\* registration, or after one that ended there (login.go:213-221).
KeyLossNeedsCutOff ==
  \A u \in had :
    \/ keys[u] # {}
    \/ u \in cut
    \/ \E c \in Calls : user[c] = u /\ At(c, "store")

\* A JWT is only made for a user who was active, and with a passkey that was
\* registered, at some time since its LoginComplete began: a session begun before
\* a DELETE or before a new registration opens nothing after it (login.go:167-239).
LoginIsEarned ==
  \A c \in Calls : At(c, "jwt") => awake[c] /\ key[c] \in valid[c]
================================================================================
